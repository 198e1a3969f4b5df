--------------------------- MODULE LabelDocuments ---------------------------
(***************************************************************************)
(* The label and invoice documents of ready batches (batch/printing.go): a   *)
(* request inserts a print job, generates PDFs outside of any transaction,    *)
(* puts them into the object storage and commits their rows, or records that  *)
(* it failed.  Everything it does hangs on the context of its HTTP request:   *)
(* when the client goes away, storage and database calls fail.               *)
(***************************************************************************)
CONSTANTS
  Batches,
  Jobs,      \* idempotency keys: at most one print job each
  Requests,  \* HTTP requests that run at the same time
  Reliable,  \* TRUE: the process does not die and the database answers
  None

VARIABLES ready,      \* batches that have become ready
          job,        \* print_jobs
          artifacts,  \* print_artifacts: the kinds a job has
          objects,    \* object storage
          request     \* the job a request is at, and how far it has come

vars == <<ready, job, artifacts, objects, request>>

Kinds == {"labels", "invoices"}

(* source: the print job that a reprint repeats. *)
Job == [batch : Batches, invoices : BOOLEAN, source : Jobs \cup {None},
        status : {"generating", "ready", "failed"}]

(* stored: what it has to delete if it fails; gone: its client went away. *)
Request == [job : Jobs, step : {"generating", "storing", "failing"},
            stored : SUBSET Kinds, gone : BOOLEAN]

Init == /\ ready = {}
        /\ job = [k \in Jobs |-> None]
        /\ artifacts = [k \in Jobs |-> {}]
        /\ objects = {}
        /\ request = [r \in Requests |-> None]

BecomeReady(b) == /\ ready' = ready \cup {b}
                  /\ UNCHANGED <<job, artifacts, objects, request>>

IsReady(k) == job[k] # None /\ job[k].status = "ready"

(* A known key is answered with its job and changes nothing.  A COMMIT that took  *)
(* place and was not answered ends the request with the job generating: that is   *)
(* the state after Begin, Disconnect, RenderFails and FailPrintJobFails.          *)
Begin(r, k, b, invoices, source) ==
  /\ request[r] = None /\ job[k] = None /\ b \in ready
  /\ job' = [job EXCEPT ![k] =
       [batch |-> b, invoices |-> invoices, source |-> source, status |-> "generating"]]
  /\ request' = [request EXCEPT ![r] =
       [job |-> k, step |-> "generating", stored |-> {}, gone |-> FALSE]]
  /\ UNCHANGED <<ready, artifacts, objects>>

Generate(r, k, b, invoices) == Begin(r, k, b, invoices, None)

Reprint(r, k, s) == IsReady(s) /\ Begin(r, k, job[s].batch, job[s].invoices, s)

At(r, step) == request[r] # None /\ request[r].step = step

Fail(r) == request' = [request EXCEPT ![r] = [@ EXCEPT !.step = "failing"]]

(* The sources are read and the documents rendered. *)
Render(r) ==
  /\ At(r, "generating") /\ ~request[r].gone
  /\ request' = [request EXCEPT ![r] = [@ EXCEPT !.step = "storing"]]
  /\ UNCHANGED <<ready, job, artifacts, objects>>

RenderFails(r) ==
  /\ At(r, "generating")
  /\ Fail(r)
  /\ UNCHANGED <<ready, job, artifacts, objects>>

Outputs(k) == IF job[k].invoices THEN Kinds ELSE {"labels"}

Missing(r) == LET left == Outputs(request[r].job) \ request[r].stored
              IN  IF "labels" \in left THEN {"labels"} ELSE left

Own(r, kinds) == {request[r].job} \X kinds

(* What is left in the storage when the objects it knows of are deleted: all    *)
(* if its client went away, for Delete then gives up at once.                 *)
CleanedUp(r) == IF request[r].gone THEN objects ELSE objects \ Own(r, request[r].stored)

Store(r) ==
  /\ At(r, "storing") /\ Missing(r) # {} /\ ~request[r].gone
  /\ objects' = objects \cup Own(r, Missing(r))
  /\ request' = [request EXCEPT ![r] = [@ EXCEPT !.stored = request[r].stored \cup Missing(r)]]
  /\ UNCHANGED <<ready, job, artifacts>>

(* Nothing is written; or the object is there all the same, for Put looks at    *)
(* its context last.                                                         *)
StoreFails(r) ==
  /\ At(r, "storing") /\ Missing(r) # {}
  /\ \/ objects' = CleanedUp(r)
     \/ request[r].gone /\ objects' = objects \cup Own(r, Missing(r))
  /\ Fail(r)
  /\ UNCHANGED <<ready, job, artifacts>>

Publish(k) == /\ artifacts' = [artifacts EXCEPT ![k] = Outputs(k)]
              /\ job' = IF job[k].status = "generating"
                        THEN [job EXCEPT ![k] = [@ EXCEPT !.status = "ready"]] ELSE job

Commit(r) ==
  /\ At(r, "storing") /\ Missing(r) = {} /\ ~request[r].gone
  /\ Publish(request[r].job)
  /\ request' = [request EXCEPT ![r] = None]
  /\ UNCHANGED <<ready, objects>>

(* The COMMIT takes place but its answer does not arrive. *)
CommitUnanswered(r) ==
  /\ At(r, "storing") /\ Missing(r) = {}
  /\ ~Reliable \/ request[r].gone
  /\ Publish(request[r].job)
  /\ objects' = CleanedUp(r)
  /\ Fail(r)
  /\ UNCHANGED ready

CommitFails(r) ==
  /\ At(r, "storing") /\ Missing(r) = {}
  /\ ~Reliable \/ request[r].gone
  /\ objects' = CleanedUp(r)
  /\ Fail(r)
  /\ UNCHANGED <<ready, job, artifacts>>

(* failPrintJob leaves a job alone that has become ready. *)
FailPrintJob(r) ==
  LET k == request[r].job
  IN  /\ At(r, "failing") /\ ~request[r].gone
      /\ job' = IF job[k].status = "generating"
                THEN [job EXCEPT ![k] = [@ EXCEPT !.status = "failed"]] ELSE job
      /\ request' = [request EXCEPT ![r] = None]
      /\ UNCHANGED <<ready, artifacts, objects>>

(* Its transaction does not begin, or does not commit. *)
FailPrintJobFails(r) ==
  /\ At(r, "failing")
  /\ ~Reliable \/ request[r].gone
  /\ request' = [request EXCEPT ![r] = None]
  /\ UNCHANGED <<ready, job, artifacts, objects>>

Disconnect(r) ==
  /\ request[r] # None
  /\ request' = [request EXCEPT ![r] = [@ EXCEPT !.gone = TRUE]]
  /\ UNCHANGED <<ready, job, artifacts, objects>>

Crash == /\ ~Reliable
         /\ request' = [r \in Requests |-> None]
         /\ UNCHANGED <<ready, job, artifacts, objects>>

(* DownloadArtifact and a replay answer with what is there. *)
CanBeDownloaded(k) == \A kind \in artifacts[k] : <<k, kind>> \in objects

Next ==
  \/ \E b \in Batches : BecomeReady(b)
  \/ \E r \in Requests, k \in Jobs :
       \/ \E b \in Batches, invoices \in BOOLEAN : Generate(r, k, b, invoices)
       \/ \E s \in Jobs : Reprint(r, k, s)
  \/ \E r \in Requests :
       \/ Render(r) \/ RenderFails(r) \/ Store(r) \/ StoreFails(r)
       \/ Commit(r) \/ CommitUnanswered(r) \/ CommitFails(r)
       \/ FailPrintJob(r) \/ FailPrintJobFails(r) \/ Disconnect(r)
  \/ Crash

Spec == Init /\ [][Next]_vars

----------------------------------------------------------------------------
TypeOK == /\ ready \subseteq Batches
          /\ job \in [Jobs -> Job \cup {None}]
          /\ artifacts \in [Jobs -> SUBSET Kinds]
          /\ objects \subseteq Jobs \X Kinds
          /\ request \in [Requests -> Request \cup {None}]

(* The documents of a job are all there exactly when it is ready: no failure      *)
(* half way shows some of them, and a job that is recorded as failed has none.   *)
ReadyIsComplete ==
  \A k \in Jobs : artifacts[k] = IF IsReady(k) THEN Outputs(k) ELSE {}

(* docs/workflows/printing.md:49: "failures are persisted": a job that nobody     *)
(* generates any more has ended.                                              *)
FailuresArePersisted ==
  \A k \in Jobs :
    job[k] # None /\ job[k].status = "generating" =>
      \E r \in Requests : request[r] # None /\ request[r].job = k

(* As long as neither the server nor the database fails (Reliable): what is ready *)
(* can be downloaded, though a client that goes away during the COMMIT makes       *)
(* persistArtifacts take it for a failure and clean up.                         *)
ReadyCanBeDownloaded == \A k \in Jobs : IsReady(k) => CanBeDownloaded(k)
=============================================================================
