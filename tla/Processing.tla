----------------------------- MODULE Processing -----------------------------
(***************************************************************************)
(* The processing of uploaded order files (marketplace/service.go), for one *)
(* marketplace: a request stores the file and queues a job, a worker of some *)
(* server process claims it under a lease, reads the file and stores its     *)
(* orders in one transaction.                                              *)
(*                                                                         *)
(* The transaction that stores orders keeps the row of its job locked and    *)
(* takes an advisory lock for every identifier on its way: it is one step    *)
(* per label here.  Every other transaction locks one job and is one action. *)
(* A COMMIT may take place although its answer is lost.                     *)
(***************************************************************************)
EXTENDS Naturals, Sequences, FiniteSets

CONSTANTS
  Files,        \* contents: at most one source file and one job each
  Identifiers,  \* AWBs and order ids
  Labels,       \* of a file: the identifiers of each of its labels, and what the
                \* label becomes if it is new: "needs_review" where it says too
                \* little, either where that is up to the SKU mappings
  Requests,     \* uploads, each under a storage key of its own
  Contents,     \* bound: the files and keys that a request may come with
  Keys,         \* idempotency keys of uploads
  Servers,      \* API processes: a restarted one is another one
  Workers,      \* the goroutines that process jobs
  ServerOf,     \* of a worker: its process, whose worker id it uses
  None

ASSUME ProcessingAssumption ==
  /\ Labels \in [Files -> Seq([ids : SUBSET Identifiers,
                               outcome : (SUBSET {"resolved", "needs_review"}) \ {{}}])]
  /\ Contents \in [Requests -> SUBSET [file : Files, key : Keys \cup {None}]]
  /\ ServerOf \in [Workers -> Servers]
  /\ None \notin Files \cup Requests \cup Keys \cup Servers

VARIABLES
  status, holder, live,  \* processing_jobs; live: the lease has not run out
  orders,                \* marketplace_orders of a job
  used,                  \* jobs with an order that a batch or another table refers to
  source, uploadKey,     \* of a job: the upload and idempotency key that made it
  created,               \* jobs, oldest first
  objects,               \* object storage: the uploads whose file is there
  request,               \* uploads
  up, work               \* processes that run, and the job each of their workers is at

jobVars == <<status, holder, live, orders>>
uploadVars == <<source, uploadKey, created, objects, request>>
vars == <<jobVars, used, uploadVars, up, work>>

Finished == {"processed", "needs_review", "failed"}
Status == {"none", "queued", "processing"} \cup Finished

Order == [ids : SUBSET Identifiers, status : {"resolved", "needs_review", "duplicate"}]

Request == [file : Files, key : Keys \cup {None},
            step : {"stored", "accepted", "dropped"}]

(* result: the orders that the worker's transaction has inserted so far. *)
Work == [file : Files, step : {"claimed", "storing", "failing"}, result : Seq(Order)]

Init ==
  /\ status = [f \in Files |-> "none"]
  /\ holder = [f \in Files |-> None]
  /\ live   = [f \in Files |-> FALSE]
  /\ orders = [f \in Files |-> << >>]
  /\ used = {}
  /\ source = [f \in Files |-> None]
  /\ uploadKey = [f \in Files |-> None]
  /\ created = << >>
  /\ objects = {}
  /\ request = [r \in Requests |-> None]
  /\ up = Servers
  /\ work = [w \in Workers |-> None]

----------------------------------------------------------------------------
(* Uploads. *)

RequestAt(r, step) == request[r] # None /\ request[r].step = step

KeyIsKnown(k) == k # None /\ \E f \in Files : uploadKey[f] = k

(* A known key or a known content is answered here and changes nothing; else     *)
(* the file is put into the object storage.                                    *)
BeginUpload(r, f, k) ==
  /\ request[r] = None
  /\ ~KeyIsKnown(k) /\ status[f] = "none"
  /\ objects' = objects \cup {r}
  /\ request' = [request EXCEPT ![r] = [file |-> f, key |-> k, step |-> "stored"]]
  /\ UNCHANGED <<jobVars, used, source, uploadKey, created, up, work>>

(* The process dies, or the deferred Delete fails too. *)
LeaveUpload(r) ==
  /\ RequestAt(r, "stored")
  /\ request' = [request EXCEPT ![r].step = "dropped"]
  /\ UNCHANGED <<jobVars, used, source, uploadKey, created, objects, up, work>>

Insert(r) ==
  LET f == request[r].file
  IN  /\ status' = [status EXCEPT ![f] = "queued"]
      /\ source' = [source EXCEPT ![f] = r]
      /\ uploadKey' = [uploadKey EXCEPT ![f] = request[r].key]
      /\ created' = Append(created, f)

(* The constraints on content and on key decide between concurrent uploads. *)
IsTaken(r) == status[request[r].file] # "none" \/ KeyIsKnown(request[r].key)

InsertJob(r) ==
  /\ RequestAt(r, "stored") /\ ~IsTaken(r)
  /\ Insert(r)
  /\ request' = [request EXCEPT ![r].step = "accepted"]
  /\ UNCHANGED <<holder, live, orders, used, objects, up, work>>

(* The COMMIT took place, the server thinks it did not and deletes the file. *)
InsertUnanswered(r) ==
  /\ RequestAt(r, "stored") /\ ~IsTaken(r)
  /\ Insert(r)
  /\ request' = [request EXCEPT ![r].step = "dropped"]
  /\ objects' = objects \ {r}
  /\ UNCHANGED <<holder, live, orders, used, up, work>>

(* Mutant of DropUpload: the storage key is made from the content. *)
DropContent(r) ==
  /\ RequestAt(r, "stored") /\ IsTaken(r)
  /\ request' = [request EXCEPT ![r].step = "dropped"]
  /\ objects' = {q \in objects : request[q].file # request[r].file}
  /\ UNCHANGED <<jobVars, used, source, uploadKey, created, up, work>>

DropUpload(r) ==
  /\ RequestAt(r, "stored") /\ IsTaken(r)
  /\ request' = [request EXCEPT ![r].step = "dropped"]
  /\ objects' = objects \ {r}
  /\ UNCHANGED <<jobVars, used, source, uploadKey, created, up, work>>

----------------------------------------------------------------------------
(* Workers. *)

At(w, step) == work[w] # None /\ work[w].step = step

Locked(f) == \E w \in Workers : At(w, "storing") /\ work[w].file = f

(* Mutant of Claimable: what a dead worker has left is not picked up. *)
ClaimableQueued(f) == status[f] = "queued"

Claimable(f) == status[f] = "queued" \/ (status[f] = "processing" /\ ~live[f])

(* The oldest one that no transaction has locked: FOR UPDATE SKIP LOCKED. *)
CanClaim(f) ==
  /\ Claimable(f) /\ ~Locked(f)
  /\ \E n \in DOMAIN created :
       /\ created[n] = f
       /\ \A m \in 1..(n - 1) : ~Claimable(created[m]) \/ Locked(created[m])

(* Mutant of Claim: each goroutine has a worker id of its own. *)
ClaimByWorker(w, f) ==
  /\ ServerOf[w] \in up /\ work[w] = None
  /\ CanClaim(f)
  /\ status' = [status EXCEPT ![f] = "processing"]
  /\ holder' = [holder EXCEPT ![f] = w]
  /\ live'   = [live EXCEPT ![f] = TRUE]
  /\ work'   = [work EXCEPT ![w] = [file |-> f, step |-> "claimed", result |-> << >>]]
  /\ UNCHANGED <<orders, used, uploadVars, up>>

Claim(w, f) ==
  /\ ServerOf[w] \in up /\ work[w] = None
  /\ CanClaim(f)
  /\ status' = [status EXCEPT ![f] = "processing"]
  /\ holder' = [holder EXCEPT ![f] = ServerOf[w]]
  /\ live'   = [live EXCEPT ![f] = TRUE]
  /\ work'   = [work EXCEPT ![w] = [file |-> f, step |-> "claimed", result |-> << >>]]
  /\ UNCHANGED <<orders, used, uploadVars, up>>

(* The worker does not hear that it has the job. *)
ClaimUnanswered(w, f) ==
  /\ ServerOf[w] \in up /\ work[w] = None
  /\ CanClaim(f)
  /\ status' = [status EXCEPT ![f] = "processing"]
  /\ holder' = [holder EXCEPT ![f] = ServerOf[w]]
  /\ live'   = [live EXCEPT ![f] = TRUE]
  /\ UNCHANGED <<orders, used, uploadVars, up, work>>

(* Mutant of Owns: the process that holds the lease is not looked at. *)
OwnsAnyLease(w) == status[work[w].file] = "processing" /\ live[work[w].file]

(* Asked by the heartbeat, by execute and by failJob.  Workers of one process   *)
(* answer for each other.                                                    *)
Owns(w) == LET f == work[w].file
           IN  status[f] = "processing" /\ holder[f] = ServerOf[w] /\ live[f]

Turn(w, step) == work' = [work EXCEPT ![w] = [@ EXCEPT !.step = step, !.result = << >>]]

(* The file is there and is understood; the transaction locks the job. *)
BeginStore(w) ==
  /\ At(w, "claimed")
  /\ source[work[w].file] \in objects
  /\ ~Locked(work[w].file) /\ Owns(w)
  /\ Turn(w, "storing")
  /\ UNCHANGED <<jobVars, used, uploadVars, up>>

ReadFails(w) ==
  /\ At(w, "claimed")
  /\ source[work[w].file] \notin objects
  /\ Turn(w, "failing")
  /\ UNCHANGED <<jobVars, used, uploadVars, up>>

(* The identifiers of orders, by the place of the orders among rows. *)
Identify(rows, places) == UNION {rows[n].ids : n \in places}

Authoritative(rows) == {n \in DOMAIN rows : rows[n].status # "duplicate"}

(* What a transaction has locked of the identifiers. *)
LockedIds(w) == IF At(w, "storing") THEN Identify(work[w].result, DOMAIN work[w].result) ELSE {}

(* All committed orders that are no duplicates, and those of the transaction.  *)
IsDuplicate(w, ids) ==
  ids \cap (Identify(work[w].result, Authoritative(work[w].result))
            \cup UNION {Identify(orders[f], Authoritative(orders[f])) : f \in Files}) # {}

NextLabel(w) == Labels[work[w].file][Len(work[w].result) + 1]

HasMoreLabels(w) == Len(work[w].result) < Len(Labels[work[w].file])

Blocked(w) == /\ At(w, "storing") /\ HasMoreLabels(w)
              /\ \E v \in Workers \ {w} : LockedIds(v) \cap NextLabel(w).ids # {}

InsertOrder(w) ==
  \E s \in IF IsDuplicate(w, NextLabel(w).ids) THEN {"duplicate"} ELSE NextLabel(w).outcome :
    work' = [work EXCEPT ![w].result = Append(@, [ids |-> NextLabel(w).ids, status |-> s])]

(* Mutant of StoreLabel: without advisory locks. *)
StoreLabelUnlocked(w) ==
  /\ At(w, "storing") /\ HasMoreLabels(w)
  /\ InsertOrder(w)
  /\ UNCHANGED <<jobVars, used, uploadVars, up>>

(* The locks of both identifiers are taken at once.  The code takes the one of the *)
(* AWB first and may wait for the other with it in its hands: it then locks more   *)
(* than it does here, and the victim of that deadlock is a FailExecution.         *)
StoreLabel(w) ==
  /\ At(w, "storing") /\ HasMoreLabels(w)
  /\ ~Blocked(w)
  /\ InsertOrder(w)
  /\ UNCHANGED <<jobVars, used, uploadVars, up>>

(* The results become visible; the answer may be lost. *)
CommitStore(w) ==
  LET f == work[w].file
  IN  /\ At(w, "storing") /\ ~HasMoreLabels(w)
      /\ orders' = [orders EXCEPT ![f] = @ \o work[w].result]
      /\ status' = [status EXCEPT ![f] =
           IF \A n \in DOMAIN work[w].result : work[w].result[n].status = "resolved"
           THEN "processed" ELSE "needs_review"]
      /\ holder' = [holder EXCEPT ![f] = None]
      /\ live'   = [live EXCEPT ![f] = FALSE]
      /\ Turn(w, "failing") \/ work' = [work EXCEPT ![w] = None]
      /\ UNCHANGED <<used, uploadVars, up>>

(* A parser, a timeout, a heartbeat without answer, the victim of a deadlock:  *)
(* the transaction is rolled back and failJob follows.                        *)
FailExecution(w) ==
  /\ At(w, "claimed") \/ At(w, "storing")
  /\ Turn(w, "failing")
  /\ UNCHANGED <<jobVars, used, uploadVars, up>>

FailJob(w) ==
  LET f == work[w].file
  IN  /\ At(w, "failing")
      /\ ~Locked(f) /\ Owns(w)
      /\ status' = [status EXCEPT ![f] = "failed"]
      /\ holder' = [holder EXCEPT ![f] = None]
      /\ live'   = [live EXCEPT ![f] = FALSE]
      /\ work'   = [work EXCEPT ![w] = None]
      /\ UNCHANGED <<orders, used, uploadVars, up>>

(* ErrLeaseLost. *)
LoseLease(w) ==
  /\ At(w, "claimed") \/ At(w, "failing")
  /\ ~Locked(work[w].file) /\ ~Owns(w)
  /\ work' = [work EXCEPT ![w] = None]
  /\ UNCHANGED <<jobVars, used, uploadVars, up>>

(* failJob itself fails. *)
Forget(w) ==
  /\ At(w, "failing")
  /\ work' = [work EXCEPT ![w] = None]
  /\ UNCHANGED <<jobVars, used, uploadVars, up>>

(* Heartbeats came too late, or not at all. *)
Expire(f) ==
  /\ status[f] = "processing" /\ live[f]
  /\ live' = [live EXCEPT ![f] = FALSE]
  /\ UNCHANGED <<status, holder, orders, used, uploadVars, up, work>>

(* Bound: the last process keeps running, as one that is started again for ever. *)
Crash(s) ==
  /\ s \in up /\ up # {s}
  /\ up' = up \ {s}
  /\ work' = [w \in Workers |-> IF ServerOf[w] = s THEN None ELSE work[w]]
  /\ UNCHANGED <<jobVars, used, uploadVars>>

----------------------------------------------------------------------------
(* Operators. *)

(* Mutant of Retry: without the deletes. *)
RetryKeepingOrders(f) ==
  /\ status[f] \in Finished /\ f \notin used
  /\ status' = [status EXCEPT ![f] = "queued"]
  /\ UNCHANGED <<holder, live, orders, used, uploadVars, up, work>>

(* The orders are deleted first, which a reference to one of them forbids. *)
Retry(f) ==
  /\ status[f] \in Finished /\ f \notin used
  /\ status' = [status EXCEPT ![f] = "queued"]
  /\ orders' = [orders EXCEPT ![f] = << >>]
  /\ UNCHANGED <<holder, live, used, uploadVars, up, work>>

(* A batch takes an order of the file. *)
Use(f) ==
  /\ status[f] \in {"processed", "needs_review"}
  /\ Authoritative(orders[f]) # {}
  /\ used' = used \cup {f}
  /\ UNCHANGED <<jobVars, uploadVars, up, work>>

----------------------------------------------------------------------------
Uploading == \E r \in Requests :
  \/ \E c \in Contents[r] : BeginUpload(r, c.file, c.key)
  \/ InsertJob(r) \/ InsertUnanswered(r) \/ DropUpload(r) \/ LeaveUpload(r)

Working == \E w \in Workers :
  \/ \E f \in Files : Claim(w, f) \/ ClaimUnanswered(w, f)
  \/ BeginStore(w) \/ ReadFails(w) \/ StoreLabel(w) \/ CommitStore(w)
  \/ FailExecution(w) \/ FailJob(w) \/ LoseLease(w) \/ Forget(w)

Next == \/ Uploading \/ Working
        \/ \E f \in Files : Expire(f) \/ Retry(f) \/ Use(f)
        \/ \E s \in Servers : Crash(s)

Spec == Init /\ [][Next]_vars

(* Workers poll every two seconds, a deadlock has a victim, and a lease that     *)
(* nobody renews runs out.  Not every claim and not every failure goes unheard   *)
(* for ever, and from some time on heartbeats are not late and nobody retries:   *)
(* the oldest job is claimed first, and one that is retried at once, for ever,    *)
(* starves the others.                                                        *)
Unattended(f) == \A w \in Workers : work[w] # None => work[w].file # f

Fairness ==
  /\ <>[][\A f \in Files : ~Retry(f) /\ (Expire(f) => Unattended(f))]_vars
  /\ \A f \in Files : WF_vars(Unattended(f) /\ Expire(f))
  /\ \A w \in Workers :
       /\ SF_vars(\E f \in Files : Claim(w, f))
       /\ SF_vars(FailJob(w))
       /\ WF_vars(\/ BeginStore(w) \/ ReadFails(w) \/ LoseLease(w)
                  \/ StoreLabel(w) \/ CommitStore(w) \/ (Blocked(w) /\ FailExecution(w)))

FairSpec == Spec /\ Fairness

----------------------------------------------------------------------------
TypeOK ==
  /\ status \in [Files -> Status]
  /\ holder \in [Files -> Servers \cup {None}]
  /\ live \in [Files -> BOOLEAN]
  /\ orders \in [Files -> Seq(Order)]
  /\ used \in SUBSET Files
  /\ source \in [Files -> Requests \cup {None}]
  /\ uploadKey \in [Files -> Keys \cup {None}]
  /\ created \in Seq(Files)
  /\ objects \in SUBSET Requests
  /\ request \in [Requests -> Request \cup {None}]
  /\ up \in SUBSET Servers
  /\ work \in [Workers -> Work \cup {None}]

(* docs/marketplaces/flipkart.md:38: two jobs that run at the same time never    *)
(* both store an authoritative order under one AWB or order id.  The unique      *)
(* indexes are not modelled: the advisory locks are enough.                     *)
OneAuthoritativeOrder ==
  \A f, g \in Files : \A n \in DOMAIN orders[f], m \in DOMAIN orders[g] :
    /\ <<f, n>> # <<g, m>>
    /\ orders[f][n].status # "duplicate" /\ orders[g][m].status # "duplicate"
    => orders[f][n].ids \cap orders[g][m].ids = {}

(* However often a job was claimed, retried or failed, its orders are those of   *)
(* one execution: all of its labels when it has ended well, else none.          *)
OrdersAreOfOneExecution ==
  \A f \in Files :
    IF status[f] \in {"processed", "needs_review"}
    THEN /\ Len(orders[f]) = Len(Labels[f])
         /\ \A n \in DOMAIN orders[f] : orders[f][n].ids = Labels[f][n].ids
         /\ status[f] = "processed" <=>
              \A n \in DOMAIN orders[f] : orders[f][n].status = "resolved"
    ELSE orders[f] = << >>

(* docs/ARCHITECTURE.md:40: "a stale process cannot commit after another         *)
(* instance reclaims its job".                                                *)
StaleProcessCannotFinish ==
  [][\A f \in Files :
       status[f] = "processing" /\ status'[f] \in Finished =>
         \E w \in Workers : /\ work[w] # None /\ work[w].file = f /\ work'[w] # work[w]
                            /\ ServerOf[w] = holder[f]]_vars

(* An upload that was answered as accepted has a job and its file, whatever       *)
(* other uploads of the same content clean up after themselves.                *)
AcceptedIsStored ==
  \A r \in Requests : RequestAt(r, "accepted") =>
    /\ source[request[r].file] = r /\ r \in objects
    /\ status[request[r].file] # "none"

(* Whatever crashes, expires or is lost, all jobs come to an end: neither the     *)
(* second goroutine of a process nor the death of one leaves any behind.        *)
AllJobsEnd == []<>(\A f \in Files : status[f] \notin {"queued", "processing"})
=============================================================================
