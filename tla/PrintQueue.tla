----------------------------- MODULE PrintQueue -----------------------------
(***************************************************************************)
(* Physical printing: the job queue the API server keeps in PostgreSQL     *)
(* (printing/service.go) and the printer agents that poll it               *)
(* (printeragent/runner.go), with the network between them.                *)
(*                                                                         *)
(* One server transaction is one action, but for a claim that finds a job:  *)
(* it locks the rows it changes and commits later, while printers, agents   *)
(* and other jobs may change.  An agent's Tick is cut at every HTTP call,   *)
(* journal write and CUPS call.  A call may be answered, be executed        *)
(* without the agent learning of it, fail, or be executed late, after the   *)
(* agent's 30 second client timeout.                                       *)
(***************************************************************************)
EXTENDS Naturals, Sequences, FiniteSets

CONSTANTS
  Agents, Printers, Documents,
  Artifacts,   \* the documents that are generated artifacts, not library assets
  Jobs,        \* idempotency keys: at most one row each (company, key)
  None,
  AgentOf,     \* the agent that owns each printer row
  Revocable,   \* bound: the agents the operator may revoke
  Tearing,     \* bound: the agents whose journal appends may be cut short
  MaxLate      \* bound: agent requests executed after their client gave up

ASSUME PrintQueueAssumption ==
  /\ Artifacts \subseteq Documents
  /\ AgentOf \in [Printers -> Agents]
  /\ Revocable \cup Tearing \subseteq Agents
  /\ MaxLate \in Nat
  /\ None \notin Jobs

VARIABLES
  (* printer_jobs *)
  status, payload, source, attempts, holder, live,
  created,                  \* the rows in order of creation
  lock,     \* the open claim that has locked the row, named by the job it selected
  (* printer_agents, registered_printers, print_library_assets *)
  revoked, printer, active,
  (* the agent processes and their journals *)
  pc, cur, token, journal,
  (* the network and the paper *)
  late, printed

jobVars    == <<status, payload, source, attempts, holder, live, created>>
deviceVars == <<revoked, printer>>
serverVars == <<jobVars, lock, deviceVars, active>>
agentVars  == <<pc, cur, token, journal, printed>>
vars       == <<serverVars, agentVars, late>>

INSTANCE PrinterJournal

Status  == {"none", "queued", "claimed", "printing",
            "completed", "failed", "cancelled"}
Leased  == {"claimed", "printing"}
Payload == [printer : Printers, document : Documents]

(* A registered printer: enabled is the operator's, online is what the last *)
(* heartbeat said, recent is last_seen_at within 90 seconds.                *)
PrinterRow == [known : BOOLEAN, enabled : BOOLEAN, online : BOOLEAN, recent : BOOLEAN]

(* The HTTP requests of an agent that change the server. *)
Heartbeats == [op : {"heartbeat"}, agent : Agents, seen : SUBSET Printers]
Claims     == [op : {"claim"}, agent : Agents]
Reports    == [op : {"report"}, agent : Agents, job : Jobs, token : Nat,
               status : {"printing", "completed", "failed"}]
Requests   == Heartbeats \cup Claims \cup Reports

(* Where a Tick stands, named for what it has just obtained. *)
Control == {"idle", "beaten", "claiming", "claimed", "fetched", "announced",
            "recorded", "submitted", "finishing", "failing"}

Init ==
  /\ status   = [j \in Jobs |-> "none"]
  /\ payload  = [j \in Jobs |-> None]
  /\ source   = [j \in Jobs |-> None]
  /\ attempts = [j \in Jobs |-> 0]
  /\ holder   = [j \in Jobs |-> None]
  /\ live     = [j \in Jobs |-> FALSE]
  /\ created  = << >>
  /\ lock     = [j \in Jobs |-> None]
  /\ revoked  = {}
  /\ printer  = [p \in Printers |-> [known |-> FALSE, enabled |-> TRUE,
                                     online |-> FALSE, recent |-> FALSE]]
  /\ active   = Documents \ Artifacts
  /\ pc       = [a \in Agents |-> "idle"]
  /\ cur      = [a \in Agents |-> None]
  /\ token    = [a \in Agents |-> 0]
  /\ journal  = [a \in Agents |-> EmptyJournal]
  /\ late     = {}
  /\ printed  = [j \in Jobs |-> 0]

----------------------------------------------------------------------------
(* Operators of the browser API: one transaction each. *)

Usable(p) == printer[p].known /\ printer[p].enabled
             /\ printer[p].online /\ printer[p].recent

(* createJobTx inserts a row.  A key that is taken inserts nothing: it is    *)
(* answered with the old row (same request hash) or with a conflict.         *)
CreateJob(j, p, d, s) ==
  /\ status[j] = "none"
  /\ Usable(p)
  /\ d \in Artifacts \cup active
  /\ status'  = [status EXCEPT ![j] = "queued"]
  /\ payload' = [payload EXCEPT ![j] = [printer |-> p, document |-> d]]
  /\ source'  = [source EXCEPT ![j] = s]
  /\ created' = Append(created, j)
  /\ UNCHANGED <<attempts, holder, live, lock, deviceVars, active, agentVars, late>>

(* CreateQuickJob, QueueArtifact and QueueAutomationTx differ in the document *)
(* and in the origin they record.                                           *)
Queue(j, p, d) == CreateJob(j, p, d, None)

(* Retry reads the source outside the transaction that inserts the copy; the *)
(* source is immutable and failed is final, so the pair is one step.         *)
Retry(j, s) ==
  /\ status[s] = "failed"
  /\ CreateJob(j, payload[s].printer, payload[s].document, s)

(* Mutant of Cancel: a job that an agent works on can be cancelled. *)
CancelUnfinished(j) ==
  /\ status[j] \in {"queued"} \cup Leased
  /\ lock[j] = None
  /\ status' = [status EXCEPT ![j] = "cancelled"]
  /\ UNCHANGED <<payload, source, attempts, holder, live, created, lock, deviceVars,
                 active, agentVars, late>>

(* The UPDATE waits for the claim that has the row locked. *)
Cancel(j) ==
  /\ status[j] = "queued"
  /\ lock[j] = None
  /\ status' = [status EXCEPT ![j] = "cancelled"]
  /\ UNCHANGED <<payload, source, attempts, holder, live, created, lock, deviceVars,
                 active, agentVars, late>>

(* Mutant of RevokeAgent: the agent's printers stay online. *)
RevokeCredentialOnly(a) ==
  /\ a \in Revocable \ revoked
  /\ revoked' = revoked \cup {a}
  /\ UNCHANGED <<jobVars, lock, printer, active, agentVars, late>>

RevokeAgent(a) ==
  /\ a \in Revocable \ revoked
  /\ revoked' = revoked \cup {a}
  /\ printer' = [p \in Printers |-> IF AgentOf[p] = a
                                    THEN [printer[p] EXCEPT !.online = FALSE]
                                    ELSE printer[p]]
  /\ UNCHANGED <<jobVars, lock, active, agentVars, late>>

UpdatePrinter(p, on) ==
  /\ printer[p].known
  /\ printer' = [printer EXCEPT ![p].enabled = on]
  /\ UNCHANGED <<jobVars, lock, revoked, active, agentVars, late>>

(* UpdateAsset sets the active flag either way, ArchiveAsset only clears it. *)
UpdateAsset(d, on) ==
  /\ d \in Documents \ Artifacts
  /\ active' = IF on THEN active \cup {d} ELSE active \ {d}
  /\ UNCHANGED <<jobVars, lock, deviceVars, agentVars, late>>

----------------------------------------------------------------------------
(* The agent API.  Every request passes AuthenticateAgent first; what is     *)
(* below is the handler's own transaction.                                  *)

(* Mutant of ServeHeartbeat: last_seen_at is set only when a row is inserted. *)
HeartbeatOnInsert(a, seen) ==
  /\ a \notin revoked
  /\ printer' = [p \in Printers |->
       IF AgentOf[p] # a THEN printer[p]
       ELSE IF p \in seen
            THEN [printer[p] EXCEPT !.known = TRUE, !.online = TRUE,
                                    !.recent = @ \/ ~printer[p].known]
            ELSE [printer[p] EXCEPT !.online = FALSE]]
  /\ UNCHANGED <<jobVars, lock, revoked, active>>

(* Heartbeat inserts or refreshes the printers it lists and takes the agent's *)
(* other printers offline.                                                  *)
ServeHeartbeat(a, seen) ==
  /\ a \notin revoked
  /\ printer' = [p \in Printers |->
       IF AgentOf[p] # a THEN printer[p]
       ELSE IF p \in seen
            THEN [printer[p] EXCEPT !.known = TRUE, !.online = TRUE, !.recent = TRUE]
            ELSE [printer[p] EXCEPT !.online = FALSE]]
  /\ UNCHANGED <<jobVars, lock, revoked, active>>

(* Mutant of Expired: a lease that was never reported on does not expire. *)
ExpiredPrinting(a) == {j \in Jobs : holder[j] = a /\ status[j] = "printing" /\ ~live[j]}

Expired(a) == {j \in Jobs : holder[j] = a /\ status[j] \in Leased /\ ~live[j]}

(* Rows that another claim has locked are skipped. *)
Claimable(a) == {j \in Jobs : /\ status[j] = "queued"
                              /\ lock[j] = None
                              /\ AgentOf[payload[j].printer] = a
                              /\ Usable(payload[j].printer)}

Older(j, k) == \E m, n \in DOMAIN created : m < n /\ created[m] = j /\ created[n] = k

(* Mutants of GivenUp: an expired lease is queued again, or gets a status that *)
(* the CHECK constraint of printer_jobs does not know.                      *)
Requeued(F) == [j \in Jobs |-> IF j \in F THEN "queued" ELSE status[j]]
MarkedExpired(F) == [j \in Jobs |-> IF j \in F THEN "lease_expired" ELSE status[j]]

GivenUp(F) == [j \in Jobs |-> IF j \in F THEN "failed" ELSE status[j]]

(* The statements of a claim that finds a job: this agent's own expired       *)
(* leases are to be failed and its oldest queued job is to be leased.  The    *)
(* first statement waits for a row that another claim has locked.            *)
SelectJob(a, j) ==
  /\ \A k \in Expired(a) : lock[k] = None
  /\ j \in Claimable(a)
  /\ \A k \in Claimable(a) \ {j} : Older(j, k)
  /\ lock' = [k \in Jobs |-> IF k \in Expired(a) \cup {j} THEN j ELSE lock[k]]
  /\ UNCHANGED <<jobVars, deviceVars, active>>

(* A claim that finds none fails the expired leases all the same. *)
FindNothing(a) ==
  /\ \A k \in Expired(a) : lock[k] = None
  /\ Claimable(a) = {}
  /\ status' = GivenUp(Expired(a))
  /\ UNCHANGED <<payload, source, attempts, holder, live, created, lock, deviceVars, active>>

BeginClaim(a) == FindNothing(a) \/ \E j \in Jobs : SelectJob(a, j)

(* The agent whose claim selected j, and whether its Tick waits for the answer. *)
Claimer(j) == AgentOf[payload[j].printer]
Awaited(j) == pc[Claimer(j)] = "claiming" /\ cur[Claimer(j)] = j

Unlocked(j) == [k \in Jobs |-> IF lock[k] = j THEN None ELSE lock[k]]

HoldsLease(a, j, t) == holder[j] = a /\ attempts[j] = t /\ live[j]

(* Mutant of ServeReport: one UPDATE by agent and token, without the checks. *)
ReportUnconditionally(a, j, t, s) ==
  /\ holder[j] = a /\ attempts[j] = t
  /\ status' = [status EXCEPT ![j] = s]
  /\ UNCHANGED <<payload, source, attempts, holder, live, created, lock, deviceVars, active>>

(* Report: a repeated status changes nothing, printing extends the lease, a  *)
(* final status never changes.                                              *)
ServeReport(a, j, t, s) ==
  /\ HoldsLease(a, j, t)
  /\ \/ status[j] = s /\ UNCHANGED <<status, live>>
     \/ /\ \/ status[j] = "claimed"
           \/ status[j] = "printing" /\ s \in {"completed", "failed"}
        /\ status' = [status EXCEPT ![j] = s]
        /\ live'   = [live EXCEPT ![j] = (s = "printing") \/ live[j]]
  /\ UNCHANGED <<payload, source, attempts, holder, created, lock, deviceVars, active>>

(* What the server does with a request; a claim is committed by CommitClaim. *)
Serve(r) ==
  \/ r.op = "heartbeat" /\ ServeHeartbeat(r.agent, r.seen)
  \/ r.op = "claim" /\ BeginClaim(r.agent)
  \/ r.op = "report" /\ ServeReport(r.agent, r.job, r.token, r.status)

(* Time: a lease runs out, a printer was not heard of for 90 seconds. *)
LeaseExpires(j) ==
  /\ live[j]
  /\ live' = [live EXCEPT ![j] = FALSE]
  /\ UNCHANGED <<status, payload, source, attempts, holder, created, lock, deviceVars,
                 active, agentVars, late>>

PrinterFallsSilent(p) ==
  /\ printer[p].recent
  /\ printer' = [printer EXCEPT ![p].recent = FALSE]
  /\ UNCHANGED <<jobVars, lock, revoked, active, agentVars, late>>

----------------------------------------------------------------------------
(* Runner.Tick, one agent process per agent. *)

Goto(a, l) == pc' = [pc EXCEPT ![a] = l]

Continue(a, l) == Goto(a, l) /\ UNCHANGED <<cur, token>>

(* What Tick knew of a job is gone with it. *)
TickEnds(a) ==
  /\ Goto(a, "idle")
  /\ cur' = [cur EXCEPT ![a] = None]
  /\ token' = [token EXCEPT ![a] = 0]

(* The request that the Tick makes next, if it makes one. *)
Pending(a) ==
  CASE pc[a] = "idle"      -> [op : {"heartbeat"}, agent : {a},
                               seen : SUBSET {p \in Printers : AgentOf[p] = a}]
    [] pc[a] = "beaten"    -> [op : {"claim"}, agent : {a}]
    [] pc[a] = "fetched"   -> [op : {"report"}, agent : {a}, job : {cur[a]},
                               token : {token[a]}, status : {"printing"}]
    [] pc[a] = "finishing" -> [op : {"report"}, agent : {a}, job : {cur[a]},
                               token : {token[a]}, status : {"completed"}]
    [] pc[a] = "failing"   -> [op : {"report"}, agent : {a}, job : {cur[a]},
                               token : {token[a]}, status : {"failed"}]
    [] OTHER               -> {}

Heartbeat(a) ==
  /\ pc[a] = "idle"
  /\ a \notin revoked
  /\ \E r \in Pending(a) : ServeHeartbeat(a, r.seen)
  /\ Continue(a, "beaten")
  /\ UNCHANGED <<journal, printed, late>>

(* While it waits, cur[a] is the job that its claim has selected. *)
Claim(a) ==
  /\ pc[a] = "beaten"
  /\ a \notin revoked
  /\ \/ FindNothing(a) /\ TickEnds(a)
     \/ \E j \in Jobs : /\ SelectJob(a, j)
                        /\ Goto(a, "claiming")
                        /\ cur' = [cur EXCEPT ![a] = j]
                        /\ UNCHANGED token
  /\ UNCHANGED <<journal, printed, late>>

(* The lease carries a fresh random token; attempt_count tells tokens apart. *)
CommitClaim(j) ==
  /\ lock[j] = j
  /\ status'   = [GivenUp({k \in Jobs : lock[k] = j}) EXCEPT ![j] = "claimed"]
  /\ holder'   = [holder EXCEPT ![j] = Claimer(j)]
  /\ live'     = [live EXCEPT ![j] = TRUE]
  /\ attempts' = [attempts EXCEPT ![j] = @ + 1]
  /\ lock'     = Unlocked(j)
  /\ IF Awaited(j) THEN /\ Goto(Claimer(j), "claimed")
                        /\ token' = [token EXCEPT ![Claimer(j)] = attempts'[j]]
                        /\ UNCHANGED cur
     ELSE UNCHANGED <<pc, cur, token>>
  /\ UNCHANGED <<payload, source, created, deviceVars, active, journal, printed, late>>

(* A statement or the COMMIT fails, or the connection is lost. *)
RollbackClaim(j) ==
  /\ lock[j] = j
  /\ lock' = Unlocked(j)
  /\ IF Awaited(j) THEN TickEnds(Claimer(j)) ELSE UNCHANGED <<pc, cur, token>>
  /\ UNCHANGED <<jobVars, deviceVars, active, journal, printed, late>>

(* A job the journal knows is only reported again.  Otherwise the document   *)
(* is downloaded under the lease; a download can also fail by itself.        *)
Fetch(a) ==
  /\ pc[a] = "claimed"
  /\ IF journal[a].mem[cur[a]] \in Crossed THEN Continue(a, "finishing")
     ELSE \/ Continue(a, "failing")
          \/ /\ a \notin revoked
             /\ HoldsLease(a, cur[a], token[a])
             /\ status[cur[a]] \in Leased
             /\ Continue(a, "fetched")
  /\ UNCHANGED <<serverVars, journal, printed, late>>

ReportPrinting(a) ==
  /\ pc[a] = "fetched"
  /\ a \notin revoked
  /\ ServeReport(a, cur[a], token[a], "printing")
  /\ Continue(a, "announced")
  /\ UNCHANGED <<journal, printed, late>>

FailedAppends(a, s) == {jr \in RecordFailures(journal[a], cur[a], s) :
                          a \in Tearing \/ jr.torn = journal[a].torn}

(* Journal.Record with state s; an error ends the Tick. *)
Record(a, s, next) ==
  /\ \/ /\ journal' = [journal EXCEPT ![a] = Recorded(@, cur[a], s)]
        /\ Continue(a, next)
     \/ /\ \E jr \in FailedAppends(a, s) :
             journal' = [journal EXCEPT ![a] = jr]
        /\ TickEnds(a)
  /\ UNCHANGED <<serverVars, printed, late>>

RecordSubmitted(a) == pc[a] = "announced" /\ Record(a, "submitted", "recorded")

Submit(a) ==
  /\ pc[a] = "recorded"
  /\ printed' = [printed EXCEPT ![cur[a]] = @ + 1]
  /\ Continue(a, "submitted")
  /\ UNCHANGED <<serverVars, journal, late>>

(* lp failed, perhaps after it had queued the file.  The outcome is recorded *)
(* and the error of that record is ignored.                                 *)
SubmitFails(a) ==
  /\ pc[a] = "recorded"
  /\ \/ UNCHANGED printed
     \/ printed' = [printed EXCEPT ![cur[a]] = @ + 1]
  /\ \E jr \in {Recorded(journal[a], cur[a], "failed")}
               \cup FailedAppends(a, "failed") :
       journal' = [journal EXCEPT ![a] = jr]
  /\ Continue(a, "failing")
  /\ UNCHANGED <<serverVars, late>>

RecordCompleted(a) == pc[a] = "submitted" /\ Record(a, "completed", "finishing")

(* The last call of a Tick: whatever the answer, the Tick is over. *)
FinalReport(a) ==
  /\ pc[a] \in {"finishing", "failing"}
  /\ a \notin revoked
  /\ \E r \in Pending(a) : Serve(r)
  /\ TickEnds(a)
  /\ UNCHANGED <<journal, printed, late>>

(* The server executes a call whose answer is lost. *)
CallUnanswered(a) ==
  /\ pc[a] \in {"idle", "beaten", "fetched"}
  /\ a \notin revoked
  /\ \E r \in Pending(a) : Serve(r)
  /\ TickEnds(a)
  /\ UNCHANGED <<journal, printed, late>>

(* The Tick ends on an error before the server sees the request: refused by  *)
(* AuthenticateAgent or a handler, lost, or no temporary file; or the client  *)
(* gives up on a claim that the server may still commit.                    *)
CallFails(a) ==
  /\ pc[a] \in {"beaten", "claiming", "fetched", "finishing", "failing"}
  /\ TickEnds(a)
  /\ UNCHANGED <<serverVars, journal, printed, late>>

(* The client times out on a request that the server executes later. *)
CallDelayed(a) ==
  /\ a \notin revoked
  /\ Cardinality(late) < MaxLate
  /\ \E r \in Pending(a) : late' = late \cup {r}
  /\ TickEnds(a)
  /\ UNCHANGED <<serverVars, journal, printed>>

(* It may have been authenticated before a revocation that its transaction   *)
(* comes after.                                                             *)
ServeLate(r) ==
  /\ late' = late \ {r}
  /\ Serve(r)
  /\ UNCHANGED agentVars

DropLate(r) ==
  /\ late' = late \ {r}
  /\ UNCHANGED <<serverVars, agentVars>>

Restart(a) ==
  /\ TickEnds(a)
  /\ journal' = [journal EXCEPT ![a] = Opened(@)]
  /\ UNCHANGED <<serverVars, printed, late>>

----------------------------------------------------------------------------
Operator ==
  \/ \E j \in Jobs, p \in Printers, d \in Documents : Queue(j, p, d)
  \/ \E j, s \in Jobs : Retry(j, s)
  \/ \E j \in Jobs : Cancel(j)
  \/ \E a \in Agents : RevokeAgent(a)
  \/ \E p \in Printers, on \in BOOLEAN : UpdatePrinter(p, on)
  \/ \E d \in Documents, on \in BOOLEAN : UpdateAsset(d, on)

Clock == \/ \E j \in Jobs : LeaseExpires(j)
         \/ \E p \in Printers : PrinterFallsSilent(p)

Server == \E j \in Jobs : CommitClaim(j) \/ RollbackClaim(j)

Tick(a) == \/ Heartbeat(a) \/ Claim(a) \/ Fetch(a) \/ ReportPrinting(a)
           \/ RecordSubmitted(a) \/ Submit(a) \/ SubmitFails(a) \/ RecordCompleted(a)
           \/ FinalReport(a)

Faults == \/ \E a \in Agents : \/ CallUnanswered(a) \/ CallFails(a)
                               \/ CallDelayed(a) \/ Restart(a)
          \/ \E r \in late : ServeLate(r) \/ DropLate(r)

Next == Operator \/ Clock \/ Server \/ Faults \/ \E a \in Agents : Tick(a)

Spec == Init /\ [][Next]_vars

(* The scheduling that the code justifies.  Runner.Run polls for ever, so     *)
(* a Tick goes on, or ends, if its next step stays possible; it is retried    *)
(* after every error, so a heartbeat that lists all printers and a claim are        *)
(* eventually answered if the network lets them through again and again.  A   *)
(* claim that selects a job again and again is committed in the end.        *)
(* Nothing is assumed of the operator, of crashes or of lost calls.           *)
FullHeartbeat(a) == Heartbeat(a) /\ \A p \in Printers : AgentOf[p] = a => printer'[p].online

Fairness ==
  /\ \A j \in Jobs : WF_vars(LeaseExpires(j)) /\ SF_vars(CommitClaim(j))
  /\ \A a \in Agents :
       /\ WF_vars(Tick(a) \/ CallFails(a))
       /\ SF_vars(FullHeartbeat(a))
       /\ SF_vars(Claim(a))
       /\ SF_vars(Claim(a) /\ Claimable(a) # {})

FairSpec == Spec /\ Fairness

----------------------------------------------------------------------------
TypeOK ==
  /\ status \in [Jobs -> Status]
  /\ payload \in [Jobs -> Payload \cup {None}]
  /\ source \in [Jobs -> Jobs \cup {None}]
  /\ attempts \in [Jobs -> Nat]
  /\ holder \in [Jobs -> Agents \cup {None}]
  /\ live \in [Jobs -> BOOLEAN]
  /\ created \in Seq(Jobs)
  /\ lock \in [Jobs -> Jobs \cup {None}]
  /\ revoked \subseteq Agents
  /\ printer \in [Printers -> PrinterRow]
  /\ active \subseteq Documents
  /\ pc \in [Agents -> Control]
  /\ cur \in [Agents -> Jobs \cup {None}]
  /\ token \in [Agents -> Nat]
  /\ journal \in [Agents -> Journal]
  /\ late \subseteq Requests
  /\ printed \in [Jobs -> Nat]

(* PRINT-003: whatever crashes, is lost or arrives late, no job is handed to *)
(* the operating system twice.                                              *)
AtMostOnce == \A j \in Jobs : printed[j] <= 1

(* A cancelled job never comes out of a printer, and neither does one that   *)
(* no agent was granted: a cancellation that is acknowledged holds against    *)
(* every claim in flight.                                                   *)
OnlyGrantedIsSent ==
  \A j \in Jobs : status[j] \in {"none", "queued", "cancelled"} => printed[j] = 0

(* completed is believed: the pages were handed to the operating system. *)
CompletedWasSent == \A j \in Jobs : status[j] = "completed" => printed[j] = 1

(* An explicit retry copies a job that failed, and no late or repeated report *)
(* makes that failure a success afterwards.                                 *)
RetrySourceStaysFailed ==
  \A j \in Jobs : source[j] # None => status[source[j]] = "failed"

(* What the platform says of a job is so. *)
StatusIsTrue == OnlyGrantedIsSent /\ CompletedWasSent /\ RetrySourceStaysFailed

(* A claim is never for a job that this agent's journal has seen, so the      *)
(* "report replay" that Tick keeps for that case is never taken.             *)
ClaimIsNew ==
  \A a \in Agents : pc[a] = "claimed" => journal[a].mem[cur[a]] = "none"

(* No claim that looks for work after RevokeAgent has committed finds a job,  *)
(* even if it had passed authentication before.  A claim that had selected    *)
(* its job by then may still commit.                                        *)
RevokedIsSelectedNothing ==
  [][\A j \in Jobs : lock[j] # j /\ lock'[j] = j => Claimer(j) \notin revoked]_vars

(* The queue, the agents and their journals implement PrintDelivery. *)
Outcome(s) == CASE s = "none" -> "none"
                [] s = "queued" -> "waiting"
                [] s \in Leased -> "taken"
                [] OTHER -> s

Delivery == INSTANCE PrintDelivery WITH outcome <- [j \in Jobs |-> Outcome(status[j])],
                                        sent <- printed
ImplementsDelivery == Delivery!Spec

(* The agent of a job that is queued on an enabled printer claims it in the   *)
(* end: nothing overtakes it for ever.                                      *)
QueuedIsTaken ==
  \A j \in Jobs :
    status[j] = "queued" /\ [](status[j] = "queued" => printer[payload[j].printer].enabled)
      ~> status[j] # "queued"

(* A granted job ends in an outcome the operator can act on. *)
GrantedIsResolved ==
  \A j \in Jobs : status[j] \in Leased ~> status[j] \notin Leased

(* journal.go:51: "a successful return means the submission boundary survives *)
(* a process or machine restart".                                           *)
RecordedSurvivesRestart ==
  \A a \in Agents, j \in Jobs :
    journal[a].mem[j] \in Crossed => Opened(journal[a]).mem[j] # "none"
=============================================================================
