-------------------------- MODULE PrintQueueProofs --------------------------
(***************************************************************************)
(* Proofs about PrintQueue for any number of agents, printers, documents   *)
(* and jobs, any number of delayed requests, and any set of agents that    *)
(* may be revoked.                                                         *)
(*                                                                         *)
(* The inductive invariant says that a job is granted once: attempts[j] is  *)
(* 0 until an agent is granted the job and 1 from then on, and from then on  *)
(* only its holder works on it.  A claim between its select and its commit   *)
(* keeps what it read true by the rows it has locked (LockInv).             *)
(***************************************************************************)
EXTENDS PrintQueue, TLAPS

ServerType ==
  /\ status \in [Jobs -> Status]
  /\ payload \in [Jobs -> Payload \cup {None}]
  /\ source \in [Jobs -> Jobs \cup {None}]
  /\ attempts \in [Jobs -> Nat]
  /\ holder \in [Jobs -> Agents \cup {None}]
  /\ live \in [Jobs -> BOOLEAN]
  /\ created \in Seq(Jobs)
  /\ lock \in [Jobs -> Jobs \cup {None}]
  /\ revoked \subseteq Agents
  /\ printer \in [Printers -> PrinterRow]
  /\ active \subseteq Documents

AgentType ==
  /\ pc \in [Agents -> Control]
  /\ cur \in [Agents -> Jobs \cup {None}]
  /\ token \in [Agents -> Nat]
  /\ journal \in [Agents -> Journal]
  /\ printed \in [Jobs -> Nat]

Ungranted == {"none", "queued", "cancelled"}

JobInv ==
  \A j \in Jobs :
    /\ status[j] # "none" => payload[j] \in Payload
    /\ status[j] \in Ungranted => attempts[j] = 0
    /\ status[j] \notin Ungranted => attempts[j] = 1 /\ holder[j] \in Agents
    /\ source[j] # None => source[j] \in Jobs /\ status[source[j]] = "failed"

(* A claim that is open has locked the queued job it selected, and besides it *)
(* expired leases only.                                                    *)
LockInv ==
  \A k \in Jobs :
    lock[k] # None => /\ lock[lock[k]] = lock[k]
                      /\ status[lock[k]] = "queued"
                      /\ k # lock[k] => status[k] \in Leased /\ ~live[k]

RevokedOffline == \A p \in Printers : AgentOf[p] \in revoked => ~printer[p].online

SentInv ==
  \A j \in Jobs : /\ printed[j] <= 1
                  /\ attempts[j] = 0 => printed[j] = 0
                  /\ status[j] = "completed" => printed[j] = 1

(* What the agent knows of a job it works on. *)
Working(a) == pc[a] \notin {"idle", "beaten", "claiming"}

TickInv(a) ==
  /\ Working(a) => /\ cur[a] \in Jobs
                   /\ attempts[cur[a]] = 1
                   /\ holder[cur[a]] = a
  /\ pc[a] = "claimed" => journal[a].mem[cur[a]] = "none"
  /\ pc[a] \in {"claimed", "fetched", "announced", "recorded"} => printed[cur[a]] = 0
  /\ pc[a] \in {"submitted", "finishing"} => printed[cur[a]] = 1

JournalInv ==
  \A a \in Agents, j \in Jobs :
    attempts[j] = 0 => journal[a].mem[j] = "none" /\ journal[a].disk[j] = "none"

TruthfulReport(r) ==
  r.op = "report" => /\ attempts[r.job] = 1
                     /\ r.status = "completed" => printed[r.job] = 1

LateInv == late \subseteq Requests /\ \A r \in late : TruthfulReport(r)

IInv ==
  /\ ServerType /\ AgentType
  /\ JobInv /\ LockInv /\ RevokedOffline /\ SentInv
  /\ \A a \in Agents : TickInv(a)
  /\ JournalInv /\ LateInv

----------------------------------------------------------------------------
(* The journal's operations keep its type, and touch the entry of one job.  *)
JournalOutcomes(jr, j, s) == {Recorded(jr, j, s)} \cup RecordFailures(jr, j, s)

LEMMA JournalStep ==
  ASSUME NEW jr \in Journal, NEW j \in Jobs, NEW s \in JournalState,
         NEW new \in JournalOutcomes(jr, j, s)
  PROVE  /\ new \in Journal
         /\ \A k \in Jobs \ {j} : new.mem[k] = jr.mem[k] /\ new.disk[k] = jr.disk[k]
<1>1. Appended(jr, j, s) \in Journal
  BY DEF Appended, Journal
<1>2. \A k \in Jobs \ {j} : /\ Appended(jr, j, s).mem[k] = jr.mem[k]
                            /\ Appended(jr, j, s).disk[k] = jr.disk[k]
  BY DEF Appended, Journal
<1>3. CASE new = Recorded(jr, j, s)
  BY <1>1, <1>2, <1>3 DEF Recorded, Journal
<1>4. CASE new \in RecordFailures(jr, j, s)
  BY <1>1, <1>2, <1>4 DEF RecordFailures, Journal
<1> QED
  BY <1>3, <1>4 DEF JournalOutcomes

LEMMA JournalOpen ==
  ASSUME NEW jr \in Journal
  PROVE  Opened(jr) \in Journal /\ Opened(jr).mem = jr.disk /\ Opened(jr).disk = jr.disk
  BY DEF Opened, Journal

LEMMA InitIInv == Init => IInv
<1> SUFFICES ASSUME Init PROVE IInv
  OBVIOUS
<1> USE DEF Init
<1>1. ServerType
  BY DEF ServerType, Status, PrinterRow
<1>2. EmptyJournal \in Journal
  BY DEF EmptyJournal, Journal, JournalState
<1>3. AgentType
  BY <1>2 DEF AgentType, Control
<1>4. JobInv /\ LockInv /\ RevokedOffline /\ SentInv
  BY DEF JobInv, LockInv, RevokedOffline, SentInv, Ungranted
<1>5. \A a \in Agents : TickInv(a)
  BY DEF TickInv, Working
<1>6. JournalInv
  BY DEF JournalInv, EmptyJournal
<1> QED
  BY <1>1, <1>3, <1>4, <1>5, <1>6 DEF IInv, LateInv

----------------------------------------------------------------------------
(* What a server step does to the queue, whoever asked for it: the server's  *)
(* part of the invariant survives, and a grant is never taken back.          *)
GrantsKept == \A j \in Jobs : attempts[j] = 1 => /\ attempts'[j] = 1
                                                 /\ holder'[j] = holder[j]

ServerInv == ServerType /\ JobInv /\ LockInv /\ RevokedOffline /\ SentInv

LEMMA HeartbeatServed ==
  ASSUME ServerInv, NEW a \in Agents, NEW seen, ServeHeartbeat(a, seen), UNCHANGED printed
  PROVE  ServerInv' /\ GrantsKept
<1> USE DEF ServerInv, ServeHeartbeat, jobVars
<1>1. ServerType'
  <2>1. printer' \in [Printers -> PrinterRow]
    BY DEF ServerType, PrinterRow
  <2> QED
    BY <2>1 DEF ServerType
<1>2. JobInv' /\ LockInv' /\ SentInv' /\ GrantsKept
  BY DEF JobInv, LockInv, SentInv, GrantsKept
<1>3. RevokedOffline'
  BY DEF RevokedOffline, ServerType, PrinterRow
<1> QED
  BY <1>1, <1>2, <1>3

(* Giving up expired leases that no other open claim has locked.             *)
LEMMA LeasesGivenUp ==
  ASSUME ServerInv, NEW F \in SUBSET Jobs, \A k \in F : status[k] \in Leased /\ lock[k] = None,
         status' = GivenUp(F), UNCHANGED <<payload, source, attempts, holder, live, created,
                                           lock, deviceVars, active, printed>>
  PROVE  ServerInv' /\ GrantsKept
<1> USE DEF ServerInv
<1>1. ServerType'
  BY DEF ServerType, GivenUp, Status, deviceVars
<1>2. JobInv'
  <2> SUFFICES ASSUME NEW k \in Jobs PROVE JobInv!(k)'
    BY DEF JobInv
  <2>1. /\ status'[k] \in Ungranted <=> status[k] \in Ungranted
        /\ status'[k] # "none" => status[k] # "none"
    BY DEF GivenUp, Ungranted, Leased, ServerType
  <2>2. source[k] # None => status'[source[k]] = "failed"
    BY DEF JobInv, GivenUp
  <2> QED
    BY <2>1, <2>2 DEF JobInv
<1>3. LockInv'
  BY PrintQueueAssumption DEF LockInv, GivenUp, ServerType
<1>4. SentInv' /\ RevokedOffline' /\ GrantsKept
  BY DEF SentInv, RevokedOffline, GrantsKept, GivenUp, deviceVars
<1> QED
  BY <1>1, <1>2, <1>3, <1>4

(* Up to its commit a claim changes nothing but its locks.                   *)
LEMMA JobSelected ==
  ASSUME ServerInv, NEW a \in Agents, NEW j \in Jobs, SelectJob(a, j), UNCHANGED printed
  PROVE  ServerInv' /\ GrantsKept
<1> USE DEF ServerInv, SelectJob
<1>1. ServerType'
  BY DEF ServerType, jobVars, deviceVars
<1>2. JobInv' /\ SentInv' /\ RevokedOffline' /\ GrantsKept
  BY DEF JobInv, SentInv, RevokedOffline, GrantsKept, jobVars, deviceVars
<1>3. LockInv'
  <2>1. status[j] = "queued" /\ lock[j] = None /\ j \notin Expired(a)
    BY DEF Claimable, Expired, Leased
  <2>2. \A k \in Expired(a) : k \in Jobs /\ status[k] \in Leased /\ ~live[k] /\ lock[k] = None
    BY DEF Expired
  <2> SUFFICES ASSUME NEW k \in Jobs, lock'[k] # None
               PROVE  LockInv!(k)'
    BY DEF LockInv
  <2>3. CASE k \in Expired(a) \cup {j}
    BY <2>1, <2>2, <2>3 DEF jobVars
  <2>4. CASE k \notin Expired(a) \cup {j}
    <3>1. lock'[k] = lock[k] /\ lock[k] \in Jobs
      BY <2>4 DEF ServerType
    <3>2. lock[lock[k]] = lock[k] /\ lock[lock[k]] # None
      BY <3>1 DEF LockInv
    <3>3. lock[k] \notin Expired(a) \cup {j}
      BY <2>1, <2>2, <3>2
    <3> QED
      BY <3>1, <3>2, <3>3 DEF LockInv, jobVars
  <2> QED
    BY <2>3, <2>4
<1> QED
  BY <1>1, <1>2, <1>3

LEMMA ClaimBegun ==
  ASSUME ServerInv, NEW a \in Agents, BeginClaim(a), UNCHANGED printed
  PROVE  ServerInv' /\ GrantsKept
<1>1. CASE FindNothing(a)
  <2>1. \A k \in Expired(a) : k \in Jobs /\ status[k] \in Leased /\ lock[k] = None
    BY <1>1 DEF FindNothing, Expired
  <2> QED
    BY <1>1, <2>1, LeasesGivenUp DEF FindNothing
<1> QED
  BY <1>1, JobSelected DEF BeginClaim

(* The locks of one claim are gone, those of the others are untouched.       *)
LEMMA LocksReleased ==
  ASSUME ServerType, LockInv, NEW j \in Jobs, lock' = Unlocked(j),
         \A k \in Jobs : lock[k] # j => status'[k] = status[k] /\ live'[k] = live[k]
  PROVE  LockInv' /\ lock' \in [Jobs -> Jobs \cup {None}]
<1>1. lock' \in [Jobs -> Jobs \cup {None}]
  BY DEF Unlocked, ServerType
<1>2. ASSUME NEW k \in Jobs, lock'[k] # None
      PROVE  LockInv!(k)'
  <2>1. lock'[k] = lock[k] /\ lock[k] # j /\ lock[k] \in Jobs
    BY <1>2 DEF Unlocked, ServerType
  <2>2. lock[lock[k]] = lock[k]
    BY <1>2, <2>1 DEF LockInv
  <2>3. lock'[lock[k]] = lock[k]
    BY <2>1, <2>2 DEF Unlocked
  <2> QED
    BY <1>2, <2>1, <2>2, <2>3 DEF LockInv
<1> QED
  BY <1>1, <1>2 DEF LockInv

LEMMA ClaimCommitted ==
  ASSUME ServerInv, NEW j \in Jobs, CommitClaim(j)
  PROVE  /\ ServerInv' /\ GrantsKept
         /\ attempts[j] = 0 /\ attempts'[j] = 1
         /\ Claimer(j) \in Agents /\ holder'[j] = Claimer(j)
<1> USE PrintQueueAssumption DEF ServerInv, CommitClaim
<1> DEFINE F == {k \in Jobs : lock[k] = j}
<1>1. status[j] = "queued" /\ attempts[j] = 0 /\ Claimer(j) \in Agents
  BY DEF LockInv, JobInv, Ungranted, Claimer, Payload
<1>2. \A k \in F : k # j => status[k] \in Leased
  BY DEF LockInv
<1>3. \A k \in Jobs : status'[k] = IF k = j THEN "claimed"
                                   ELSE IF k \in F THEN "failed" ELSE status[k]
  BY DEF GivenUp
<1>4. /\ \A k \in Jobs : attempts'[k] = IF k = j THEN 1 ELSE attempts[k]
      /\ \A k \in Jobs : holder'[k] = IF k = j THEN Claimer(j) ELSE holder[k]
      /\ \A k \in Jobs \ {j} : live'[k] = live[k]
  BY <1>1 DEF ServerType
<1>5. LockInv' /\ lock' \in [Jobs -> Jobs \cup {None}]
  <2>1. lock[j] = j
    OBVIOUS
  <2>2. \A k \in Jobs : lock[k] # j => status'[k] = status[k] /\ live'[k] = live[k]
    BY <2>1, <1>3, <1>4
  <2> QED
    BY <2>2, LocksReleased
<1>6. ServerType'
  <2>1. status' \in [Jobs -> Status]
    BY DEF ServerType, Status, GivenUp
  <2>2. /\ attempts' \in [Jobs -> Nat] /\ holder' \in [Jobs -> Agents \cup {None}]
        /\ live' \in [Jobs -> BOOLEAN]
    BY <1>1 DEF ServerType
  <2> QED
    BY <1>5, <2>1, <2>2 DEF ServerType, deviceVars
<1>7. GrantsKept
  BY <1>1, <1>4 DEF GrantsKept
<1>8. JobInv'
  <2> SUFFICES ASSUME NEW k \in Jobs PROVE JobInv!(k)'
    BY DEF JobInv
  <2>1. status'[k] \in Ungranted <=> status[k] \in Ungranted /\ k # j
    BY <1>1, <1>2, <1>3 DEF Ungranted, Leased
  <2>2. source[k] # None => status'[source[k]] = "failed"
    BY <1>1, <1>3 DEF JobInv
  <2>3. status'[k] # "none" => status[k] # "none"
    BY <1>1, <1>2, <1>3 DEF Leased
  <2> QED
    BY <1>1, <1>4, <2>1, <2>2, <2>3 DEF JobInv
<1>9. SentInv' /\ RevokedOffline'
  BY <1>1, <1>3, <1>4 DEF SentInv, RevokedOffline, deviceVars
<1> QED
  BY <1>1, <1>4, <1>5, <1>6, <1>7, <1>8, <1>9

LEMMA ReportServed ==
  ASSUME ServerInv, NEW a \in Agents, NEW j \in Jobs, NEW t \in Nat,
         NEW s \in {"printing", "completed", "failed"},
         ServeReport(a, j, t, s), UNCHANGED printed,
         s = "completed" => printed[j] = 1
  PROVE  ServerInv' /\ GrantsKept
<1> USE DEF ServerInv, ServeReport
<1>1. ServerType'
  BY DEF ServerType, Status, deviceVars
<1>2. GrantsKept
  BY DEF GrantsKept
<1>3. JobInv'
  BY DEF JobInv, Ungranted, ServerType
<1>4. SentInv' /\ RevokedOffline'
  BY DEF SentInv, RevokedOffline, deviceVars, ServerType
<1>5. LockInv'
  <2>1. status[j] # "queued" /\ live[j]
    BY DEF HoldsLease
  <2>2. \A k \in Jobs \ {j} : status'[k] = status[k] /\ live'[k] = live[k]
    BY DEF ServerType
  <2>3. lock[j] = None /\ \A k \in Jobs : lock[k] # j
    BY <2>1, PrintQueueAssumption DEF LockInv
  <2> QED
    BY <2>2, <2>3 DEF LockInv, ServerType
<1> QED
  BY <1>1, <1>2, <1>3, <1>4, <1>5

LEMMA RequestServed ==
  ASSUME ServerInv, NEW r \in Requests, TruthfulReport(r), Serve(r), UNCHANGED printed
  PROVE  ServerInv' /\ GrantsKept
<1>1. CASE r.op = "heartbeat" /\ ServeHeartbeat(r.agent, r.seen)
  <2>1. r.agent \in Agents
    BY DEF Requests, Heartbeats, Claims, Reports
  <2> QED
    BY <1>1, <2>1, HeartbeatServed
<1>2. CASE r.op = "claim" /\ BeginClaim(r.agent)
  <2>1. r.agent \in Agents
    BY DEF Requests, Heartbeats, Claims, Reports
  <2> QED
    BY <1>2, <2>1, ClaimBegun
<1>3. CASE r.op = "report" /\ ServeReport(r.agent, r.job, r.token, r.status)
  <2>1. r \in Reports
    BY <1>3 DEF Requests, Heartbeats, Claims, Reports
  <2> QED
    BY <1>3, <2>1, ReportServed DEF Reports, TruthfulReport
<1> QED
  BY <1>1, <1>2, <1>3 DEF Serve

----------------------------------------------------------------------------
(* The agents' side: a step of agent a leaves every other agent's knowledge  *)
(* true, because grants are kept and only a granted job is printed.          *)

LEMMA PendingIsTruthful ==
  ASSUME IInv, NEW a \in Agents, NEW r \in Pending(a)
  PROVE  r \in Requests /\ TruthfulReport(r)
<1> USE DEF Requests, Heartbeats, Claims, Reports, TruthfulReport
<1>1. CASE pc[a] = "idle"
  BY <1>1 DEF Pending
<1>2. CASE pc[a] = "beaten"
  BY <1>2 DEF Pending
<1>3. pc[a] \in {"fetched", "finishing", "failing"}
      => cur[a] \in Jobs /\ attempts[cur[a]] = 1 /\ token[a] \in Nat
  BY DEF IInv, TickInv, Working, AgentType
<1>4. CASE pc[a] = "fetched"
  BY <1>3, <1>4 DEF Pending
<1>5. CASE pc[a] = "finishing"
  <2>1. printed[cur[a]] = 1
    BY <1>5 DEF IInv, TickInv
  <2> QED
    BY <1>3, <1>5, <2>1 DEF Pending
<1>6. CASE pc[a] = "failing"
  BY <1>3, <1>6 DEF Pending
<1>7. CASE pc[a] \notin {"idle", "beaten", "fetched", "finishing", "failing"}
  BY <1>7 DEF Pending
<1> QED
  BY <1>1, <1>2, <1>4, <1>5, <1>6, <1>7

(* A step that changes neither the paper nor a journal: what is left to show *)
(* is the server's part, the agents that moved and the requests that are new. *)
LEMMA QuietStep ==
  ASSUME IInv, ServerInv', GrantsKept, AgentType', UNCHANGED <<journal, printed>>,
         \A b \in Agents : TickInv(b)' \/ (pc'[b] = pc[b] /\ cur'[b] = cur[b]),
         \A r \in late' : r \in late \/ (r \in Requests /\ TruthfulReport(r))
  PROVE  IInv'
<1> USE DEF IInv
<1>1. \A b \in Agents : TickInv(b)'
  <2> SUFFICES ASSUME NEW b \in Agents, pc'[b] = pc[b], cur'[b] = cur[b]
               PROVE  TickInv(b)'
    OBVIOUS
  <2>1. TickInv(b)
    OBVIOUS
  <2>2. Working(b)' <=> Working(b)
    BY DEF Working
  <2> QED
    BY <2>1, <2>2 DEF TickInv, GrantsKept
<1>2. \A j \in Jobs : attempts'[j] = 0 => attempts[j] = 0
  BY DEF GrantsKept, ServerInv, ServerType, JobInv
<1>3. JournalInv'
  BY <1>2 DEF JournalInv
<1>4. LateInv'
  <2> SUFFICES ASSUME NEW r \in late' PROVE r \in Requests /\ TruthfulReport(r)'
    BY DEF LateInv
  <2>1. r \in Requests /\ TruthfulReport(r)
    BY DEF LateInv
  <2>2. r.op = "report" => r.job \in Jobs
    BY <2>1 DEF Requests, Heartbeats, Claims, Reports
  <2> QED
    BY <2>1, <2>2 DEF TruthfulReport, GrantsKept
<1> QED
  BY <1>1, <1>3, <1>4 DEF ServerInv

LEMMA ServerStep ==
  ASSUME IInv, ServerInv', GrantsKept, UNCHANGED <<agentVars, late>>
  PROVE  IInv'
<1>1. AgentType'
  BY DEF IInv, AgentType, agentVars
<1> QED
  BY <1>1, QuietStep DEF agentVars

LEMMA ServerUnchanged ==
  ASSUME IInv, UNCHANGED serverVars,
         \/ UNCHANGED printed
         \/ SentInv'
  PROVE  ServerInv' /\ GrantsKept
  BY DEF IInv, ServerInv, serverVars, jobVars, deviceVars, ServerType, JobInv,
         LockInv, RevokedOffline, SentInv, GrantsKept

(* A step of agent a alone: it may write to its journal about the job it      *)
(* works on, and print that job.                                            *)
LEMMA LocalStep ==
  ASSUME IInv, UNCHANGED <<serverVars, late>>, NEW a \in Agents, Working(a),
         NEW s \in JournalState, NEW new,
         new \in JournalOutcomes(journal[a], cur[a], s) \cup {journal[a]},
         journal' = [journal EXCEPT ![a] = new],
         NEW n \in {printed[cur[a]], 1},
         printed' = [printed EXCEPT ![cur[a]] = n],
         NEW l \in Control \ {"claimed"}, Continue(a, l) \/ (l = "idle" /\ TickEnds(a)),
         l \in {"fetched", "announced", "recorded"} => n = 0,
         l \in {"submitted", "finishing"} => n = 1
  PROVE  IInv'
<1> USE DEF IInv, Continue, TickEnds, Goto
<1>1. /\ cur[a] \in Jobs /\ attempts[cur[a]] = 1 /\ holder[cur[a]] = a
      /\ journal[a] \in Journal /\ printed[cur[a]] <= 1
  BY DEF TickInv, AgentType, SentInv
<1>2. /\ new \in Journal
      /\ \A k \in Jobs \ {cur[a]} : /\ new.mem[k] = journal[a].mem[k]
                                    /\ new.disk[k] = journal[a].disk[k]
  BY <1>1, JournalStep
<1>3. AgentType'
  BY <1>1, <1>2 DEF AgentType
<1>4. SentInv'
  BY <1>1 DEF SentInv, AgentType, ServerType, serverVars, jobVars
<1>5. ServerInv' /\ GrantsKept
  BY <1>4, ServerUnchanged
<1>6. TickInv(a)'
  BY <1>1 DEF TickInv, Working, AgentType, serverVars, jobVars
<1>7. ASSUME NEW b \in Agents \ {a} PROVE TickInv(b)'
  <2>1. pc'[b] = pc[b] /\ cur'[b] = cur[b] /\ journal'[b] = journal[b]
    BY DEF AgentType
  <2>2. Working(b) => cur[b] # cur[a] /\ printed'[cur[b]] = printed[cur[b]]
    BY <1>1 DEF TickInv, AgentType
  <2> QED
    BY <2>1, <2>2 DEF TickInv, Working, serverVars, jobVars
<1>8. JournalInv'
  BY <1>1, <1>2 DEF JournalInv, AgentType, serverVars, jobVars
<1>9. LateInv'
  <2> SUFFICES ASSUME NEW r \in late PROVE TruthfulReport(r)'
    BY DEF LateInv
  <2>1. r \in Requests /\ TruthfulReport(r)
    BY DEF LateInv
  <2>2. r.op = "report" => r.job \in Jobs
    BY <2>1 DEF Requests, Heartbeats, Claims, Reports
  <2> QED
    BY <1>1, <2>1, <2>2 DEF TruthfulReport, AgentType, serverVars, jobVars
<1> QED
  BY <1>3, <1>5, <1>6, <1>7, <1>8, <1>9 DEF ServerInv

----------------------------------------------------------------------------
(* One lemma per action, or per group of actions with the same argument.     *)

(* A new row: its key named no row before, so nothing refers to it, and its   *)
(* source, if it has one, is a failed job.                                  *)
LEMMA CreateJobPreserves ==
  ASSUME IInv, NEW j \in Jobs, NEW p \in Printers, NEW d \in Documents,
         NEW s \in Jobs \cup {None}, s # None => status[s] = "failed",
         CreateJob(j, p, d, s)
  PROVE  IInv'
<1> USE DEF IInv, CreateJob
<1>1. ServerType'
  BY DEF ServerType, Status, Payload, deviceVars
<1>2. JobInv'
  <2> SUFFICES ASSUME NEW k \in Jobs PROVE JobInv!(k)'
    BY DEF JobInv
  <2>1. CASE k = j
    BY <2>1 DEF JobInv, Ungranted, ServerType, Payload
  <2>2. CASE k # j
    BY <2>2 DEF JobInv, Ungranted, ServerType
  <2> QED
    BY <2>1, <2>2
<1>3. SentInv' /\ RevokedOffline'
  BY DEF SentInv, RevokedOffline, ServerType, deviceVars, agentVars
<1>4. GrantsKept
  BY DEF GrantsKept
<1>5. LockInv'
  BY DEF LockInv, Leased, ServerType
<1> QED
  BY <1>1, <1>2, <1>3, <1>4, <1>5, ServerStep DEF ServerInv

LEMMA OperatorPreserves ==
  ASSUME IInv, Operator
  PROVE  IInv'
<1> USE DEF IInv
<1>1. ASSUME NEW j \in Jobs, NEW p \in Printers, NEW d \in Documents, Queue(j, p, d)
      PROVE  IInv'
  BY <1>1, CreateJobPreserves DEF Queue
<1>2. ASSUME NEW j \in Jobs, NEW s \in Jobs, Retry(j, s)
      PROVE  IInv'
  <2>1. payload[s] \in Payload
    BY <1>2 DEF Retry, JobInv
  <2>2. payload[s].printer \in Printers /\ payload[s].document \in Documents
    BY <2>1 DEF Payload
  <2> QED
    BY <1>2, <2>2, CreateJobPreserves DEF Retry
<1>3. ASSUME NEW j \in Jobs, Cancel(j)
      PROVE  IInv'
  <2> USE <1>3 DEF Cancel
  <2>1. ServerType'
    BY DEF ServerType, Status, deviceVars
  <2>2. JobInv' /\ SentInv' /\ RevokedOffline' /\ GrantsKept
    BY DEF JobInv, SentInv, RevokedOffline, GrantsKept, Ungranted, ServerType,
           deviceVars, agentVars
  <2>3. LockInv'
    BY DEF LockInv, ServerType
  <2> QED
    BY <2>1, <2>2, <2>3, ServerStep DEF ServerInv
<1>4. ASSUME NEW a \in Agents, RevokeAgent(a)
      PROVE  IInv'
  <2> USE <1>4 DEF RevokeAgent, jobVars
  <2>1. printer' \in [Printers -> PrinterRow]
    BY DEF ServerType, PrinterRow
  <2>2. revoked' \subseteq Agents
    BY DEF ServerType
  <2>3. ServerType'
    BY <2>1, <2>2 DEF ServerType
  <2>4. RevokedOffline'
    BY DEF RevokedOffline, ServerType, PrinterRow
  <2>5. JobInv' /\ LockInv' /\ SentInv' /\ GrantsKept
    BY DEF JobInv, LockInv, SentInv, GrantsKept, agentVars
  <2> QED
    BY <2>3, <2>4, <2>5, ServerStep DEF ServerInv
<1>5. ASSUME NEW p \in Printers, NEW on \in BOOLEAN, UpdatePrinter(p, on)
      PROVE  IInv'
  <2> USE <1>5 DEF UpdatePrinter, jobVars
  <2>1. printer' \in [Printers -> PrinterRow]
    BY DEF ServerType, PrinterRow
  <2>2. ServerType'
    BY <2>1 DEF ServerType
  <2>3. RevokedOffline'
    BY DEF RevokedOffline, ServerType, PrinterRow
  <2>4. JobInv' /\ LockInv' /\ SentInv' /\ GrantsKept
    BY DEF JobInv, LockInv, SentInv, GrantsKept, agentVars
  <2> QED
    BY <2>2, <2>3, <2>4, ServerStep DEF ServerInv
<1>6. ASSUME NEW d \in Documents, NEW on \in BOOLEAN, UpdateAsset(d, on)
      PROVE  IInv'
  <2> USE <1>6 DEF UpdateAsset, jobVars, deviceVars
  <2>1. ServerType'
    BY DEF ServerType
  <2>2. JobInv' /\ LockInv' /\ SentInv' /\ RevokedOffline' /\ GrantsKept
    BY DEF JobInv, LockInv, SentInv, RevokedOffline, GrantsKept, agentVars
  <2> QED
    BY <2>1, <2>2, ServerStep DEF ServerInv
<1> QED
  BY <1>1, <1>2, <1>3, <1>4, <1>5, <1>6 DEF Operator

LEMMA ClockPreserves ==
  ASSUME IInv, Clock
  PROVE  IInv'
<1> USE DEF IInv
<1>1. ASSUME NEW j \in Jobs, LeaseExpires(j)
      PROVE  IInv'
  <2> USE <1>1 DEF LeaseExpires, deviceVars
  <2>1. ServerType'
    BY DEF ServerType
  <2>2. JobInv' /\ LockInv' /\ SentInv' /\ RevokedOffline' /\ GrantsKept
    BY DEF JobInv, LockInv, SentInv, RevokedOffline, GrantsKept, agentVars
  <2> QED
    BY <2>1, <2>2, ServerStep DEF ServerInv
<1>2. ASSUME NEW p \in Printers, PrinterFallsSilent(p)
      PROVE  IInv'
  <2> USE <1>2 DEF PrinterFallsSilent, jobVars
  <2>1. printer' \in [Printers -> PrinterRow]
    BY DEF ServerType, PrinterRow
  <2>2. ServerType'
    BY <2>1 DEF ServerType
  <2>3. RevokedOffline'
    BY DEF RevokedOffline, ServerType, PrinterRow
  <2>4. JobInv' /\ LockInv' /\ SentInv' /\ GrantsKept
    BY DEF JobInv, LockInv, SentInv, GrantsKept, agentVars
  <2> QED
    BY <2>2, <2>3, <2>4, ServerStep DEF ServerInv
<1> QED
  BY <1>1, <1>2 DEF Clock

(* The steps of a Tick that neither write the journal nor print. *)
LEMMA HeartbeatPreserves ==
  ASSUME IInv, NEW a \in Agents, Heartbeat(a)
  PROVE  IInv'
<1> USE DEF IInv, Heartbeat, Continue, Goto
<1>1. ServerInv' /\ GrantsKept
  BY HeartbeatServed DEF ServerInv
<1>2. AgentType'
  BY DEF AgentType, Control
<1>3. \A b \in Agents : TickInv(b)' \/ (pc'[b] = pc[b] /\ cur'[b] = cur[b])
  BY DEF AgentType, TickInv, Working
<1> QED
  BY <1>1, <1>2, <1>3, QuietStep

(* A call after which the Tick is over, or that never reaches the server. *)
LEMMA TickIsOver ==
  ASSUME IInv, ServerInv', GrantsKept, NEW a \in Agents, TickEnds(a), UNCHANGED <<journal, printed>>,
         \A r \in late' : r \in late \/ (r \in Requests /\ TruthfulReport(r))
  PROVE  IInv'
<1> USE DEF IInv, TickEnds, Goto
<1>1. AgentType'
  BY DEF AgentType, Control
<1>2. \A b \in Agents : TickInv(b)' \/ (pc'[b] = pc[b] /\ cur'[b] = cur[b])
  BY DEF AgentType, TickInv, Working
<1> QED
  BY <1>1, <1>2, QuietStep

LEMMA ClaimPreserves ==
  ASSUME IInv, NEW a \in Agents, Claim(a)
  PROVE  IInv'
<1> USE DEF IInv
<1>1. UNCHANGED <<journal, printed, late>> /\ BeginClaim(a)
  BY DEF Claim, BeginClaim
<1>2. ServerInv' /\ GrantsKept
  BY <1>1, ClaimBegun DEF ServerInv
<1>3. CASE TickEnds(a)
  BY <1>1, <1>2, <1>3, TickIsOver
<1>4. ASSUME NEW j \in Jobs, Goto(a, "claiming"), cur' = [cur EXCEPT ![a] = j], UNCHANGED token
      PROVE  IInv'
  <2> USE <1>4 DEF Goto
  <2>1. AgentType'
    BY <1>1 DEF AgentType, Control
  <2>2. \A b \in Agents : TickInv(b)' \/ (pc'[b] = pc[b] /\ cur'[b] = cur[b])
    BY DEF AgentType, TickInv, Working
  <2> QED
    BY <1>1, <1>2, <2>1, <2>2, QuietStep
<1> QED
  BY <1>3, <1>4 DEF Claim

(* Whether or not the Tick still waits, nobody knows the job that a claim      *)
(* leases: no journal has an entry for it, and it was never printed.         *)
LEMMA CommitPreserves ==
  ASSUME IInv, NEW j \in Jobs, CommitClaim(j)
  PROVE  IInv'
<1> USE DEF IInv
<1>1. PICK a \in Agents : a = Claimer(j)
  BY ClaimCommitted DEF ServerInv
<1>2. /\ ServerInv' /\ GrantsKept
      /\ attempts[j] = 0 /\ attempts'[j] = 1 /\ holder'[j] = a
  BY <1>1, ClaimCommitted DEF ServerInv
<1>3. UNCHANGED <<journal, printed, late>>
  BY DEF CommitClaim
<1>4. CASE Awaited(j)
  <2>1. /\ pc' = [pc EXCEPT ![a] = "claimed"] /\ UNCHANGED cur
        /\ token' = [token EXCEPT ![a] = 1] /\ cur[a] = j
    BY <1>2, <1>4, <1>1 DEF CommitClaim, Goto, Awaited
  <2>2. journal[a].mem[j] = "none" /\ printed[j] = 0
    BY <1>2 DEF JournalInv, SentInv
  <2>3. AgentType'
    BY <1>2, <1>3, <2>1 DEF AgentType, Control
  <2>4. TickInv(a)'
    BY <1>2, <1>3, <2>1, <2>2 DEF AgentType, TickInv, Working
  <2>5. \A b \in Agents : TickInv(b)' \/ (pc'[b] = pc[b] /\ cur'[b] = cur[b])
    BY <2>1, <2>4 DEF AgentType
  <2> QED
    BY <1>2, <1>3, <2>3, <2>5, QuietStep
<1>5. CASE ~Awaited(j)
  <2>1. UNCHANGED <<pc, cur, token>>
    BY <1>5 DEF CommitClaim
  <2>2. AgentType'
    BY <1>3, <2>1 DEF AgentType
  <2> QED
    BY <1>2, <1>3, <2>1, <2>2, QuietStep
<1> QED
  BY <1>4, <1>5

LEMMA RollbackPreserves ==
  ASSUME IInv, NEW j \in Jobs, RollbackClaim(j)
  PROVE  IInv'
<1> USE DEF IInv, RollbackClaim
<1>1. LockInv' /\ lock' \in [Jobs -> Jobs \cup {None}]
  BY LocksReleased DEF jobVars
<1>2. ServerInv' /\ GrantsKept
  BY <1>1 DEF ServerInv, ServerType, JobInv, RevokedOffline, SentInv, GrantsKept, jobVars,
     deviceVars
<1>3. Claimer(j) \in Agents
  BY PrintQueueAssumption DEF LockInv, JobInv, Claimer, Payload
<1>4. CASE Awaited(j)
  BY <1>2, <1>3, <1>4, TickIsOver
<1>5. CASE ~Awaited(j)
  <2>1. UNCHANGED <<agentVars, late>>
    BY <1>5 DEF agentVars
  <2>2. AgentType'
    BY <2>1 DEF AgentType, agentVars
  <2> QED
    BY <1>2, <2>1, <2>2, QuietStep DEF agentVars
<1> QED
  BY <1>4, <1>5

(* The journal does not know a job that was just granted, so Fetch goes on to *)
(* download it or to give it up.                                            *)
LEMMA FetchPreserves ==
  ASSUME IInv, NEW a \in Agents, Fetch(a)
  PROVE  IInv'
<1> USE DEF IInv
<1>1. pc[a] = "claimed" /\ TickInv(a)
  BY DEF Fetch
<1>2. Goto(a, "failing") \/ Goto(a, "fetched")
  BY <1>1 DEF Fetch, Continue, TickInv, Crossed
<1>3. UNCHANGED <<serverVars, cur, token, journal, printed, late>>
  BY DEF Fetch, Continue
<1>4. ServerInv' /\ GrantsKept
  BY <1>3, ServerUnchanged
<1>5. AgentType'
  BY <1>2, <1>3 DEF AgentType, Control, Goto
<1>6. TickInv(a)'
  BY <1>1, <1>2, <1>3 DEF AgentType, TickInv, Working, Goto, serverVars, jobVars
<1>7. \A b \in Agents : TickInv(b)' \/ (pc'[b] = pc[b] /\ cur'[b] = cur[b])
  BY <1>2, <1>3, <1>6 DEF AgentType, Goto
<1> QED
  BY <1>3, <1>4, <1>5, <1>7, QuietStep

LEMMA ReportPrintingPreserves ==
  ASSUME IInv, NEW a \in Agents, ReportPrinting(a)
  PROVE  IInv'
<1> USE DEF IInv
<1>1. pc[a] = "fetched" /\ TickInv(a) /\ cur[a] \in Jobs /\ token[a] \in Nat
  BY DEF ReportPrinting, TickInv, Working, AgentType
<1>2. /\ ServeReport(a, cur[a], token[a], "printing")
      /\ Goto(a, "announced")
      /\ UNCHANGED <<cur, token, journal, printed, late>>
  BY DEF ReportPrinting, Continue
<1>3. ServerInv' /\ GrantsKept
  BY <1>1, <1>2, ReportServed DEF ServerInv
<1>4. AgentType'
  BY <1>2 DEF AgentType, Control, Goto
<1>5. TickInv(a)'
  BY <1>1, <1>2, <1>3 DEF AgentType, TickInv, Working, Goto, GrantsKept
<1>6. \A b \in Agents : TickInv(b)' \/ (pc'[b] = pc[b] /\ cur'[b] = cur[b])
  BY <1>2, <1>5 DEF AgentType, Goto
<1> QED
  BY <1>2, <1>3, <1>4, <1>6, QuietStep

LEMMA AnsweredCallPreserves ==
  ASSUME IInv, NEW a \in Agents, FinalReport(a) \/ CallUnanswered(a)
  PROVE  IInv'
<1>1. /\ \E r \in Pending(a) : Serve(r)
      /\ TickEnds(a)
      /\ UNCHANGED <<journal, printed, late>>
  BY DEF FinalReport, CallUnanswered
<1>2. ServerInv' /\ GrantsKept
  BY <1>1, PendingIsTruthful, RequestServed DEF IInv, ServerInv
<1> QED
  BY <1>1, <1>2, TickIsOver

LEMMA UnservedCallPreserves ==
  ASSUME IInv, NEW a \in Agents, CallFails(a) \/ CallDelayed(a)
  PROVE  IInv'
<1>1. /\ TickEnds(a)
      /\ UNCHANGED <<serverVars, journal, printed>>
      /\ late' = late \/ \E r \in Pending(a) : late' = late \cup {r}
  BY DEF CallFails, CallDelayed
<1>2. ServerInv' /\ GrantsKept
  BY <1>1, ServerUnchanged
<1>3. \A r \in late' : r \in late \/ (r \in Requests /\ TruthfulReport(r))
  BY <1>1, PendingIsTruthful
<1> QED
  BY <1>1, <1>2, <1>3, TickIsOver

LEMMA LatePreserves ==
  ASSUME IInv, NEW r \in late, ServeLate(r) \/ DropLate(r)
  PROVE  IInv'
<1>1. UNCHANGED agentVars /\ late' \subseteq late
  BY DEF ServeLate, DropLate
<1>2. r \in Requests /\ TruthfulReport(r)
  BY DEF IInv, LateInv
<1>3. ServerInv' /\ GrantsKept
  <2>1. CASE Serve(r)
    BY <1>1, <1>2, <2>1, RequestServed DEF IInv, ServerInv, agentVars
  <2>2. CASE UNCHANGED serverVars
    BY <1>1, <2>2, ServerUnchanged DEF agentVars
  <2> QED
    BY <2>1, <2>2 DEF ServeLate, DropLate
<1>4. AgentType'
  BY <1>1 DEF IInv, AgentType, agentVars
<1> QED
  BY <1>1, <1>3, <1>4, QuietStep DEF agentVars

(* The steps that write the journal or print. *)
LEMMA RecordPreserves ==
  ASSUME IInv, NEW a \in Agents, RecordSubmitted(a) \/ RecordCompleted(a)
  PROVE  IInv'
<1> USE DEF IInv
<1>1. PICK s \in JournalState, l \in {"recorded", "finishing"} :
        /\ Record(a, s, l)
        /\ Working(a)
        /\ l = "recorded" => printed[cur[a]] = 0
        /\ l = "finishing" => printed[cur[a]] = 1
  BY DEF RecordSubmitted, RecordCompleted, TickInv, Working, JournalState
<1>2. PICK new \in JournalOutcomes(journal[a], cur[a], s), m \in {l, "idle"} :
        /\ journal' = [journal EXCEPT ![a] = new]
        /\ Continue(a, m) \/ (m = "idle" /\ TickEnds(a))
  BY <1>1 DEF Record, JournalOutcomes, FailedAppends, AgentType
<1>3. /\ UNCHANGED <<serverVars, late>>
      /\ printed' = [printed EXCEPT ![cur[a]] = printed[cur[a]]]
  BY <1>1 DEF Record, AgentType
<1>4. m \in Control \ {"claimed"} /\ m \notin {"fetched", "announced", "submitted"}
  BY DEF Control
<1> QED
  BY <1>1, <1>2, <1>3, <1>4, LocalStep

LEMMA SubmitPreserves ==
  ASSUME IInv, NEW a \in Agents, Submit(a) \/ SubmitFails(a)
  PROVE  IInv'
<1> USE DEF IInv
<1>1. Working(a) /\ printed[cur[a]] = 0 /\ cur[a] \in Jobs
  BY DEF Submit, SubmitFails, TickInv, Working
<1>2. UNCHANGED <<serverVars, late>>
  BY DEF Submit, SubmitFails
<1>3. CASE Submit(a)
  <2>1. /\ journal' = [journal EXCEPT ![a] = journal[a]]
        /\ printed' = [printed EXCEPT ![cur[a]] = 1]
        /\ Continue(a, "submitted")
    BY <1>1, <1>3 DEF Submit, AgentType
  <2>2. "submitted" \in Control \ {"claimed"} /\ "none" \in JournalState
    BY DEF Control, JournalState
  <2> QED
    BY <1>1, <1>2, <2>1, <2>2, LocalStep
<1>4. CASE SubmitFails(a)
  <2>1. PICK new \in JournalOutcomes(journal[a], cur[a], "failed") :
          journal' = [journal EXCEPT ![a] = new]
    BY <1>4 DEF SubmitFails, JournalOutcomes, FailedAppends
  <2>2. PICK n \in {printed[cur[a]], 1} : printed' = [printed EXCEPT ![cur[a]] = n]
    BY <1>1, <1>4 DEF SubmitFails, AgentType
  <2>3. Continue(a, "failing")
    BY <1>4 DEF SubmitFails
  <2>4. "failing" \in Control \ {"claimed"} /\ "failed" \in JournalState
    BY DEF Control, JournalState
  <2> QED
    BY <1>1, <1>2, <2>1, <2>2, <2>3, <2>4, LocalStep
<1> QED
  BY <1>3, <1>4

LEMMA RestartPreserves ==
  ASSUME IInv, NEW a \in Agents, Restart(a)
  PROVE  IInv'
<1> USE DEF IInv, Restart, TickEnds, Goto
<1>1. /\ Opened(journal[a]) \in Journal
      /\ Opened(journal[a]).mem = journal[a].disk
      /\ Opened(journal[a]).disk = journal[a].disk
  BY JournalOpen DEF AgentType
<1>2. ServerInv' /\ GrantsKept
  BY ServerUnchanged
<1>3. AgentType'
  BY <1>1 DEF AgentType, Control
<1>4. \A b \in Agents : TickInv(b)'
  <2>1. TickInv(a)'
    BY DEF TickInv, Working, AgentType
  <2>2. ASSUME NEW b \in Agents \ {a} PROVE TickInv(b)'
    <3>1. pc'[b] = pc[b] /\ cur'[b] = cur[b] /\ journal'[b] = journal[b]
      BY DEF AgentType
    <3> QED
      BY <3>1 DEF TickInv, Working, serverVars, jobVars
  <2> QED
    BY <2>1, <2>2
<1>5. JournalInv'
  BY <1>1 DEF JournalInv, AgentType, serverVars, jobVars
<1>6. LateInv'
  BY DEF LateInv, TruthfulReport, serverVars, jobVars
<1> QED
  BY <1>2, <1>3, <1>4, <1>5, <1>6 DEF ServerInv

----------------------------------------------------------------------------
LEMMA NextIInv ==
  ASSUME IInv, [Next]_vars
  PROVE  IInv'
<1>1. CASE Operator
  BY <1>1, OperatorPreserves
<1>2. CASE Clock
  BY <1>2, ClockPreserves
<1>3. CASE Server
  BY <1>3, CommitPreserves, RollbackPreserves DEF Server
<1>4. CASE Faults
  BY <1>4, AnsweredCallPreserves, UnservedCallPreserves, RestartPreserves,
     LatePreserves DEF Faults
<1>5. ASSUME NEW a \in Agents, Tick(a)
      PROVE  IInv'
  BY <1>5, HeartbeatPreserves, ClaimPreserves, FetchPreserves, ReportPrintingPreserves,
     RecordPreserves, SubmitPreserves, AnsweredCallPreserves DEF Tick
<1>6. CASE UNCHANGED vars
  <2>1. ServerInv' /\ GrantsKept
    BY <1>6, ServerUnchanged DEF vars, agentVars
  <2> QED
    BY <1>6, <2>1, ServerStep DEF vars
<1> QED
  BY <1>1, <1>2, <1>3, <1>4, <1>5, <1>6 DEF Next

(* The inductive invariant holds in every reachable state. *)
THEOREM Invariance == Spec => []IInv
<1>1. IInv /\ [Next]_vars => IInv'
  BY NextIInv
<1> QED
  BY <1>1, InitIInv, PTL DEF Spec

(* Every variable keeps its type. *)
THEOREM TypeCorrect == Spec => []TypeOK
<1>1. IInv => TypeOK
  BY DEF IInv, ServerType, AgentType, LateInv, TypeOK
<1> QED
  BY <1>1, Invariance, PTL

(* PRINT-003: no job is handed to the operating system twice, whatever        *)
(* crashes, is lost, or is executed late.                                   *)
THEOREM PrintedAtMostOnce == Spec => []AtMostOnce
<1>1. IInv => AtMostOnce
  BY DEF IInv, SentInv, AtMostOnce
<1> QED
  BY <1>1, Invariance, PTL

(* What was cancelled, or never granted to an agent, is not printed. *)
THEOREM OnlyGrantedPrinted == Spec => []OnlyGrantedIsSent
<1>1. IInv => OnlyGrantedIsSent
  BY DEF IInv, JobInv, SentInv, Ungranted, OnlyGrantedIsSent
<1> QED
  BY <1>1, Invariance, PTL

(* A job that is reported completed was handed to the operating system. *)
THEOREM CompletedPrinted == Spec => []CompletedWasSent
<1>1. IInv => CompletedWasSent
  BY DEF IInv, SentInv, CompletedWasSent
<1> QED
  BY <1>1, Invariance, PTL

(* The job that an explicit retry copies stays failed. *)
THEOREM RetrySourceFailed == Spec => []RetrySourceStaysFailed
<1>1. IInv => RetrySourceStaysFailed
  BY DEF IInv, JobInv, RetrySourceStaysFailed
<1> QED
  BY <1>1, Invariance, PTL

(* What the platform says of a job is so, for any crashes, losses and delays. *)
THEOREM StatusesAreTrue == Spec => []StatusIsTrue
<1>1. OnlyGrantedIsSent /\ CompletedWasSent /\ RetrySourceStaysFailed => StatusIsTrue
  BY DEF StatusIsTrue
<1> QED
  BY <1>1, OnlyGrantedPrinted, CompletedPrinted, RetrySourceFailed, PTL

(* An agent is never granted a job that its journal knows. *)
THEOREM ClaimedJobIsNew == Spec => []ClaimIsNew
<1>1. IInv => ClaimIsNew
  BY DEF IInv, TickInv, ClaimIsNew
<1> QED
  BY <1>1, Invariance, PTL

----------------------------------------------------------------------------
(* What a step does to the status of the jobs and to the paper: the cases     *)
(* that PrintDelivery distinguishes.                                        *)
Inserts(j) == status[j] = "none" /\ status' = [status EXCEPT ![j] = "queued"]
Cancels(j) == status[j] = "queued" /\ status' = [status EXCEPT ![j] = "cancelled"]
Grants(F, T) == /\ \A k \in F : status[k] \in Leased
                /\ \A k \in T : status[k] = "queued"
                /\ \A j, k \in T : j = k
                /\ status' = [k \in Jobs |-> IF k \in F THEN "failed"
                                              ELSE IF k \in T THEN "claimed" ELSE status[k]]
Settles(j, s) == /\ status[j] \in Leased
                 /\ s = "completed" => printed[j] = 1
                 /\ status' = [status EXCEPT ![j] = s]

ServerEffect ==
  \/ UNCHANGED status
  \/ \E F, T \in SUBSET Jobs : Grants(F, T)
  \/ \E j \in Jobs, s \in {"printing", "completed", "failed"} : Settles(j, s)

Effect ==
  \/ /\ UNCHANGED printed
     /\ ServerEffect \/ \E j \in Jobs : Inserts(j) \/ Cancels(j)
  \/ /\ UNCHANGED status
     /\ \E j \in Jobs : /\ printed[j] = 0
                        /\ status[j] \in Leased \cup {"failed"}
                        /\ printed' = [printed EXCEPT ![j] = 1]

LEMMA ClaimEffect ==
  ASSUME NEW a \in Agents, BeginClaim(a)
  PROVE  ServerEffect
<1>1. CASE FindNothing(a)
  <2>1. Grants(Expired(a), {}) /\ Expired(a) \in SUBSET Jobs /\ {} \in SUBSET Jobs
    BY <1>1 DEF FindNothing, GivenUp, Grants, Expired
  <2> QED
    BY <2>1 DEF ServerEffect
<1> QED
  BY <1>1 DEF BeginClaim, SelectJob, jobVars, ServerEffect

LEMMA CommitEffect ==
  ASSUME IInv, NEW j \in Jobs, CommitClaim(j)
  PROVE  ServerEffect
<1> DEFINE F == {k \in Jobs : lock[k] = j} \ {j}
<1>1. status[j] = "queued" /\ \A k \in F : status[k] \in Leased
  BY PrintQueueAssumption DEF CommitClaim, IInv, LockInv
<1>2. status' = [k \in Jobs |-> IF k \in F THEN "failed"
                                ELSE IF k \in {j} THEN "claimed" ELSE status[k]]
  BY DEF CommitClaim, GivenUp
<1>3. Grants(F, {j}) /\ F \in SUBSET Jobs /\ {j} \in SUBSET Jobs
  BY <1>1, <1>2 DEF Grants
<1> QED
  BY <1>3 DEF ServerEffect

LEMMA ServeEffect ==
  ASSUME IInv, NEW r \in Requests, TruthfulReport(r), Serve(r)
  PROVE  ServerEffect
<1>1. CASE r.op = "heartbeat" /\ ServeHeartbeat(r.agent, r.seen)
  BY <1>1 DEF ServeHeartbeat, jobVars, ServerEffect
<1>2. CASE r.op = "claim" /\ BeginClaim(r.agent)
  <2>1. r.agent \in Agents
    BY DEF Requests, Heartbeats, Claims, Reports
  <2> QED
    BY <1>2, <2>1, ClaimEffect
<1>3. CASE r.op = "report" /\ ServeReport(r.agent, r.job, r.token, r.status)
  <2>1. r.job \in Jobs /\ r.status \in {"printing", "completed", "failed"}
    BY <1>3 DEF Requests, Heartbeats, Claims, Reports
  <2>2. r.status = "completed" => printed[r.job] = 1
    BY <1>3 DEF TruthfulReport
  <2> QED
    BY <1>3, <2>1, <2>2 DEF ServeReport, ServerEffect, Settles, Leased
<1> QED
  BY <1>1, <1>2, <1>3 DEF Serve

LEMMA StepEffect ==
  ASSUME IInv, [Next]_vars
  PROVE  Effect
<1>1. CASE Operator
  BY <1>1 DEF Operator, Queue, Retry, CreateJob, Cancel, RevokeAgent, UpdatePrinter,
     UpdateAsset, jobVars, agentVars, Effect, ServerEffect, Inserts, Cancels
<1>2. CASE Clock
  BY <1>2 DEF Clock, LeaseExpires, PrinterFallsSilent, jobVars, agentVars, Effect,
     ServerEffect
<1>3. ASSUME NEW a \in Agents, FinalReport(a) \/ CallUnanswered(a)
      PROVE  Effect
  <2>1. PICK r \in Pending(a) : Serve(r)
    BY <1>3 DEF FinalReport, CallUnanswered
  <2>2. ServerEffect
    BY <2>1, PendingIsTruthful, ServeEffect
  <2> QED
    BY <1>3, <2>2 DEF FinalReport, CallUnanswered, Effect
<1>4. ASSUME NEW a \in Agents, CallFails(a) \/ CallDelayed(a) \/ Restart(a)
      PROVE  Effect
  BY <1>4 DEF CallFails, CallDelayed, Restart, serverVars, jobVars, Effect, ServerEffect
<1>5. ASSUME NEW r \in late, ServeLate(r) \/ DropLate(r)
      PROVE  Effect
  <2>1. r \in Requests /\ TruthfulReport(r)
    BY DEF IInv, LateInv
  <2> QED
    BY <1>5, <2>1, ServeEffect DEF ServeLate, DropLate, agentVars, serverVars, jobVars,
       Effect, ServerEffect
<1>6. ASSUME NEW a \in Agents, Heartbeat(a) \/ Fetch(a) \/ RecordSubmitted(a)
                               \/ RecordCompleted(a)
      PROVE  Effect
  BY <1>6 DEF Heartbeat, ServeHeartbeat, Fetch, RecordSubmitted, RecordCompleted, Record,
     serverVars, jobVars, Effect, ServerEffect
<1>7. ASSUME NEW a \in Agents, Claim(a)
      PROVE  Effect
  BY <1>7, ClaimEffect DEF Claim, BeginClaim, Effect
<1>8. ASSUME NEW j \in Jobs, CommitClaim(j) \/ RollbackClaim(j)
       PROVE  Effect
  BY <1>8, CommitEffect DEF CommitClaim, RollbackClaim, jobVars, Effect, ServerEffect
<1>9. ASSUME NEW a \in Agents, ReportPrinting(a)
      PROVE  Effect
  <2>1. cur[a] \in Jobs
    BY <1>9 DEF ReportPrinting, IInv, TickInv, Working
  <2> QED
    BY <1>9, <2>1 DEF ReportPrinting, ServeReport, Effect, ServerEffect, Settles, Leased
<1>10. ASSUME NEW a \in Agents, Submit(a) \/ SubmitFails(a)
      PROVE  Effect
  <2>1. cur[a] \in Jobs /\ printed[cur[a]] = 0 /\ attempts[cur[a]] = 1
    BY <1>10 DEF Submit, SubmitFails, IInv, TickInv, Working
  <2>2. status[cur[a]] \in Leased \cup {"failed"}
    <3>1. status[cur[a]] \notin Ungranted
      BY <2>1 DEF IInv, JobInv
    <3>2. status[cur[a]] # "completed"
      BY <2>1 DEF IInv, SentInv
    <3>3. status[cur[a]] \in Status
      BY <2>1 DEF IInv, ServerType
    <3> QED
      BY <3>1, <3>2, <3>3 DEF Status, Leased, Ungranted
  <2> QED
    BY <1>10, <2>1, <2>2 DEF Submit, SubmitFails, serverVars, jobVars, IInv, AgentType,
       Effect, ServerEffect
<1>11. CASE UNCHANGED vars
  BY <1>11 DEF vars, serverVars, jobVars, agentVars, Effect, ServerEffect
<1> QED
  BY <1>1, <1>2, <1>3, <1>4, <1>5, <1>6, <1>7, <1>8, <1>9, <1>10, <1>11
     DEF Next, Faults, Server, Tick

(* Who may lock a row: only a claim that selects a job.                      *)
LockEffect ==
  \/ UNCHANGED lock
  \/ \E a \in Agents, j \in Jobs : SelectJob(a, j)
  \/ \E j \in Jobs : lock' = Unlocked(j)

LEMMA StepLocks ==
  ASSUME IInv, [Next]_vars
  PROVE  LockEffect
<1> USE DEF LockEffect
<1>1. ASSUME NEW r \in Requests, Serve(r)
      PROVE  LockEffect
  <2>1. r.agent \in Agents
    BY DEF Requests, Heartbeats, Claims, Reports
  <2> QED
    BY <1>1, <2>1 DEF Serve, ServeHeartbeat, BeginClaim, FindNothing, ServeReport
<1>2. CASE Operator \/ Clock
  BY <1>2 DEF Operator, Queue, Retry, CreateJob, Cancel, RevokeAgent, UpdatePrinter,
     UpdateAsset, Clock, LeaseExpires, PrinterFallsSilent
<1>3. CASE Server
  BY <1>3 DEF Server, CommitClaim, RollbackClaim
<1>4. ASSUME NEW a \in Agents, FinalReport(a) \/ CallUnanswered(a)
      PROVE  LockEffect
  BY <1>1, <1>4, PendingIsTruthful DEF FinalReport, CallUnanswered
<1>5. ASSUME NEW r \in late, ServeLate(r) \/ DropLate(r)
      PROVE  LockEffect
  <2>1. r \in Requests
    BY DEF IInv, LateInv
  <2> QED
    BY <1>1, <1>5, <2>1 DEF ServeLate, DropLate, serverVars
<1>6. ASSUME NEW a \in Agents, CallFails(a) \/ CallDelayed(a) \/ Restart(a) \/ Fetch(a)
                               \/ RecordSubmitted(a) \/ RecordCompleted(a)
                               \/ Submit(a) \/ SubmitFails(a)
      PROVE  LockEffect
  BY <1>6 DEF CallFails, CallDelayed, Restart, Fetch, RecordSubmitted, RecordCompleted,
     Record, Submit, SubmitFails, serverVars
<1>7. ASSUME NEW a \in Agents, Heartbeat(a) \/ Claim(a) \/ ReportPrinting(a)
      PROVE  LockEffect
  BY <1>7 DEF Heartbeat, ServeHeartbeat, Claim, FindNothing, ReportPrinting, ServeReport
<1>8. CASE UNCHANGED vars
  BY <1>8 DEF vars, serverVars
<1> QED
  BY <1>2, <1>3, <1>4, <1>5, <1>6, <1>7, <1>8 DEF Next, Faults, Tick

(* No claim finds a job for a revoked agent: revocation took its printers     *)
(* offline, and a heartbeat of a revoked agent is refused even when it had    *)
(* passed authentication.  What is claimed after a revocation was selected    *)
(* before it.                                                               *)
THEOREM RevokedGetsNothing == Spec => RevokedIsSelectedNothing
<1>1. ASSUME IInv, [Next]_vars, NEW j \in Jobs, lock[j] # j, lock'[j] = j
      PROVE  Claimer(j) \notin revoked
  <2>1. lock \in [Jobs -> Jobs \cup {None}]
    BY <1>1 DEF IInv, ServerType
  <2>2. PICK a \in Agents, k \in Jobs : SelectJob(a, k)
    <3>1. LockEffect
      BY <1>1, StepLocks
    <3> QED
      BY <1>1, <2>1, <3>1, PrintQueueAssumption DEF LockEffect, Unlocked
  <2>3. j \in Claimable(a)
    <3>1. lock' = [i \in Jobs |-> IF i \in Expired(a) \cup {k} THEN k ELSE lock[i]]
      BY <2>2 DEF SelectJob
    <3>2. k = j
      BY <1>1, <3>1
    <3> QED
      BY <2>2, <3>2 DEF SelectJob
  <2>4. /\ status[j] # "none" /\ Claimer(j) = a
        /\ printer[payload[j].printer].online
    BY <2>3 DEF Claimable, Usable, Claimer
  <2>5. payload[j].printer \in Printers
    BY <1>1, <2>4 DEF IInv, JobInv, Payload
  <2> QED
    BY <1>1, <2>4, <2>5 DEF IInv, RevokedOffline, Claimer
<1>2. IInv /\ [Next]_vars
      => [\A j \in Jobs : lock[j] # j /\ lock'[j] = j => Claimer(j) \notin revoked]_vars
  BY <1>1
<1> QED
  BY <1>2, Invariance, PTL DEF Spec, RevokedIsSelectedNothing

----------------------------------------------------------------------------
(* The refinement: outcome and sent of PrintDelivery are functions of status  *)
(* and printed, so each case of Effect is a step of PrintDelivery or none.    *)
Outcomes == [j \in Jobs |-> Outcome(status[j])]

LEMMA OutcomeCases ==
  ASSUME ServerType, NEW j \in Jobs
  PROVE  /\ Outcome(status[j]) = "none" <=> status[j] = "none"
         /\ Outcome(status[j]) = "waiting" <=> status[j] = "queued"
         /\ Outcome(status[j]) = "taken" <=> status[j] \in Leased
         /\ status[j] \in {"completed", "failed", "cancelled"} => Outcome(status[j]) = status[j]
  BY DEF Outcome, ServerType, Status, Leased

(* One entry of status changes. *)
LEMMA OneOutcome ==
  ASSUME ServerType, NEW j \in Jobs, NEW s, status' = [status EXCEPT ![j] = s]
  PROVE  Outcomes' = [Outcomes EXCEPT ![j] = Outcome(s)]
  BY DEF Outcomes, ServerType

LEMMA RefinedStep ==
  ASSUME IInv, [Next]_vars
  PROVE  Delivery!Next \/ UNCHANGED <<Outcomes, printed>>
<1> USE DEF IInv
<1>1. Effect
  BY StepEffect
<1>2. CASE UNCHANGED <<status, printed>>
  BY <1>2 DEF Outcomes
<1>3. ASSUME NEW j \in Jobs, Inserts(j), UNCHANGED printed
      PROVE  Delivery!Request(j)
  <2>1. Outcomes' = [Outcomes EXCEPT ![j] = "waiting"] /\ Outcomes[j] = "none"
    BY <1>3, OneOutcome DEF Inserts, Outcome, Outcomes, Leased
  <2> QED
    BY <1>3, <2>1 DEF Delivery!Request, Delivery!Become, Outcomes
<1>4. ASSUME NEW j \in Jobs, Cancels(j), UNCHANGED printed
      PROVE  Delivery!Cancel(j)
  <2>1. Outcomes' = [Outcomes EXCEPT ![j] = "cancelled"] /\ Outcomes[j] = "waiting"
    BY <1>4, OneOutcome DEF Cancels, Outcome, Outcomes, Leased
  <2> QED
    BY <1>4, <2>1 DEF Delivery!Cancel, Delivery!Become, Outcomes
<1>5. ASSUME NEW j \in Jobs, NEW s \in {"printing", "completed", "failed"},
             Settles(j, s), UNCHANGED printed
      PROVE  Delivery!Next \/ UNCHANGED Outcomes
  <2>1. Outcomes' = [Outcomes EXCEPT ![j] = Outcome(s)] /\ Outcomes[j] = "taken"
    BY <1>5, OneOutcome, OutcomeCases DEF Settles, Outcomes
  <2>2. CASE s = "printing"
    BY <2>1, <2>2 DEF Outcome, Outcomes, Leased
  <2>3. CASE s = "completed"
    <3>1. Delivery!Complete(j)
      BY <1>5, <2>1, <2>3 DEF Settles, Outcome, Leased, Outcomes,
         Delivery!Complete, Delivery!Become
    <3> QED
      BY <3>1 DEF Delivery!Next
  <2>4. CASE s = "failed"
    <3>1. Delivery!GiveUpAndTake({j}, {})
      BY <1>5, <2>1, <2>4 DEF Outcome, Leased, Outcomes, Delivery!GiveUpAndTake
    <3>2. {j} \in SUBSET Jobs /\ {} \in SUBSET Jobs
      OBVIOUS
    <3> QED
      BY <3>1, <3>2 DEF Delivery!Next
  <2> QED
    BY <2>2, <2>3, <2>4
<1>6. ASSUME NEW F \in SUBSET Jobs, NEW T \in SUBSET Jobs, Grants(F, T), UNCHANGED printed
      PROVE  Delivery!Next
  <2>1. \A i \in F : Outcomes[i] = "taken"
    BY <1>6, OutcomeCases DEF Grants, Outcomes
  <2>2. \A i \in T : Outcomes[i] = "waiting"
    BY <1>6, OutcomeCases DEF Grants, Outcomes
  <2>3. Outcomes' = [i \in Jobs |-> IF i \in F THEN "failed"
                                   ELSE IF i \in T THEN "taken" ELSE Outcomes[i]]
    <3>1. ASSUME NEW i \in Jobs
          PROVE  Outcome(status[i])' = IF i \in F THEN "failed"
                                       ELSE IF i \in T THEN "taken" ELSE Outcome(status[i])
      BY <1>6 DEF Grants, Outcome, Leased
    <3> QED
      BY <3>1 DEF Outcomes
  <2>4. Delivery!GiveUpAndTake(F, T)
    BY <1>6, <2>1, <2>2, <2>3 DEF Grants, Delivery!GiveUpAndTake, Outcomes
  <2> QED
    BY <2>4 DEF Delivery!Next
<1>7. ASSUME NEW j \in Jobs, printed[j] = 0, status[j] \in Leased \cup {"failed"},
             printed' = [printed EXCEPT ![j] = 1], UNCHANGED status
      PROVE  Delivery!Send(j)
  <2>1. Outcomes[j] \in {"taken", "failed"} /\ Outcomes' = Outcomes
    BY <1>7, OutcomeCases DEF Outcomes
  <2> QED
    BY <1>7, <2>1 DEF Delivery!Send, Outcomes
<1> QED
  BY <1>1, <1>2, <1>3, <1>4, <1>5, <1>6, <1>7 DEF Effect, ServerEffect, Delivery!Next

(* The queue with its agents, journals and network implements PrintDelivery: *)
(* a job is sent at most once, completes only after it was sent, and keeps    *)
(* its outcome.                                                             *)
THEOREM Refinement == Spec => ImplementsDelivery
<1>1. Init => Delivery!Init
  <2> SUFFICES ASSUME Init PROVE Delivery!Init
    OBVIOUS
  <2>1. \A j \in Jobs : Outcome(status[j]) = "none"
    BY DEF Init, Outcome, Leased
  <2>2. printed = [j \in Jobs |-> 0]
    BY DEF Init
  <2> QED
    BY <2>1, <2>2 DEF Delivery!Init
<1>2. IInv /\ [Next]_vars => [Delivery!Next]_Delivery!vars
  BY RefinedStep DEF Delivery!vars, Outcomes
<1> QED
  BY <1>1, <1>2, Invariance, PTL DEF Spec, ImplementsDelivery, Delivery!Spec
=============================================================================
