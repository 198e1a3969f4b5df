----------------------------- MODULE Automation -----------------------------
(***************************************************************************)
(* Print automation (automation/): operators keep rules, the scheduler of    *)
(* every API process turns due schedules, domain events and test requests    *)
(* into executions, claims them under a lease, and asks the print queue for   *)
(* a job.                                                                  *)
(*                                                                         *)
(* An operation is one transaction that locks the rule it is about, and one   *)
(* action.  Two are not: a claim does not lock the rule, and printing's own    *)
(* retry on paper does not know of rules.  An execution that asks for a job is *)
(* therefore two actions, the count of the day's copies and the commit; it     *)
(* has the rule and the execution locked from one to the other.  The claim is  *)
(* a transaction of its own, so that a process can lose its lease, or die,    *)
(* between the claim and the execution.                                     *)
(*                                                                         *)
(* A lease may run out at any time, and a date in available_at may have come: *)
(* neither is a variable, a claim does not wait for them.                    *)
(***************************************************************************)
EXTENDS Integers, Sequences, FiniteSetsExt, Functions

CONSTANTS
  Rules, Users, Workers,
  Events, KindOf,   \* domain events, and the trigger each one is
  Tests,            \* request keys of test runs
  Zones,
  Horizon,          \* bound: time is 1..Horizon
  Walls,            \* local dates with a clock time
  Wall,             \* of a zone: what its clocks show at each time
  DateOf,           \* the date of a wall time
  Forms,            \* what operators may enter for a rule
  MaxVersion,       \* bound: nothing new begins once every rule has it
  MaxJobs,          \* bound: printing retries a job on paper only below it
  None

Instants == 1..Horizon
Kinds == {KindOf[e] : e \in Events}
Keys == Walls \cup Events \cup Tests  \* occurrence keys of a rule

ASSUME AutomationAssumption ==
  /\ Horizon \in Nat \ {0} /\ MaxVersion \in Nat /\ MaxJobs \in Nat
  /\ IsFiniteSet(Keys)
  /\ Wall \in [Zones -> [Instants -> Walls]]
  /\ Forms \subseteq [trigger : Kinds \cup {"scheduled"}, schedule : SUBSET Walls,
                      copies : Nat, limit : Nat, threshold : Nat \ {0},
                      enabled : BOOLEAN, paused : BOOLEAN]
  /\ "scheduled" \notin Kinds
  /\ Walls \cap Events = {} /\ Walls \cap Tests = {} /\ Events \cap Tests = {}
  /\ None \notin Workers \cup Instants /\ None \notin Rules \X Keys

VARIABLES
  clock, timezone,  \* the time, and the zone of the company
  rule,             \* automation_rules
  run,              \* automation_executions of a rule, by occurrence key
  jobs,             \* printer_jobs of a rule, by the occurrence they come from
  log, consumed,    \* automation_domain_events as they occurred, how many are processed
  claim,            \* the execution that the scheduler of a process has claimed
  execution,        \* its open transaction, after the count
  screen            \* the state of a rule that an operator last looked at

vars == <<clock, timezone, rule, run, jobs, log, consumed, claim, execution, screen>>

(* since: how many events had occurred when it was activated.                  *)
Rule == [form : Forms, zone : Zones, enabled : BOOLEAN, paused : BOOLEAN,
         version : Nat, failures : Nat, backoff : BOOLEAN,
         next : Instants \cup {None}, since : Nat]

(* copies and version are those of the snapshot of the rule; the lease token   *)
(* is the worker, which remembers its last claim only.                        *)
Run == [status : {"pending", "running", "completed", "failed", "skipped"},
        copies : Nat, version : Nat, token : Workers \cup {None}]

Job == [copies : Nat, at : Instants, reprint : BOOLEAN]

(* versions: of the rules when the event occurred, for a property below. *)
Fact == [event : Events, versions : [Rules -> Nat]]

(* at: its now(), which is the created_at of its job too; seen: how many jobs    *)
(* of each occurrence the count has seen, for a property below.               *)
Execution == [at : Instants, seen : [Keys -> Nat]]

Screen == [rule : Rules, version : Nat, paused : BOOLEAN]

Init ==
  /\ clock = 1 /\ timezone \in Zones
  /\ rule = [r \in Rules |-> None]
  /\ run  = [r \in Rules |-> [k \in Keys |-> None]]
  /\ jobs = [r \in Rules |-> [k \in Keys |-> << >>]]
  /\ log = << >> /\ consumed = 0
  /\ claim = [w \in Workers |-> None]
  /\ execution = [w \in Workers |-> None]
  /\ screen = [u \in Users |-> None]

----------------------------------------------------------------------------
(* The earliest time after the given one at which the clocks show a scheduled   *)
(* wall time for the first time: a repeated one counts once, a missing one not. *)
NextRun(schedule, zone, after) ==
  LET occurs == {i \in Instants : /\ Wall[zone][i] \in schedule
                                  /\ \A j \in 1..(i - 1) : Wall[zone][j] # Wall[zone][i]}
      later == {i \in occurs : i > after}
  IN  IF later = {} THEN None ELSE Min(later)

Exists(r) == rule[r] # None
Active(r) == Exists(r) /\ rule[r].enabled /\ ~rule[r].paused

Claims(w, r, k) == claim[w] = <<r, k>>

(* Row locks: an open execution has its rule and its execution row.            *)
Executing(w, r, k) == Claims(w, r, k) /\ execution[w] # None

Locked(r) == \E w \in Workers, k \in Keys : Executing(w, r, k)

----------------------------------------------------------------------------
(* Operators. *)

(* Bound. *)
Below(version) == \E r \in Rules : Exists(r) => rule[r].version < version

Look(u, r) ==
  /\ Exists(r) /\ Below(MaxVersion)
  /\ screen' = [screen EXCEPT ![u] =
       [rule |-> r, version |-> rule[r].version, paused |-> rule[r].paused]]
  /\ UNCHANGED <<clock, timezone, rule, run, jobs, log, consumed, claim, execution>>

(* Mutant of IsCurrent: the version that the operator has seen is not compared.  *)
IsCurrentUnversioned(u, r) == /\ Exists(r) /\ rule[r].version < MaxVersion
                              /\ screen[u] # None /\ screen[u].rule = r

IsCurrent(u, r) == /\ Exists(r) /\ rule[r].version < MaxVersion
                   /\ screen[u] # None /\ screen[u].rule = r
                   /\ screen[u].version = rule[r].version

(* Created, or edited by somebody who has seen its version. *)
SaveRule(u, r, form) ==
  /\ ~Exists(r) \/ (IsCurrent(u, r) /\ ~Locked(r))
  /\ rule' = [rule EXCEPT ![r] =
       [form |-> form, zone |-> timezone,
        enabled |-> form.enabled, paused |-> form.paused,
        version |-> IF Exists(r) THEN rule[r].version + 1 ELSE 1,
        failures |-> 0, backoff |-> FALSE,
        next |-> IF form.trigger = "scheduled" /\ form.enabled /\ ~form.paused
                 THEN NextRun(form.schedule, timezone, clock) ELSE None,
        since |-> Len(log)]]
  /\ UNCHANGED <<clock, timezone, run, jobs, log, consumed, claim, execution, screen>>

(* Mutant of Pause: activated_at is not set. *)
PauseKeepingActivation(u, r, paused) ==
  /\ IsCurrent(u, r) /\ ~Locked(r)
  /\ rule' = [rule EXCEPT ![r] =
       [@ EXCEPT !.paused = paused, !.version = rule[r].version + 1,
                 !.failures = IF paused THEN rule[r].failures ELSE 0,
                 !.backoff = paused /\ rule[r].backoff,
                 !.next = IF ~paused /\ rule[r].enabled /\ rule[r].form.trigger = "scheduled"
                          THEN NextRun(rule[r].form.schedule, rule[r].zone, clock) ELSE None]]
  /\ UNCHANGED <<clock, timezone, run, jobs, log, consumed, claim, execution, screen>>

Pause(u, r, paused) ==
  /\ IsCurrent(u, r) /\ ~Locked(r)
  /\ rule' = [rule EXCEPT ![r] =
       [@ EXCEPT !.paused = paused, !.version = rule[r].version + 1,
                 !.failures = IF paused THEN rule[r].failures ELSE 0,
                 !.backoff = paused /\ rule[r].backoff,
                 !.next = IF ~paused /\ rule[r].enabled /\ rule[r].form.trigger = "scheduled"
                          THEN NextRun(rule[r].form.schedule, rule[r].zone, clock) ELSE None,
                 !.since = Len(log)]]
  /\ UNCHANGED <<clock, timezone, run, jobs, log, consumed, claim, execution, screen>>

(* Rules keep the zone that they were saved with.  Bound: before an edit. *)
SetTimezone(zone) ==
  /\ Below(2) /\ zone # timezone
  /\ timezone' = zone
  /\ UNCHANGED <<clock, rule, run, jobs, log, consumed, claim, execution, screen>>

(* insertExecution: an occurrence that is known stays what it is. *)
Inserted(r, k) ==
  IF run[r][k] # None THEN run[r]
  ELSE [run[r] EXCEPT ![k] =
         [status |-> "pending", copies |-> rule[r].form.copies, version |-> rule[r].version,
          token |-> None]]

(* Also of a paused or disabled rule. *)
TestRun(r, k) ==
  /\ Exists(r) /\ ~Locked(r) /\ Below(MaxVersion)
  /\ run' = [run EXCEPT ![r] = Inserted(r, k)]
  /\ UNCHANGED <<clock, timezone, rule, jobs, log, consumed, claim, execution, screen>>

SetRun(r, k, value) == run' = [run EXCEPT ![r] = [run[r] EXCEPT ![k] = value]]

Retry(r, k) ==
  /\ run[r][k] # None /\ run[r][k].status = "failed"
  /\ Active(r) /\ ~Locked(r)
  /\ SetRun(r, k, [run[r][k] EXCEPT !.status = "pending"])
  /\ UNCHANGED <<clock, timezone, rule, jobs, log, consumed, claim, execution, screen>>

(* Printing's own retry of a job that failed on paper: a job is inserted, no     *)
(* rule is locked.                                                            *)
Reprint(r, k) ==
  /\ Below(MaxVersion) /\ jobs[r][k] # << >> /\ \A q \in Keys : Len(jobs[r][q]) < MaxJobs
  /\ jobs' = [jobs EXCEPT ![r] = [jobs[r] EXCEPT ![k] =
       Append(jobs[r][k], [copies |-> jobs[r][k][1].copies, at |-> clock, reprint |-> TRUE])]]
  /\ UNCHANGED <<clock, timezone, rule, run, log, consumed, claim, execution, screen>>

(* A batch or consignment is committed together with its event. *)
Occur(e) ==
  /\ Below(MaxVersion) /\ \A n \in DOMAIN log : log[n].event # e
  /\ log' = Append(log, [event |-> e,
       versions |-> [r \in Rules |-> IF Exists(r) THEN rule[r].version ELSE 0]])
  /\ UNCHANGED <<clock, timezone, rule, run, jobs, consumed, claim, execution, screen>>

----------------------------------------------------------------------------
(* The scheduler. *)

Due(r) == /\ Active(r) /\ rule[r].form.trigger = "scheduled"
          /\ rule[r].next # None /\ rule[r].next <= clock

(* The occurrence is the local time of a rule's own zone, without its version; *)
(* what was missed is caught up with one by one.                              *)
MaterializeSchedule(r) ==
  /\ Due(r) /\ ~Locked(r)
  /\ run' = [run EXCEPT ![r] = Inserted(r, Wall[rule[r].zone][rule[r].next])]
  /\ rule' = [rule EXCEPT ![r] =
       [@ EXCEPT !.next = NextRun(rule[r].form.schedule, rule[r].zone, rule[r].next)]]
  /\ UNCHANGED <<clock, timezone, jobs, log, consumed, claim, execution, screen>>

(* activated_at <= occurred_at *)
Matches(r, n) == /\ Active(r) /\ rule[r].form.trigger = KindOf[log[n].event]
                 /\ rule[r].since < n

(* The oldest event, for all rules at once. *)
MaterializeEvent ==
  LET n == consumed + 1
  IN  /\ n \in DOMAIN log
      /\ \A r \in Rules : Matches(r, n) => ~Locked(r)
      /\ run' = [r \in Rules |-> IF Matches(r, n) THEN Inserted(r, log[n].event) ELSE run[r]]
      /\ consumed' = n
      /\ UNCHANGED <<clock, timezone, rule, jobs, log, claim, execution, screen>>

Claimable(r, k) ==
  /\ run[r][k] # None /\ ~rule[r].backoff
  /\ \/ run[r][k].status \in {"pending", "running"}
     \/ run[r][k].status = "failed" /\ Active(r)

(* The lease may have run out under an open execution: its row is skipped.      *)
Claim(w, r, k) ==
  /\ claim[w] = None /\ Claimable(r, k)
  /\ \A v \in Workers : ~Executing(v, r, k)
  /\ SetRun(r, k, [run[r][k] EXCEPT !.status = "running", !.token = w])
  /\ claim' = [claim EXCEPT ![w] = <<r, k>>]
  /\ UNCHANGED <<clock, timezone, rule, jobs, log, consumed, execution, screen>>

(* Mutant of Owns: the execution is taken to be what it was when it was claimed. *)
OwnsByClaim(w, r, k) == Claims(w, r, k)

Owns(w, r, k) == /\ Claims(w, r, k)
                 /\ run[r][k].status = "running" /\ run[r][k].token = w

Inactive(r, k) == k \notin Tests /\ ~Active(r)

(* The local day is that of the zone that the rule has now. *)
SameDay(r, i, j) == DateOf[Wall[rule[r].zone][i]] = DateOf[Wall[rule[r].zone][j]]

(* All jobs of the rule's executions, physical retries and tests included. *)
JobsToday(r, k) == {n \in DOMAIN jobs[r][k] : SameDay(r, jobs[r][k][n].at, clock)}

CopiesTodayOf(r, k) == SumFunction([n \in JobsToday(r, k) |-> jobs[r][k][n].copies])

CopiesToday(r) == SumFunction([k \in Keys |-> CopiesTodayOf(r, k)])

OverLimit(r, k) == CopiesToday(r) + run[r][k].copies > rule[r].form.limit

(* Mutant of Ended: the lease token is not cleared. *)
EndedKeepingToken(r, k, status) == [run[r][k] EXCEPT !.status = status]

Ended(r, k, status) == [run[r][k] EXCEPT !.status = status, !.token = None]

Skip(w, r, k) ==
  /\ Owns(w, r, k) /\ ~Locked(r)
  /\ Inactive(r, k) \/ (~rule[r].backoff /\ OverLimit(r, k))
  /\ SetRun(r, k, Ended(r, k, "skipped"))
  /\ claim' = [claim EXCEPT ![w] = None]
  /\ UNCHANGED <<clock, timezone, rule, jobs, log, consumed, execution, screen>>

(* The rule has backed off since the claim. *)
Postpone(w, r, k) ==
  /\ Owns(w, r, k) /\ ~Locked(r)
  /\ ~Inactive(r, k) /\ rule[r].backoff
  /\ SetRun(r, k, Ended(r, k, "pending"))
  /\ claim' = [claim EXCEPT ![w] = None]
  /\ UNCHANGED <<clock, timezone, rule, jobs, log, consumed, execution, screen>>

MayQueue(w, r, k) == /\ Owns(w, r, k) /\ ~Inactive(r, k)
                     /\ ~rule[r].backoff /\ ~OverLimit(r, k)

Counted(r) == [at |-> clock, seen |-> [q \in Keys |-> Len(jobs[r][q])]]

(* Mutant of Count: the rule is read without its lock. *)
CountUnlocked(w, r, k) ==
  /\ MayQueue(w, r, k) /\ execution[w] = None
  /\ execution' = [execution EXCEPT ![w] = Counted(r)]
  /\ UNCHANGED <<clock, timezone, rule, run, jobs, log, consumed, claim, screen>>

(* The rule and the execution are locked, and there is room for the copies. *)
Count(w, r, k) ==
  /\ MayQueue(w, r, k) /\ ~Locked(r)
  /\ execution' = [execution EXCEPT ![w] = Counted(r)]
  /\ UNCHANGED <<clock, timezone, rule, run, jobs, log, consumed, claim, screen>>

LetGo(w) == /\ claim' = [claim EXCEPT ![w] = None]
            /\ execution' = [execution EXCEPT ![w] = None]

(* QueueAutomationTx and the commit: the key of the job is the execution, a      *)
(* known one is answered with the job that is there.                            *)
QueueJob(w, r, k) ==
  /\ Executing(w, r, k)
  /\ jobs' = IF jobs[r][k] # << >> THEN jobs
             ELSE [jobs EXCEPT ![r] = [jobs[r] EXCEPT ![k] =
                    << [copies |-> run[r][k].copies, at |-> execution[w].at,
                        reprint |-> FALSE] >>]]
  /\ SetRun(r, k, Ended(r, k, "completed"))
  /\ rule' = [rule EXCEPT ![r] = [@ EXCEPT !.failures = 0, !.backoff = FALSE]]
  /\ LetGo(w)
  /\ UNCHANGED <<clock, timezone, log, consumed, screen>>

(* The printer is offline or the asset is not active; printing alone is rolled  *)
(* back.  The rule is paused when it has failed too often.                    *)
FailQueueing(w, r, k) ==
  LET pause == rule[r].failures + 1 >= rule[r].form.threshold
  IN  /\ Executing(w, r, k) /\ jobs[r][k] = << >>
      /\ SetRun(r, k, Ended(r, k, "failed"))
      /\ rule' = [rule EXCEPT ![r] =
           [@ EXCEPT !.failures = rule[r].failures + 1, !.backoff = TRUE,
                     !.paused = rule[r].paused \/ pause,
                     !.version = IF pause THEN rule[r].version + 1 ELSE rule[r].version]]
      /\ LetGo(w)
      /\ UNCHANGED <<clock, timezone, jobs, log, consumed, screen>>

(* The lease is lost; or the database fails, or the process dies and is started *)
(* again, and everything is rolled back.                                      *)
Drop(w) ==
  /\ claim[w] # None
  /\ LetGo(w)
  /\ UNCHANGED <<clock, timezone, rule, run, jobs, log, consumed, screen>>

----------------------------------------------------------------------------
(* Time. *)

Advance ==
  /\ clock < Horizon
  /\ clock' = clock + 1
  /\ UNCHANGED <<timezone, rule, run, jobs, log, consumed, claim, execution, screen>>

BackoffEnds(r) ==
  /\ Exists(r) /\ rule[r].backoff
  /\ rule' = [rule EXCEPT ![r] = [@ EXCEPT !.backoff = FALSE]]
  /\ UNCHANGED <<clock, timezone, run, jobs, log, consumed, claim, execution, screen>>

----------------------------------------------------------------------------
Operating == \/ \E u \in Users, r \in Rules :
                  \/ Look(u, r)
                  \/ \E form \in Forms : SaveRule(u, r, form)
                  \/ \E paused \in BOOLEAN : Pause(u, r, paused)
             \/ \E r \in Rules, k \in Tests : TestRun(r, k)
             \/ \E r \in Rules, k \in Keys : Retry(r, k) \/ Reprint(r, k)
             \/ \E zone \in Zones : SetTimezone(zone)

Execute(w, r, k) == Skip(w, r, k) \/ Postpone(w, r, k) \/ Count(w, r, k)
                    \/ QueueJob(w, r, k) \/ FailQueueing(w, r, k)

Scheduling == \/ \E r \in Rules : MaterializeSchedule(r)
              \/ MaterializeEvent
              \/ \E w \in Workers, r \in Rules, k \in Keys : Claim(w, r, k) \/ Execute(w, r, k)

Timing == \/ Advance
          \/ \E r \in Rules : BackoffEnds(r)

Next == \/ Operating \/ Scheduling \/ Timing
        \/ \E e \in Events : Occur(e)
        \/ \E w \in Workers : Drop(w)

Spec == Init /\ [][Next]_vars

----------------------------------------------------------------------------
(* Types; and a lease is held on what runs, on nothing else. *)
TypeOK ==
  /\ clock \in Instants /\ timezone \in Zones
  /\ rule \in [Rules -> Rule \cup {None}]
  /\ run \in [Rules -> [Keys -> Run \cup {None}]]
  /\ \A r \in Rules, k \in Keys :
       run[r][k] # None => (run[r][k].token # None <=> run[r][k].status = "running")
  /\ jobs \in [Rules -> [Keys -> Seq(Job)]]
  /\ log \in Seq(Fact) /\ consumed \in 0..Len(log)
  /\ claim \in [Workers -> (Rules \X Keys) \cup {None}]
  /\ execution \in [Workers -> Execution \cup {None}]
  /\ screen \in [Users -> Screen \cup {None}]

(* docs/workflows/automation.md:39: "editing cannot reprint an occurrence already *)
(* materialized that day"; 72: a retry or a second worker never gives the queue   *)
(* another job.  Whatever is edited, retried, interrupted or claimed twice, each  *)
(* occurrence is decided once.                                                *)
Decision(x) == IF x = None THEN "none"
               ELSE CASE x.status = "completed" -> "queued"
                      [] x.status = "skipped" -> "skipped"
                      [] OTHER -> "open"

QueuedJobs(seq) == Cardinality({n \in DOMAIN seq : ~seq[n].reprint})

Promise == INSTANCE PrintOccurrence WITH
  Occurrences <- Rules \X Keys,
  decision <- [o \in Rules \X Keys |-> Decision(run[o[1]][o[2]])],
  queued <- [o \in Rules \X Keys |-> QueuedJobs(jobs[o[1]][o[2]])]
ImplementsOccurrence == Promise!Spec

(* scheduler.go:208: "Holding the rule lock serializes the derived daily budget   *)
(* across workers".  When an execution commits its job, the copies of its local   *)
(* day are within the limit of the rule, whatever was queued meanwhile by tests,  *)
(* events and other processes, and under whichever rule version.  The retries on *)
(* paper that have committed since its count are left out: they are not serialized*)
(* by the rule lock, and the count knows those only that were there before.       *)
KnownJobs(r, q, list, e) ==
  {n \in DOMAIN list : /\ SameDay(r, list[n].at, e.at)
                       /\ list[n].reprint => n <= e.seen[q]}

KnownCopies(r, q, list, e) ==
  SumFunction([n \in KnownJobs(r, q, list, e) |-> list[n].copies])

LimitIsKept ==
  [][\A r \in Rules, k \in Keys :
       jobs[r][k] = << >> /\ jobs'[r][k] # << >> =>
         \E w \in Workers :
           /\ Executing(w, r, k)
           /\ SumFunction([q \in Keys |-> KnownCopies(r, q, jobs'[r][q], execution[w])])
                <= rule[r].form.limit]_vars

(* scheduler.go:128: "Enabling/editing a rule never prints historical events      *)
(* using a newly configured asset": what an event prints is what the rule said     *)
(* when it occurred, however late it is consumed.                              *)
EventsUseTheirConfiguration ==
  \A r \in Rules : \A n \in DOMAIN log :
    run[r][log[n].event] # None => run[r][log[n].event].version = log[n].versions[r]

(* A rule that is paused, by a person or by its failures, is only resumed by      *)
(* somebody who has seen that it is.                                          *)
UnseenPauseStays ==
  [][\A r \in Rules : Exists(r) /\ rule[r].paused /\ ~rule'[r].paused =>
       \E u \in Users : screen[u] # None /\ screen[u].rule = r /\ screen[u].paused]_vars
=============================================================================
