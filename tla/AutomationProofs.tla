-------------------------- MODULE AutomationProofs --------------------------
(***************************************************************************)
(* Print automation, for any rules, events, zones and workers: an occurrence  *)
(* is decided once (PrintOccurrence), an event prints what its rule said when  *)
(* it occurred, a pause is not undone by somebody who has not seen it, and the   *)
(* lock of the rule keeps executions within its daily limit.                  *)
(***************************************************************************)
EXTENDS Automation, SumProofs

(* None is nothing else. *)
NoneIsNew == None \notin Rule /\ None \notin Run /\ None \notin Screen

(* An execution has a rule, and jobs exactly when it is completed: one of its own,  *)
(* the others are retries on paper.                                           *)
JobsAreOfCompleted ==
  \A r \in Rules, k \in Keys :
    /\ run[r][k] # None => Exists(r)
    /\ jobs[r][k] # << >> <=> run[r][k] # None /\ run[r][k].status = "completed"
    /\ \A n \in DOMAIN jobs[r][k] : jobs[r][k][n].reprint <=> n # 1

(* An event occurs once, and executions of it are those of consumed ones. *)
EventsAreConsumed ==
  /\ \A n, m \in DOMAIN log : log[n].event = log[m].event => n = m
  /\ \A r \in Rules, e \in Events :
       run[r][e] # None => \E n \in 1..consumed : log[n].event = e

(* A rule that would match an event was then what it is now. *)
ActiveSinceIsUnchanged ==
  \A r \in Rules, n \in DOMAIN log :
    Active(r) /\ rule[r].since < n => log[n].versions[r] = rule[r].version

(* A screen is not ahead of its rule, and right if it is not behind. *)
ScreensAreOfThePast ==
  \A u \in Users, r \in Rules :
    screen[u] # None /\ screen[u].rule = r =>
      /\ Exists(r) /\ screen[u].version <= rule[r].version
      /\ screen[u].version = rule[r].version => screen[u].paused = rule[r].paused

(* What is claimed is there. *)
ClaimsAreOfRuns ==
  \A w \in Workers, r \in Rules, k \in Keys : Claims(w, r, k) => run[r][k] # None

(* What an execution has counted of one occurrence, and of all.                *)
Known(zone, list, q, e) ==
  {n \in DOMAIN list : /\ DateOf[Wall[zone][list[n].at]] = DateOf[Wall[zone][e.at]]
                       /\ list[n].reprint => n <= e.seen[q]}
KnownOf(zone, list, q, e) == SumFunction([n \in Known(zone, list, q, e) |-> list[n].copies])
Total(zone, lists, e) == SumFunction([q \in Keys |-> KnownOf(zone, lists[q], q, e)])

(* An open execution is of a claim that stands, it is the only one of its rule, and *)
(* what it has counted still leaves room for its copies.                       *)
CountsStand ==
  \A w \in Workers :
    /\ execution[w] # None => claim[w] # None
    /\ \A r \in Rules, k \in Keys : Executing(w, r, k) =>
         /\ run[r][k].status = "running" /\ run[r][k].token = w
         /\ \A v \in Workers, j \in Keys : Executing(v, r, j) => v = w
         /\ \A q \in Keys : execution[w].seen[q] <= Len(jobs[r][q])
         /\ Total(rule[r].zone, jobs[r], execution[w]) + run[r][k].copies <= rule[r].form.limit

IInv == /\ TypeOK
        /\ ClaimsAreOfRuns
        /\ CountsStand
        /\ JobsAreOfCompleted
        /\ EventsAreConsumed
        /\ ActiveSinceIsUnchanged
        /\ EventsUseTheirConfiguration
        /\ ScreensAreOfThePast

(* The next run of a schedule is a time, or there is none. *)
LEMMA NextRunIsATime ==
  ASSUME NEW schedule, NEW zone, NEW after
  PROVE  NextRun(schedule, zone, after) \in Instants \cup {None}
  <1> DEFINE occurs == {i \in Instants : /\ Wall[zone][i] \in schedule
                                         /\ \A j \in 1..(i - 1) : Wall[zone][j] # Wall[zone][i]}
             later == {i \in occurs : i > after}
  <1>1. CASE later = {}
    BY <1>1 DEF NextRun
  <1>2. CASE later # {}
    <2>1. later \subseteq Instants /\ later \subseteq Nat
      BY DEF Instants
    <2>2. \E x \in later : \A y \in later : ~(<<y, x>> \in OpToRel(<, Nat))
      BY <1>2, <2>1, NatLessThanWellFounded, WFMin
    <2>3. PICK x \in later : \A y \in later : ~(<<y, x>> \in OpToRel(<, Nat))
      BY <2>2
    <2>4. \A y \in later : x <= y
      <3> SUFFICES ASSUME NEW y \in later, y < x PROVE FALSE
        BY <2>1
      <3>1. <<y, x>> \in Nat \X Nat /\ <<y, x>>[1] < <<y, x>>[2]
        BY <2>1
      <3>2. <<y, x>> \in OpToRel(<, Nat)
        BY <3>1 DEF OpToRel
      <3> QED BY <3>2, <2>3
    <2>5. Min(later) \in later
      BY <2>3, <2>4 DEF Min
    <2>6. NextRun(schedule, zone, after) = Min(later)
      BY <1>2 DEF NextRun
    <2> QED BY <2>1, <2>5, <2>6
  <1> QED BY <1>1, <1>2

LEMMA InitIInv == ASSUME Init PROVE IInv
  <1>1. TypeOK
    <2>1. clock \in Instants /\ log \in Seq(Fact) /\ consumed \in 0..Len(log)
      BY AutomationAssumption DEF Init, Instants
    <2>2. jobs \in [Rules -> [Keys -> Seq(Job)]]
      BY DEF Init
    <2> QED BY <2>1, <2>2 DEF Init, TypeOK
  <1>2. JobsAreOfCompleted
    BY DEF Init, JobsAreOfCompleted
  <1>3. EventsAreConsumed /\ ActiveSinceIsUnchanged /\ EventsUseTheirConfiguration
    <2>1. DOMAIN log = {}
      BY DEF Init
    <2>2. \A r \in Rules, e \in Events : run[r][e] = None
      BY DEF Init, Keys
    <2> QED BY <2>1, <2>2 DEF EventsAreConsumed, ActiveSinceIsUnchanged, EventsUseTheirConfiguration
  <1>4. ScreensAreOfThePast
    BY DEF Init, ScreensAreOfThePast
  <1>5. ClaimsAreOfRuns
    BY AutomationAssumption DEF Init, ClaimsAreOfRuns, Claims
  <1>6. CountsStand
    BY DEF Init, CountsStand, Executing
  <1> QED BY <1>1, <1>2, <1>3, <1>4, <1>5, <1>6 DEF IInv

(* A rule is saved, paused, resumed or touched: its version only grows, and tells  *)
(* pauses apart; and if it may match events after it, it is activated anew or was   *)
(* what it is.                                                               *)
LEMMA ChangedRule ==
  ASSUME NoneIsNew, IInv, NEW r \in Rules, NEW new \in Rule,
         rule' = [rule EXCEPT ![r] = new],
         Exists(r) => /\ rule[r].version <= new.version
                      /\ new.version = rule[r].version => new.paused = rule[r].paused,
         \/ new.since = Len(log)
         \/ /\ Exists(r) /\ new.since = rule[r].since
            /\ new.enabled /\ ~new.paused => Active(r) /\ new.version = rule[r].version,
         UNCHANGED <<log, screen>>
  PROVE  /\ rule' \in [Rules -> Rule \cup {None}]
         /\ \A q \in Rules : Exists(q) => Exists(q)'
         /\ ActiveSinceIsUnchanged' /\ ScreensAreOfThePast'
  <1>1. /\ TypeOK /\ ActiveSinceIsUnchanged /\ ScreensAreOfThePast
        /\ rule \in [Rules -> Rule \cup {None}] /\ log \in Seq(Fact)
        /\ screen \in [Users -> Screen \cup {None}]
    BY DEF IInv, TypeOK
  <1>2. rule'[r] = new /\ \A q \in Rules : q # r => rule'[q] = rule[q]
    BY <1>1
  <1>3. new # None
    BY DEF NoneIsNew
  <1>4. rule' \in [Rules -> Rule \cup {None}] /\ \A q \in Rules : Exists(q) => Exists(q)'
    BY <1>1, <1>2, <1>3 DEF Exists
  <1>5. ActiveSinceIsUnchanged'
    <2> SUFFICES ASSUME NEW q \in Rules, NEW n \in DOMAIN log, Active(q)', rule'[q].since < n
                 PROVE  log[n].versions[q] = rule'[q].version
      BY DEF ActiveSinceIsUnchanged
    <2>1. CASE q # r
      BY <2>1, <1>1, <1>2 DEF ActiveSinceIsUnchanged, Active, Exists
    <2>2. CASE q = r
      <3>1. n \in Nat /\ n <= Len(log) /\ new.since < n /\ new.enabled /\ ~new.paused
        BY <2>2, <1>1, <1>2 DEF Active
      <3>2. new.since = rule[r].since /\ Active(r) /\ new.version = rule[r].version
        BY <3>1 DEF Rule
      <3> QED BY <2>2, <3>1, <3>2, <1>1, <1>2 DEF ActiveSinceIsUnchanged
    <2> QED BY <2>1, <2>2
  <1>6. ScreensAreOfThePast'
    <2> SUFFICES ASSUME NEW u \in Users, NEW q \in Rules, screen[u] # None, screen[u].rule = q
                 PROVE  /\ Exists(q)' /\ screen[u].version <= rule'[q].version
                        /\ screen[u].version = rule'[q].version => screen[u].paused = rule'[q].paused
      BY DEF ScreensAreOfThePast
    <2>1. CASE q # r
      BY <2>1, <1>1, <1>2 DEF ScreensAreOfThePast, Exists
    <2>2. CASE q = r
      <3>1. /\ Exists(r) /\ screen[u].version <= rule[r].version
            /\ screen[u].version = rule[r].version => screen[u].paused = rule[r].paused
        BY <2>2, <1>1 DEF ScreensAreOfThePast
      <3>2. screen[u].version \in Nat /\ rule[r].version \in Nat /\ new.version \in Nat
        BY <3>1, <1>1 DEF Screen, Rule, Exists
      <3> QED BY <2>2, <3>1, <3>2, <1>2, <1>3 DEF Exists
    <2> QED BY <2>1, <2>2
  <1> QED BY <1>4, <1>5, <1>6

(* Executions do not go away, and their claims neither. *)
LEMMA KeptClaims ==
  ASSUME IInv, \A q \in Rules, j \in Keys : run[q][j] # None => run'[q][j] # None,
         \A w \in Workers, q \in Rules, j \in Keys :
           claim'[w] = <<q, j>> => claim[w] = <<q, j>> \/ run'[q][j] # None
  PROVE  ClaimsAreOfRuns'
  BY DEF IInv, ClaimsAreOfRuns, Claims

(* What has been counted stands as long as the rule, the execution and its jobs do. *)
LEMMA StandingCounts ==
  ASSUME IInv,
         \A w \in Workers : execution'[w] # None =>
           execution'[w] = execution[w] /\ claim'[w] = claim[w],
         \A w \in Workers, r \in Rules, k \in Keys : Executing(w, r, k) /\ execution'[w] # None =>
           /\ run'[r][k] = run[r][k] /\ jobs'[r] = jobs[r]
           /\ rule'[r].zone = rule[r].zone /\ rule'[r].form = rule[r].form
  PROVE  CountsStand'
  <1>1. CountsStand
    BY DEF IInv
  <1>2. \A w \in Workers, r \in Rules, k \in Keys :
          Executing(w, r, k)' => Executing(w, r, k) /\ execution'[w] # None
    BY DEF Executing, Claims
  <1>3. \A w \in Workers : execution'[w] # None => claim'[w] # None
    BY <1>1 DEF CountsStand
  <1>4. ASSUME NEW w \in Workers, NEW r \in Rules, NEW k \in Keys, Executing(w, r, k)'
        PROVE  /\ run'[r][k].status = "running" /\ run'[r][k].token = w
               /\ \A v \in Workers, j \in Keys : Executing(v, r, j)' => v = w
               /\ \A q \in Keys : execution'[w].seen[q] <= Len(jobs'[r][q])
               /\ Total(rule'[r].zone, jobs'[r], execution'[w]) + run'[r][k].copies
                    <= rule'[r].form.limit
    <2>1. Executing(w, r, k) /\ execution'[w] # None /\ execution'[w] = execution[w]
      BY <1>2, <1>4
    <2>2. /\ run[r][k].status = "running" /\ run[r][k].token = w
          /\ \A v \in Workers, j \in Keys : Executing(v, r, j) => v = w
          /\ \A q \in Keys : execution[w].seen[q] <= Len(jobs[r][q])
          /\ Total(rule[r].zone, jobs[r], execution[w]) + run[r][k].copies <= rule[r].form.limit
      BY <2>1, <1>1 DEF CountsStand
    <2>3. /\ run'[r][k] = run[r][k] /\ jobs'[r] = jobs[r]
          /\ rule'[r].zone = rule[r].zone /\ rule'[r].form = rule[r].form
      BY <2>1
    <2>4. \A v \in Workers, j \in Keys : Executing(v, r, j)' => v = w
      BY <1>2, <2>2
    <2> QED BY <2>1, <2>2, <2>3, <2>4
  <1> QED BY <1>3, <1>4 DEF CountsStand

(* A process lets go of what it has claimed. *)
LEMMA ClaimLetGo ==
  ASSUME IInv, NEW w \in Workers, claim' = [claim EXCEPT ![w] = None],
         \/ execution[w] = None /\ UNCHANGED execution
         \/ execution' = [execution EXCEPT ![w] = None]
  PROVE  /\ claim' \in [Workers -> (Rules \X Keys) \cup {None}]
         /\ execution' \in [Workers -> Execution \cup {None}]
         /\ \A v \in Workers, q \in Rules, j \in Keys :
              claim'[v] = <<q, j>> => claim[v] = <<q, j>> \/ run'[q][j] # None
         /\ execution'[w] = None
         /\ \A v \in Workers : execution'[v] # None =>
              v # w /\ execution'[v] = execution[v] /\ claim'[v] = claim[v]
  <1>1. /\ claim \in [Workers -> (Rules \X Keys) \cup {None}]
        /\ execution \in [Workers -> Execution \cup {None}]
    BY DEF IInv, TypeOK
  <1> QED BY <1>1, AutomationAssumption

(* An open execution is of a run of a rule that exists. *)
LEMMA ExecutingARun ==
  ASSUME IInv, NEW w \in Workers, NEW r \in Rules, NEW k \in Keys, Executing(w, r, k)
  PROVE  /\ Exists(r) /\ run[r][k] # None /\ run[r][k].status = "running"
         /\ run[r][k].token = w /\ Owns(w, r, k) /\ Locked(r)
         /\ \A v \in Workers, j \in Keys : Executing(v, r, j) => v = w /\ j = k
  <1>1. run[r][k].status = "running" /\ run[r][k].token = w /\ Claims(w, r, k)
    BY DEF IInv, CountsStand, Executing
  <1>2. run[r][k] # None /\ Exists(r)
    BY <1>1 DEF IInv, ClaimsAreOfRuns, JobsAreOfCompleted
  <1>3. \A v \in Workers, j \in Keys : Executing(v, r, j) => v = w /\ j = k
    BY DEF IInv, CountsStand, Executing, Claims
  <1> QED BY <1>1, <1>2, <1>3 DEF Owns, Locked

(* An execution goes on, without a job. *)
LEMMA ChangedRun ==
  ASSUME NoneIsNew, IInv, NEW r \in Rules, NEW k \in Keys, run[r][k] # None,
         NEW value \in Run, value.version = run[r][k].version,
         value.token # None <=> value.status = "running",
         SetRun(r, k, value), UNCHANGED <<log, consumed>>
  PROVE  /\ run' \in [Rules -> [Keys -> Run \cup {None}]]
         /\ \A q \in Rules, j \in Keys :
              run'[q][j] # None => (run'[q][j].token # None <=> run'[q][j].status = "running")
         /\ run'[r][k] = value
         /\ \A q \in Rules, j \in Keys : run[q][j] # None => run'[q][j] # None
         /\ \A q \in Rules, j \in Keys : q # r \/ j # k => run'[q][j] = run[q][j]
         /\ EventsAreConsumed' /\ EventsUseTheirConfiguration'
         /\ (value.status = "completed" <=> run[r][k].status = "completed")
              /\ UNCHANGED jobs /\ (\A q \in Rules : Exists(q) => Exists(q)') => JobsAreOfCompleted'
  <1>1. /\ run \in [Rules -> [Keys -> Run \cup {None}]] /\ log \in Seq(Fact)
        /\ \A q \in Rules, j \in Keys :
              run[q][j] # None => (run[q][j].token # None <=> run[q][j].status = "running")
        /\ EventsAreConsumed /\ EventsUseTheirConfiguration /\ JobsAreOfCompleted
    BY DEF IInv, TypeOK
  <1>2. value # None
    BY DEF NoneIsNew
  <1>3. /\ run'[r][k] = value
        /\ \A q \in Rules, j \in Keys : q # r \/ j # k => run'[q][j] = run[q][j]
    BY <1>1 DEF SetRun
  <1>4. run' \in [Rules -> [Keys -> Run \cup {None}]]
    BY <1>1 DEF SetRun
  <1>5. \A q \in Rules, j \in Keys :
          run'[q][j] # None => (run'[q][j].token # None <=> run'[q][j].status = "running")
    BY <1>1, <1>3
  <1>6. EventsAreConsumed'
    BY <1>1, <1>3 DEF EventsAreConsumed, Keys
  <1>7. EventsUseTheirConfiguration'
    <2>1. \A n \in DOMAIN log : log[n] \in Fact
      BY <1>1
    <2>2. \A n \in DOMAIN log : log[n].event \in Keys
      BY <2>1 DEF Fact, Keys
    <2> QED BY <2>2, <1>1, <1>3 DEF EventsUseTheirConfiguration
  <1>8. ASSUME value.status = "completed" <=> run[r][k].status = "completed", UNCHANGED jobs,
               \A q \in Rules : Exists(q) => Exists(q)'
        PROVE  JobsAreOfCompleted'
    <2> SUFFICES ASSUME NEW q \in Rules, NEW j \in Keys
                 PROVE  /\ run'[q][j] # None => Exists(q)'
                        /\ jobs[q][j] # << >> <=> run'[q][j] # None /\ run'[q][j].status = "completed"
                        /\ \A n \in DOMAIN jobs[q][j] : jobs[q][j][n].reprint <=> n # 1
      BY <1>8 DEF JobsAreOfCompleted
    <2>1. /\ run[q][j] # None => Exists(q)
          /\ jobs[q][j] # << >> <=> run[q][j] # None /\ run[q][j].status = "completed"
          /\ \A n \in DOMAIN jobs[q][j] : jobs[q][j][n].reprint <=> n # 1
      BY <1>1 DEF JobsAreOfCompleted
    <2>2. CASE q = r /\ j = k
      BY <2>1, <2>2, <1>2, <1>3, <1>8
    <2>3. CASE ~(q = r /\ j = k)
      BY <2>1, <2>3, <1>3, <1>8
    <2> QED BY <2>2, <2>3
  <1> QED BY <1>2, <1>3, <1>4, <1>5, <1>6, <1>7, <1>8

(* What a step of a rule leaves alone. *)
LEMMA UnchangedRuns ==
  ASSUME IInv, rule' \in [Rules -> Rule \cup {None}],
         \A q \in Rules : Exists(q) => Exists(q)',
         \A q \in Rules : Locked(q) => rule'[q].zone = rule[q].zone /\ rule'[q].form = rule[q].form,
         UNCHANGED <<clock, timezone, run, jobs, log, consumed, claim, execution, screen>>
  PROVE  /\ TypeOK' /\ JobsAreOfCompleted' /\ EventsAreConsumed'
         /\ EventsUseTheirConfiguration' /\ ClaimsAreOfRuns' /\ CountsStand'
  <1>1. TypeOK'
    BY DEF IInv, TypeOK
  <1>2. JobsAreOfCompleted'
    BY DEF IInv, JobsAreOfCompleted
  <1>3. EventsAreConsumed' /\ EventsUseTheirConfiguration'
    BY DEF IInv, EventsAreConsumed, EventsUseTheirConfiguration
  <1>4. ClaimsAreOfRuns'
    BY KeptClaims
  <1>5. CountsStand'
    BY StandingCounts, ExecutingARun
  <1> QED BY <1>1, <1>2, <1>3, <1>4, <1>5

(* The record of an occurrence that is new. *)
Pending(r) == [status |-> "pending", copies |-> rule[r].form.copies,
               version |-> rule[r].version, token |-> None]

LEMMA PendingIsARun == ASSUME IInv, NEW r \in Rules, Exists(r) PROVE Pending(r) \in Run
  <1>1. rule[r] \in Rule
    BY DEF IInv, TypeOK, Exists
  <1>2. rule[r].form \in Forms /\ rule[r].version \in Nat
    BY <1>1 DEF Rule
  <1>3. rule[r].form.copies \in Nat
    BY <1>2, AutomationAssumption
  <1> QED BY <1>2, <1>3 DEF Pending, Run

(* Occurrences become executions of rules that exist, with the version they have. *)
LEMMA NewRuns ==
  ASSUME NoneIsNew, IInv, run' \in [Rules -> [Keys -> Run \cup {None}]],
         \A q \in Rules, j \in Keys :
           \/ run'[q][j] = run[q][j]
           \/ run[q][j] = None /\ Exists(q) /\ run'[q][j] = Pending(q),
         \A q \in Rules : Exists(q) => Exists(q)',
         UNCHANGED jobs
  PROVE  /\ \A q \in Rules, j \in Keys :
              run'[q][j] # None => (run'[q][j].token # None <=> run'[q][j].status = "running")
         /\ JobsAreOfCompleted'
  <1>1. /\ \A q \in Rules, j \in Keys :
              run[q][j] # None => (run[q][j].token # None <=> run[q][j].status = "running")
        /\ JobsAreOfCompleted
    BY DEF IInv, TypeOK
  <1>2. \A q \in Rules, j \in Keys :
          run'[q][j] # None => (run'[q][j].token # None <=> run'[q][j].status = "running")
    <2>1. \A q \in Rules : Pending(q).status = "pending" /\ Pending(q).token = None
      BY DEF Pending
    <2> QED BY <2>1, <1>1
  <1>3. JobsAreOfCompleted'
    <2> SUFFICES ASSUME NEW q \in Rules, NEW j \in Keys
                 PROVE  /\ run'[q][j] # None => Exists(q)'
                        /\ jobs[q][j] # << >> <=> run'[q][j] # None /\ run'[q][j].status = "completed"
                        /\ \A n \in DOMAIN jobs[q][j] : jobs[q][j][n].reprint <=> n # 1
      BY DEF JobsAreOfCompleted
    <2>1. /\ run[q][j] # None => Exists(q)
          /\ jobs[q][j] # << >> <=> run[q][j] # None /\ run[q][j].status = "completed"
          /\ \A n \in DOMAIN jobs[q][j] : jobs[q][j][n].reprint <=> n # 1
      BY <1>1 DEF JobsAreOfCompleted
    <2>2. Pending(q).status = "pending"
      BY DEF Pending
    <2> QED BY <2>1, <2>2
  <1> QED BY <1>2, <1>3

(* Jobs that were not known do not change what is counted. *)
LEMMA SameTotal ==
  ASSUME NEW zone, NEW lists, NEW news, NEW e,
         \A q \in Keys :
           /\ Known(zone, news[q], q, e) = Known(zone, lists[q], q, e)
           /\ \A n \in Known(zone, lists[q], q, e) : news[q][n].copies = lists[q][n].copies
  PROVE  Total(zone, news, e) = Total(zone, lists, e)
  <1>1. ASSUME NEW q \in Keys
        PROVE  KnownOf(zone, news[q], q, e) = KnownOf(zone, lists[q], q, e)
    <2> DEFINE K == Known(zone, lists[q], q, e)
    <2>1. Known(zone, news[q], q, e) = K /\ \A n \in K : news[q][n].copies = lists[q][n].copies
      OBVIOUS
    <2> HIDE DEF K
    <2>2. [n \in K |-> news[q][n].copies] = [n \in K |-> lists[q][n].copies]
      BY <2>1
    <2>3. K = Known(zone, lists[q], q, e)
      BY DEF K
    <2> QED BY <2>1, <2>2, <2>3 DEF KnownOf
  <1> HIDE DEF Known
  <1> DEFINE old == [q \in Keys |-> KnownOf(zone, lists[q], q, e)]
             new == [q \in Keys |-> KnownOf(zone, news[q], q, e)]
  <1>2. old = new
    BY <1>1
  <1>3. Total(zone, lists, e) = SumFunction(old) /\ Total(zone, news, e) = SumFunction(new)
    BY DEF Total
  <1> HIDE DEF old, new
  <1> QED BY <1>2, <1>3

LEMMA KnownIsInt ==
  ASSUME NEW zone, NEW list \in Seq(Job), NEW q, NEW e
  PROVE  KnownOf(zone, list, q, e) \in Int
  <1> DEFINE D == Known(zone, list, q, e)
             copies == [n \in D |-> list[n].copies]
  <1>1. \A n \in D : n \in DOMAIN list
    BY DEF Known
  <1>2. IsFiniteSet(D)
    <2>1. PICK m \in Nat : DOMAIN list = 1..m
      OBVIOUS
    <2>2. IsFiniteSet(1..m)
      BY FS_Interval
    <2>3. D \subseteq 1..m
      BY <1>1, <2>1
    <2> QED BY <2>2, <2>3, FS_Subset
  <1>3. KnownOf(zone, list, q, e) = SumFunctionOnSet(copies, D)
    BY DEF KnownOf, SumFunction
  <1>4. \A n \in D : copies[n] \in Int
    <2>1. \A n \in D : list[n] \in Job
      BY <1>1
    <2> QED BY <2>1 DEF Job
  <1> HIDE DEF D, copies
  <1> QED BY <1>2, <1>3, <1>4, SumIsInt

LEMMA TotalIsInt ==
  ASSUME IInv, NEW r \in Rules, NEW zone, NEW e
  PROVE  Total(zone, jobs[r], e) \in Int
  <1> DEFINE f == [q \in Keys |-> KnownOf(zone, jobs[r][q], q, e)]
  <1>1. \A q \in Keys : jobs[r][q] \in Seq(Job)
    BY DEF IInv, TypeOK
  <1>2. \A q \in Keys : f[q] \in Int
    BY <1>1, KnownIsInt
  <1>3. Total(zone, jobs[r], e) = SumFunctionOnSet(f, Keys)
    BY DEF Total, SumFunction
  <1> HIDE DEF f
  <1> QED BY <1>2, <1>3, AutomationAssumption, SumIsInt

----------------------------------------------------------------------------
(* One lemma per group of steps, for the invariant. *)

(* IsCurrent is all that a save or a pause of a known rule may go by. *)
LEMMA SaveRuleIInv ==
  ASSUME NoneIsNew, IInv, NEW u \in Users, NEW r \in Rules, NEW form \in Forms, SaveRule(u, r, form)
  PROVE  IInv'
  <1> DEFINE new == [form |-> form, zone |-> timezone,
        enabled |-> form.enabled, paused |-> form.paused,
        version |-> IF Exists(r) THEN rule[r].version + 1 ELSE 1,
        failures |-> 0, backoff |-> FALSE,
        next |-> IF form.trigger = "scheduled" /\ form.enabled /\ ~form.paused
                 THEN NextRun(form.schedule, timezone, clock) ELSE None,
        since |-> Len(log)]
  <1>1. TypeOK /\ (Exists(r) => rule[r] \in Rule /\ rule[r].version \in Nat)
    BY DEF IInv, TypeOK, Exists, Rule
  <1>2. new \in Rule
    <2>1. form.enabled \in BOOLEAN /\ form.paused \in BOOLEAN
      BY AutomationAssumption
    <2>2. new.version \in Nat
      BY <1>1
    <2>3. new.next \in Instants \cup {None}
      BY NextRunIsATime
    <2>4. timezone \in Zones /\ Len(log) \in Nat
      BY <1>1 DEF TypeOK
    <2> HIDE DEF NextRun
    <2> QED BY <2>1, <2>2, <2>3, <2>4 DEF Rule
  <1>3. /\ rule' = [rule EXCEPT ![r] = new]
        /\ UNCHANGED <<clock, timezone, run, jobs, log, consumed, claim, execution, screen>>
    BY DEF SaveRule
  <1>4. /\ Exists(r) => new.version = rule[r].version + 1
        /\ new.since = Len(log)
    OBVIOUS
  <1> HIDE DEF new
  <1>5. Exists(r) => /\ rule[r].version <= new.version
                     /\ new.version = rule[r].version => new.paused = rule[r].paused
    BY <1>1, <1>4
  <1>6. /\ rule' \in [Rules -> Rule \cup {None}] /\ \A q \in Rules : Exists(q) => Exists(q)'
        /\ ActiveSinceIsUnchanged' /\ ScreensAreOfThePast'
    BY <1>2, <1>3, <1>4, <1>5, ChangedRule
  <1>7. \A q \in Rules : Locked(q) => q # r
    BY ExecutingARun DEF SaveRule, Locked
  <1>8. \A q \in Rules : q # r => rule'[q] = rule[q]
    BY <1>1, <1>3 DEF TypeOK
  <1> QED BY <1>3, <1>6, <1>7, <1>8, UnchangedRuns DEF IInv

LEMMA PauseIInv ==
  ASSUME NoneIsNew, IInv, NEW u \in Users, NEW r \in Rules, NEW paused \in BOOLEAN,
         Pause(u, r, paused)
  PROVE  IInv'
  <1> DEFINE next == IF ~paused /\ rule[r].enabled /\ rule[r].form.trigger = "scheduled"
                     THEN NextRun(rule[r].form.schedule, rule[r].zone, clock) ELSE None
             failures == IF paused THEN rule[r].failures ELSE 0
             backoff == paused /\ rule[r].backoff
             new == [rule[r] EXCEPT !.paused = paused, !.version = rule[r].version + 1,
                                    !.failures = failures, !.backoff = backoff, !.next = next,
                                    !.since = Len(log)]
  <1>1. rule[r] \in Rule /\ log \in Seq(Fact)
    BY DEF IInv, TypeOK, Pause, IsCurrent, Exists
  <1>2. /\ rule' = [rule EXCEPT ![r] = new] /\ Exists(r)
        /\ UNCHANGED <<clock, timezone, run, jobs, log, consumed, claim, execution, screen>>
    BY DEF Pause, IsCurrent
  <1>3. next \in Instants \cup {None}
    BY NextRunIsATime
  <1>4. failures \in Nat /\ backoff \in BOOLEAN /\ rule[r].version + 1 \in Nat /\ Len(log) \in Nat
    BY <1>1 DEF Rule
  <1> HIDE DEF next, failures, backoff
  <1>5. new \in Rule
    BY <1>1, <1>3, <1>4 DEF Rule
  <1>6. new.version = rule[r].version + 1 /\ new.since = Len(log)
    BY <1>1 DEF Rule
  <1>7. rule[r].version \in Nat
    BY <1>1 DEF Rule
  <1> HIDE DEF new
  <1>8. Exists(r) => /\ rule[r].version <= new.version
                     /\ new.version = rule[r].version => new.paused = rule[r].paused
    BY <1>6, <1>7
  <1>9. /\ rule' \in [Rules -> Rule \cup {None}] /\ \A q \in Rules : Exists(q) => Exists(q)'
        /\ ActiveSinceIsUnchanged' /\ ScreensAreOfThePast'
    BY <1>2, <1>5, <1>6, <1>8, ChangedRule
  <1>10. ~Locked(r) /\ \A q \in Rules : q # r => rule'[q] = rule[q]
    BY <1>2 DEF Pause, IInv, TypeOK
  <1> QED BY <1>2, <1>9, <1>10, UnchangedRuns DEF IInv

LEMMA BackoffEndsIInv ==
  ASSUME NoneIsNew, IInv, NEW r \in Rules, BackoffEnds(r)
  PROVE  IInv'
  <1> DEFINE new == [rule[r] EXCEPT !.backoff = FALSE]
  <1>1. rule[r] \in Rule
    BY DEF IInv, TypeOK, BackoffEnds, Exists
  <1>2. /\ rule' = [rule EXCEPT ![r] = new] /\ Exists(r)
        /\ UNCHANGED <<clock, timezone, run, jobs, log, consumed, claim, execution, screen>>
    BY DEF BackoffEnds
  <1>3. new \in Rule
    BY <1>1 DEF Rule
  <1>4. /\ new.version = rule[r].version /\ new.since = rule[r].since
        /\ new.paused = rule[r].paused /\ new.enabled = rule[r].enabled
        /\ rule[r].version \in Nat /\ new.zone = rule[r].zone /\ new.form = rule[r].form
    BY <1>1 DEF Rule
  <1> HIDE DEF new
  <1>5. Exists(r) => /\ rule[r].version <= new.version
                     /\ new.version = rule[r].version => new.paused = rule[r].paused
    BY <1>4
  <1>6. new.enabled /\ ~new.paused => Active(r) /\ new.version = rule[r].version
    BY <1>2, <1>4 DEF Active
  <1>7. /\ rule' \in [Rules -> Rule \cup {None}] /\ \A q \in Rules : Exists(q) => Exists(q)'
        /\ ActiveSinceIsUnchanged' /\ ScreensAreOfThePast'
    BY <1>2, <1>3, <1>4, <1>5, <1>6, ChangedRule
  <1>8. \A q \in Rules : rule'[q].zone = rule[q].zone /\ rule'[q].form = rule[q].form
    BY <1>2, <1>4 DEF IInv, TypeOK
  <1> QED BY <1>2, <1>7, <1>8, UnchangedRuns DEF IInv

(* What a step leaves alone that changes no rule. *)
LEMMA UnchangedRules ==
  ASSUME IInv, UNCHANGED <<rule, log, screen>>
  PROVE  /\ ActiveSinceIsUnchanged' /\ ScreensAreOfThePast'
         /\ rule' \in [Rules -> Rule \cup {None}] /\ \A q \in Rules : Exists(q) => Exists(q)'
  <1>1. ActiveSinceIsUnchanged' /\ ScreensAreOfThePast'
    BY DEF IInv, ActiveSinceIsUnchanged, ScreensAreOfThePast, Active, Exists
  <1> QED BY <1>1 DEF IInv, TypeOK, Exists

LEMMA RetryIInv ==
  ASSUME NoneIsNew, IInv, NEW r \in Rules, NEW k \in Keys, Retry(r, k)
  PROVE  IInv'
  <1> DEFINE value == [run[r][k] EXCEPT !.status = "pending"]
  <1>1. /\ run[r][k] # None /\ run[r][k].status = "failed" /\ SetRun(r, k, value)
        /\ UNCHANGED <<clock, timezone, rule, jobs, log, consumed, claim, execution, screen>>
    BY DEF Retry
  <1>2. run[r][k] \in Run /\ (run[r][k].token # None <=> run[r][k].status = "running")
    BY <1>1 DEF IInv, TypeOK
  <1>3. value \in Run
    BY <1>2 DEF Run
  <1>4. /\ value.version = run[r][k].version /\ value.token = run[r][k].token
        /\ value.status = "pending"
    BY <1>2 DEF Run
  <1> HIDE DEF value
  <1>5. value.token # None <=> value.status = "running"
    BY <1>1, <1>2, <1>4
  <1>6. value.status = "completed" <=> run[r][k].status = "completed"
    BY <1>1, <1>4
  <1>7. \A w \in Workers, q \in Rules, j \in Keys : Executing(w, q, j) => run'[q][j] = run[q][j]
    BY <1>1, <1>3, <1>4, <1>5, ChangedRun, ExecutingARun
  <1>8. CountsStand'
    BY <1>1, <1>7, StandingCounts
  <1> QED BY <1>1, <1>3, <1>4, <1>5, <1>6, <1>8, ChangedRun, UnchangedRules, KeptClaims
          DEF IInv, TypeOK

LEMMA ClaimIInv ==
  ASSUME NoneIsNew, IInv, NEW w \in Workers, NEW r \in Rules, NEW k \in Keys, Claim(w, r, k)
  PROVE  IInv'
  <1> DEFINE value == [run[r][k] EXCEPT !.status = "running", !.token = w]
  <1>1. /\ run[r][k] # None /\ run[r][k].status # "completed" /\ SetRun(r, k, value)
        /\ claim[w] = None /\ claim' = [claim EXCEPT ![w] = <<r, k>>]
        /\ \A v \in Workers : ~Executing(v, r, k)
        /\ UNCHANGED <<clock, timezone, rule, jobs, log, consumed, execution, screen>>
    BY DEF Claim, Claimable
  <1>2. run[r][k] \in Run
    BY <1>1 DEF IInv, TypeOK
  <1>3. value \in Run
    BY <1>2 DEF Run
  <1>4. /\ value.version = run[r][k].version /\ value.token = w
        /\ value.status = "running"
    BY <1>2 DEF Run
  <1> HIDE DEF value
  <1>5. value.token # None <=> value.status = "running"
    BY <1>4, AutomationAssumption
  <1>6. value.status = "completed" <=> run[r][k].status = "completed"
    BY <1>1, <1>4
  <1>7. claim' \in [Workers -> (Rules \X Keys) \cup {None}]
    BY <1>1 DEF IInv, TypeOK
  <1>8. /\ run' \in [Rules -> [Keys -> Run \cup {None}]] /\ run'[r][k] # None
        /\ \A q \in Rules, j \in Keys : run[q][j] # None => run'[q][j] # None
    BY <1>1, <1>3, <1>4, <1>5, ChangedRun
  <1>9. ClaimsAreOfRuns'
    <2>1. \A v \in Workers, q \in Rules, j \in Keys :
            claim'[v] = <<q, j>> => claim[v] = <<q, j>> \/ run'[q][j] # None
      BY <1>1, <1>8 DEF IInv, TypeOK
    <2> QED BY <2>1, <1>8, KeptClaims
  <1>10. CountsStand'
    <2>1. execution[w] = None
      BY <1>1 DEF IInv, CountsStand
    <2>2. \A v \in Workers : execution'[v] # None => claim'[v] = claim[v]
      BY <2>1, <1>1 DEF IInv, TypeOK
    <2>3. \A v \in Workers, q \in Rules, j \in Keys : Executing(v, q, j) => run'[q][j] = run[q][j]
      BY <1>1, <1>3, <1>4, <1>5, ChangedRun
    <2> QED BY <2>2, <2>3, <1>1, StandingCounts
  <1> QED BY <1>1, <1>3, <1>4, <1>5, <1>6, <1>7, <1>9, <1>10, ChangedRun, UnchangedRules
          DEF IInv, TypeOK

(* An execution that ends: it has not been decided. *)
LEMMA EndedRun ==
  ASSUME NoneIsNew, IInv, NEW w \in Workers, NEW r \in Rules, NEW k \in Keys, Owns(w, r, k),
         NEW status \in {"pending", "completed", "failed", "skipped"}
  PROVE  /\ run[r][k] # None /\ run[r][k].status = "running" /\ Exists(r) /\ jobs[r][k] = << >>
         /\ run[r][k] \in Run /\ rule[r] \in Rule
         /\ Ended(r, k, status) \in Run
         /\ Ended(r, k, status).status = status
         /\ Ended(r, k, status).version = run[r][k].version
         /\ Ended(r, k, status).token # None <=> Ended(r, k, status).status = "running"
  <1>1. run[r][k] # None /\ run[r][k].status = "running"
    BY DEF Owns, IInv, ClaimsAreOfRuns
  <1>2. run[r][k] \in Run /\ Exists(r) /\ jobs[r][k] = << >>
    BY <1>1 DEF IInv, TypeOK, JobsAreOfCompleted
  <1>3. rule[r] \in Rule
    BY <1>2 DEF IInv, TypeOK, Exists
  <1>4. /\ Ended(r, k, status) \in Run
        /\ Ended(r, k, status).status = status
        /\ Ended(r, k, status).version = run[r][k].version
        /\ Ended(r, k, status).token = None
    BY <1>2 DEF Ended, Run
  <1> QED BY <1>1, <1>2, <1>3, <1>4

(* It is skipped, or given back. *)
LEMMA EndIInv ==
  ASSUME NoneIsNew, IInv, NEW w \in Workers, NEW r \in Rules, NEW k \in Keys,
         Skip(w, r, k) \/ Postpone(w, r, k)
  PROVE  IInv'
  <1>1. PICK status \in {"pending", "skipped"} :
          /\ Owns(w, r, k) /\ ~Locked(r) /\ SetRun(r, k, Ended(r, k, status))
          /\ claim' = [claim EXCEPT ![w] = None]
          /\ UNCHANGED <<clock, timezone, rule, jobs, log, consumed, execution, screen>>
    BY DEF Skip, Postpone
  <1> DEFINE value == Ended(r, k, status)
  <1>2. /\ run[r][k] # None /\ run[r][k].status = "running" /\ value \in Run
        /\ value.version = run[r][k].version
        /\ value.token # None <=> value.status = "running"
        /\ value.status = status
    BY <1>1, EndedRun
  <1>3. SetRun(r, k, value)
    BY <1>1
  <1> HIDE DEF value
  <1>4. value.status = "completed" <=> run[r][k].status = "completed"
    BY <1>2
  <1>6. execution[w] = None
    BY <1>1 DEF Locked, Executing, Owns
  <1>5. /\ claim' \in [Workers -> (Rules \X Keys) \cup {None}]
        /\ \A v \in Workers, q \in Rules, j \in Keys :
             claim'[v] = <<q, j>> => claim[v] = <<q, j>> \/ run'[q][j] # None
    BY <1>1, <1>6, ClaimLetGo
  <1>7. CountsStand'
    <2>1. \A v \in Workers, q \in Rules, j \in Keys : Executing(v, q, j) => run'[q][j] = run[q][j]
      BY <1>1, <1>2, <1>3, ChangedRun DEF Locked
    <2>2. \A v \in Workers : execution'[v] # None =>
            execution'[v] = execution[v] /\ claim'[v] = claim[v]
      BY <1>1, <1>6, ClaimLetGo
    <2> QED BY <2>1, <2>2, <1>1, StandingCounts
  <1> QED BY <1>1, <1>2, <1>3, <1>4, <1>5, <1>7, ChangedRun, UnchangedRules, KeptClaims
          DEF IInv, TypeOK

(* An execution that commits changes its own rule, run and jobs. *)
LEMMA OthersStand ==
  ASSUME IInv, NEW w \in Workers, NEW r \in Rules, NEW k \in Keys, Executing(w, r, k),
         NEW new, rule' = [rule EXCEPT ![r] = new], NEW value, SetRun(r, k, value),
         \A q \in Rules : q # r => jobs'[q] = jobs[q],
         \A v \in Workers : execution'[v] # None =>
           v # w /\ execution'[v] = execution[v] /\ claim'[v] = claim[v]
  PROVE  CountsStand'
  <1>1. \A v \in Workers, q \in Rules, j \in Keys :
          Executing(v, q, j) /\ execution'[v] # None => q # r
    BY ExecutingARun
  <1>2. \A q \in Rules : q # r => rule'[q] = rule[q] /\ run'[q] = run[q]
    BY DEF IInv, TypeOK, SetRun
  <1> QED BY <1>1, <1>2, StandingCounts

LEMMA FailQueueingIInv ==
  ASSUME NoneIsNew, IInv, NEW w \in Workers, NEW r \in Rules, NEW k \in Keys, FailQueueing(w, r, k)
  PROVE  IInv'
  <1> DEFINE value == Ended(r, k, "failed")
             pause == rule[r].failures + 1 >= rule[r].form.threshold
             version == IF pause THEN rule[r].version + 1 ELSE rule[r].version
             paused == rule[r].paused \/ pause
             new == [rule[r] EXCEPT !.failures = rule[r].failures + 1, !.backoff = TRUE,
                                    !.paused = paused, !.version = version]
  <1>1. /\ Executing(w, r, k) /\ SetRun(r, k, value) /\ rule' = [rule EXCEPT ![r] = new]
        /\ claim' = [claim EXCEPT ![w] = None]
        /\ execution' = [execution EXCEPT ![w] = None]
        /\ UNCHANGED <<clock, timezone, jobs, log, consumed, screen>>
    BY DEF FailQueueing, LetGo
  <1>0. Owns(w, r, k)
    BY <1>1, ExecutingARun
  <1>2. /\ run[r][k] # None /\ run[r][k].status = "running" /\ value \in Run
        /\ value.version = run[r][k].version
        /\ value.token # None <=> value.status = "running"
        /\ value.status = "failed" /\ rule[r] \in Rule /\ Exists(r)
    BY <1>0, EndedRun
  <1> HIDE DEF value
  <1>3. value.status = "completed" <=> run[r][k].status = "completed"
    BY <1>2
  <1>4. /\ rule[r].version \in Nat /\ rule[r].failures + 1 \in Nat /\ rule[r].paused \in BOOLEAN
    BY <1>2 DEF Rule
  <1>5. /\ paused \in BOOLEAN /\ version \in Nat /\ rule[r].version <= version
        /\ version = rule[r].version => paused = rule[r].paused
        /\ ~paused => version = rule[r].version /\ ~rule[r].paused
    BY <1>4
  <1> HIDE DEF paused, version
  <1>6. new \in Rule
    BY <1>2, <1>4, <1>5 DEF Rule
  <1>7. /\ new.version = version /\ new.since = rule[r].since
        /\ new.paused = paused /\ new.enabled = rule[r].enabled
    BY <1>2 DEF Rule
  <1> HIDE DEF new
  <1>8. Exists(r) => /\ rule[r].version <= new.version
                     /\ new.version = rule[r].version => new.paused = rule[r].paused
    BY <1>5, <1>7
  <1>9. new.enabled /\ ~new.paused => Active(r) /\ new.version = rule[r].version
    BY <1>2, <1>5, <1>7 DEF Active
  <1>10. /\ rule' \in [Rules -> Rule \cup {None}] /\ \A q \in Rules : Exists(q) => Exists(q)'
         /\ ActiveSinceIsUnchanged' /\ ScreensAreOfThePast'
    BY <1>1, <1>2, <1>6, <1>7, <1>8, <1>9, ChangedRule
  <1>11. /\ claim' \in [Workers -> (Rules \X Keys) \cup {None}]
         /\ execution' \in [Workers -> Execution \cup {None}]
         /\ \A v \in Workers, q \in Rules, j \in Keys :
              claim'[v] = <<q, j>> => claim[v] = <<q, j>> \/ run'[q][j] # None
         /\ \A v \in Workers : execution'[v] # None =>
              v # w /\ execution'[v] = execution[v] /\ claim'[v] = claim[v]
    BY <1>1, ClaimLetGo
  <1>12. /\ run' \in [Rules -> [Keys -> Run \cup {None}]]
         /\ \A q \in Rules, j \in Keys :
              run'[q][j] # None => (run'[q][j].token # None <=> run'[q][j].status = "running")
         /\ \A q \in Rules, j \in Keys : run[q][j] # None => run'[q][j] # None
         /\ EventsAreConsumed' /\ EventsUseTheirConfiguration' /\ JobsAreOfCompleted'
    BY <1>1, <1>2, <1>3, <1>10, ChangedRun
  <1>13. CountsStand'
    BY <1>1, <1>11, OthersStand
  <1> QED BY <1>1, <1>10, <1>11, <1>12, <1>13, KeptClaims DEF IInv, TypeOK

LEMMA QueueJobIInv ==
  ASSUME NoneIsNew, IInv, NEW w \in Workers, NEW r \in Rules, NEW k \in Keys, QueueJob(w, r, k)
  PROVE  IInv'
  <1> DEFINE value == Ended(r, k, "completed")
             new == [rule[r] EXCEPT !.failures = 0, !.backoff = FALSE]
             first == << [copies |-> run[r][k].copies, at |-> execution[w].at, reprint |-> FALSE] >>
  <1>1. /\ Executing(w, r, k) /\ SetRun(r, k, value) /\ rule' = [rule EXCEPT ![r] = new]
        /\ claim' = [claim EXCEPT ![w] = None]
        /\ execution' = [execution EXCEPT ![w] = None]
        /\ UNCHANGED <<clock, timezone, log, consumed, screen>>
    BY DEF QueueJob, LetGo
  <1>0. Owns(w, r, k)
    BY <1>1, ExecutingARun
  <1>2. /\ run[r][k] # None /\ run[r][k].status = "running" /\ value \in Run
        /\ value.version = run[r][k].version
        /\ value.token # None <=> value.status = "running"
        /\ value.status = "completed" /\ rule[r] \in Rule /\ Exists(r)
        /\ run[r][k] \in Run /\ jobs[r][k] = << >>
    BY <1>0, EndedRun
  <1>3. jobs' = [jobs EXCEPT ![r] = [jobs[r] EXCEPT ![k] = first]]
    BY <1>2 DEF QueueJob
  <1> HIDE DEF value
  <1>4. new \in Rule
    BY <1>2 DEF Rule
  <1>5. /\ new.version = rule[r].version /\ new.since = rule[r].since
        /\ new.paused = rule[r].paused /\ new.enabled = rule[r].enabled
        /\ rule[r].version \in Nat
    BY <1>2 DEF Rule
  <1> HIDE DEF new
  <1>6. Exists(r) => /\ rule[r].version <= new.version
                     /\ new.version = rule[r].version => new.paused = rule[r].paused
    BY <1>5
  <1>7. new.enabled /\ ~new.paused => Active(r) /\ new.version = rule[r].version
    BY <1>2, <1>5 DEF Active
  <1>8. /\ rule' \in [Rules -> Rule \cup {None}] /\ \A q \in Rules : Exists(q) => Exists(q)'
        /\ ActiveSinceIsUnchanged' /\ ScreensAreOfThePast'
    BY <1>1, <1>2, <1>4, <1>5, <1>6, <1>7, ChangedRule
  <1>9. /\ claim' \in [Workers -> (Rules \X Keys) \cup {None}]
        /\ execution' \in [Workers -> Execution \cup {None}]
        /\ \A v \in Workers, q \in Rules, j \in Keys :
             claim'[v] = <<q, j>> => claim[v] = <<q, j>> \/ run'[q][j] # None
        /\ \A v \in Workers : execution'[v] # None =>
             v # w /\ execution'[v] = execution[v] /\ claim'[v] = claim[v]
    BY <1>1, ClaimLetGo
  <1>10. /\ run' \in [Rules -> [Keys -> Run \cup {None}]]
         /\ \A q \in Rules, j \in Keys :
              run'[q][j] # None => (run'[q][j].token # None <=> run'[q][j].status = "running")
         /\ run'[r][k] = value
         /\ \A q \in Rules, j \in Keys : q # r \/ j # k => run'[q][j] = run[q][j]
         /\ \A q \in Rules, j \in Keys : run[q][j] # None => run'[q][j] # None
         /\ EventsAreConsumed' /\ EventsUseTheirConfiguration'
    BY <1>1, <1>2, ChangedRun
  <1>11. jobs \in [Rules -> [Keys -> Seq(Job)]] /\ JobsAreOfCompleted
    BY DEF IInv, TypeOK
  <1>12. first \in Seq(Job) /\ first # << >> /\ DOMAIN first = {1} /\ first[1].reprint = FALSE
    <2>0. execution[w].at \in Instants
      BY <1>1 DEF IInv, TypeOK, Executing, Execution
    <2>1. [copies |-> run[r][k].copies, at |-> execution[w].at, reprint |-> FALSE] \in Job
      BY <1>2, <2>0 DEF Job, Run
    <2> QED BY <2>1
  <1> HIDE DEF first
  <1>13. /\ jobs'[r][k] = first
         /\ \A q \in Rules, j \in Keys : q # r \/ j # k => jobs'[q][j] = jobs[q][j]
         /\ jobs' \in [Rules -> [Keys -> Seq(Job)]]
    BY <1>3, <1>11, <1>12
  <1>14. JobsAreOfCompleted'
    <2> SUFFICES ASSUME NEW q \in Rules, NEW j \in Keys
                 PROVE  /\ run'[q][j] # None => Exists(q)'
                        /\ jobs'[q][j] # << >> <=> run'[q][j] # None /\ run'[q][j].status = "completed"
                        /\ \A n \in DOMAIN jobs'[q][j] : jobs'[q][j][n].reprint <=> n # 1
      BY DEF JobsAreOfCompleted
    <2>1. /\ run[q][j] # None => Exists(q)
          /\ jobs[q][j] # << >> <=> run[q][j] # None /\ run[q][j].status = "completed"
          /\ \A n \in DOMAIN jobs[q][j] : jobs[q][j][n].reprint <=> n # 1
      BY <1>11 DEF JobsAreOfCompleted
    <2>2. CASE q = r /\ j = k
      BY <2>1, <2>2, <1>2, <1>8, <1>10, <1>12, <1>13
    <2>3. CASE ~(q = r /\ j = k)
      BY <2>1, <2>3, <1>8, <1>10, <1>13
    <2> QED BY <2>2, <2>3
  <1>15. \A q \in Rules : q # r => jobs'[q] = jobs[q]
    BY <1>3, <1>11
  <1>16. CountsStand'
    BY <1>1, <1>9, <1>15, OthersStand
  <1> QED BY <1>1, <1>8, <1>9, <1>10, <1>13, <1>14, <1>16, KeptClaims DEF IInv, TypeOK

(* A schedule or a test request becomes an execution, unless it is one. *)
LEMMA InsertedRun ==
  ASSUME NoneIsNew, IInv, NEW r \in Rules, NEW k \in Keys, k \notin Events, Exists(r),
         run' = [run EXCEPT ![r] = Inserted(r, k)],
         \A q \in Rules : Exists(q) => Exists(q)',
         UNCHANGED <<log, consumed, jobs>>
  PROVE  /\ run' \in [Rules -> [Keys -> Run \cup {None}]]
         /\ \A q \in Rules, j \in Keys :
              run'[q][j] # None => (run'[q][j].token # None <=> run'[q][j].status = "running")
         /\ \A q \in Rules, j \in Keys : run[q][j] # None => run'[q][j] # None
         /\ EventsAreConsumed' /\ EventsUseTheirConfiguration' /\ JobsAreOfCompleted'
  <1>1. /\ run \in [Rules -> [Keys -> Run \cup {None}]] /\ log \in Seq(Fact)
        /\ EventsAreConsumed /\ EventsUseTheirConfiguration
    BY DEF IInv, TypeOK
  <1>2. Pending(r) \in Run
    BY PendingIsARun
  <1>3. Inserted(r, k) = IF run[r][k] # None THEN run[r] ELSE [run[r] EXCEPT ![k] = Pending(r)]
    BY DEF Inserted, Pending
  <1>4. Inserted(r, k) \in [Keys -> Run \cup {None}]
    BY <1>1, <1>2, <1>3
  <1>5. run' \in [Rules -> [Keys -> Run \cup {None}]]
    BY <1>1, <1>4
  <1>6. \A q \in Rules, j \in Keys :
          \/ run'[q][j] = run[q][j]
          \/ q = r /\ j = k /\ run[q][j] = None /\ run'[q][j] = Pending(q)
    BY <1>1, <1>3
  <1>7. /\ \A q \in Rules, j \in Keys :
              run'[q][j] # None => (run'[q][j].token # None <=> run'[q][j].status = "running")
        /\ JobsAreOfCompleted'
    BY <1>5, <1>6, NewRuns
  <1>8. \A q \in Rules, e \in Events : run'[q][e] = run[q][e]
    BY <1>6 DEF Keys
  <1>9. EventsAreConsumed'
    BY <1>1, <1>8 DEF EventsAreConsumed
  <1>10. \A n \in DOMAIN log : log[n] \in Fact
    BY <1>1
  <1>11. \A n \in DOMAIN log : log[n].event \in Events
    BY <1>10 DEF Fact
  <1>12. EventsUseTheirConfiguration'
    BY <1>1, <1>8, <1>11 DEF EventsUseTheirConfiguration
  <1> QED BY <1>5, <1>6, <1>7, <1>9, <1>12

LEMMA TestRunIInv ==
  ASSUME NoneIsNew, IInv, NEW r \in Rules, NEW k \in Tests, TestRun(r, k)
  PROVE  IInv'
  <1>1. k \in Keys /\ k \notin Events
    BY AutomationAssumption DEF Keys
  <1>2. /\ Exists(r) /\ run' = [run EXCEPT ![r] = Inserted(r, k)]
        /\ UNCHANGED <<clock, timezone, rule, jobs, log, consumed, claim, execution, screen>>
    BY DEF TestRun
  <1>3. ActiveSinceIsUnchanged' /\ ScreensAreOfThePast' /\ \A q \in Rules : Exists(q) => Exists(q)'
    BY <1>2, UnchangedRules
  <1>4. /\ run' \in [Rules -> [Keys -> Run \cup {None}]]
        /\ \A q \in Rules, j \in Keys :
             run'[q][j] # None => (run'[q][j].token # None <=> run'[q][j].status = "running")
        /\ \A q \in Rules, j \in Keys : run[q][j] # None => run'[q][j] # None
        /\ EventsAreConsumed' /\ EventsUseTheirConfiguration' /\ JobsAreOfCompleted'
    BY <1>1, <1>2, <1>3, InsertedRun
  <1>5. ClaimsAreOfRuns'
    BY <1>2, <1>4, KeptClaims
  <1>6. \A q \in Rules, j \in Keys : run[q][j] # None => run'[q][j] = run[q][j]
    BY <1>1, <1>2 DEF Inserted, IInv, TypeOK
  <1>7. CountsStand'
    BY <1>2, <1>6, StandingCounts, ExecutingARun
  <1> QED BY <1>2, <1>3, <1>4, <1>5, <1>7 DEF IInv, TypeOK

LEMMA MaterializeScheduleIInv ==
  ASSUME NoneIsNew, IInv, NEW r \in Rules, MaterializeSchedule(r)
  PROVE  IInv'
  <1> DEFINE k == Wall[rule[r].zone][rule[r].next]
             next == NextRun(rule[r].form.schedule, rule[r].zone, rule[r].next)
             new == [rule[r] EXCEPT !.next = next]
  <1>1. /\ Exists(r) /\ Active(r) /\ rule[r].next # None
        /\ run' = [run EXCEPT ![r] = Inserted(r, k)] /\ rule' = [rule EXCEPT ![r] = new]
        /\ UNCHANGED <<clock, timezone, jobs, log, consumed, claim, execution, screen>>
    BY DEF MaterializeSchedule, Due, Active
  <1>2. rule[r] \in Rule
    BY <1>1 DEF IInv, TypeOK, Exists
  <1>3. rule[r].zone \in Zones /\ rule[r].next \in Instants
    BY <1>1, <1>2 DEF Rule
  <1>4. k \in Walls
    BY <1>3, AutomationAssumption
  <1>5. k \in Keys /\ k \notin Events
    BY <1>4, AutomationAssumption DEF Keys
  <1>6. next \in Instants \cup {None}
    BY NextRunIsATime
  <1> HIDE DEF k, next
  <1>7. new \in Rule
    BY <1>2, <1>6 DEF Rule
  <1>8. /\ new.version = rule[r].version /\ new.since = rule[r].since
        /\ new.paused = rule[r].paused /\ new.enabled = rule[r].enabled
        /\ rule[r].version \in Nat
    BY <1>2 DEF Rule
  <1> HIDE DEF new
  <1>9. Exists(r) => /\ rule[r].version <= new.version
                     /\ new.version = rule[r].version => new.paused = rule[r].paused
    BY <1>8
  <1>10. /\ rule' \in [Rules -> Rule \cup {None}] /\ \A q \in Rules : Exists(q) => Exists(q)'
         /\ ActiveSinceIsUnchanged' /\ ScreensAreOfThePast'
    BY <1>1, <1>7, <1>8, <1>9, ChangedRule
  <1>11. /\ run' \in [Rules -> [Keys -> Run \cup {None}]]
         /\ \A q \in Rules, j \in Keys :
              run'[q][j] # None => (run'[q][j].token # None <=> run'[q][j].status = "running")
         /\ \A q \in Rules, j \in Keys : run[q][j] # None => run'[q][j] # None
         /\ EventsAreConsumed' /\ EventsUseTheirConfiguration' /\ JobsAreOfCompleted'
    BY <1>1, <1>5, <1>10, InsertedRun
  <1>12. ClaimsAreOfRuns'
    BY <1>1, <1>11, KeptClaims
  <1>13. \A q \in Rules, j \in Keys : run[q][j] # None => run'[q][j] = run[q][j]
    BY <1>1, <1>5 DEF Inserted, IInv, TypeOK
  <1>14. ~Locked(r) /\ \A q \in Rules : q # r => rule'[q] = rule[q]
    BY <1>1 DEF MaterializeSchedule, IInv, TypeOK
  <1>15. CountsStand'
    BY <1>1, <1>13, <1>14, StandingCounts, ExecutingARun
  <1> QED BY <1>1, <1>10, <1>11, <1>12, <1>15 DEF IInv, TypeOK

(* The rules that match an event print what they said when it occurred. *)
LEMMA MaterializeEventIInv ==
  ASSUME NoneIsNew, IInv, MaterializeEvent
  PROVE  IInv'
  <1> DEFINE n == consumed + 1
             e == log[n].event
  <1>1. /\ n \in DOMAIN log /\ consumed' = n
        /\ run' = [r \in Rules |-> IF Matches(r, n) THEN Inserted(r, e) ELSE run[r]]
        /\ UNCHANGED <<clock, timezone, rule, jobs, log, claim, execution, screen>>
    BY DEF MaterializeEvent
  <1>2. /\ run \in [Rules -> [Keys -> Run \cup {None}]] /\ log \in Seq(Fact)
        /\ consumed \in 0..Len(log) /\ ActiveSinceIsUnchanged
        /\ EventsAreConsumed /\ EventsUseTheirConfiguration
    BY DEF IInv, TypeOK
  <1>3. \A m \in DOMAIN log : log[m] \in Fact
    BY <1>2
  <1>4. \A m \in DOMAIN log : log[m].event \in Events
    BY <1>3 DEF Fact
  <1>5. e \in Events /\ e \in Keys /\ n \in Nat /\ consumed \in Nat /\ n \in 1..Len(log)
    BY <1>1, <1>2, <1>4 DEF Keys
  <1> HIDE DEF e
  <1>6. \A r \in Rules : Matches(r, n) => Active(r) /\ Exists(r) /\ rule[r].since < n
    BY DEF Matches, Active
  <1>7. \A r \in Rules : Exists(r) => Pending(r) \in Run
    BY PendingIsARun
  <1>8. \A r \in Rules :
          Inserted(r, e) = IF run[r][e] # None THEN run[r] ELSE [run[r] EXCEPT ![e] = Pending(r)]
    BY DEF Inserted, Pending
  <1>9. run' \in [Rules -> [Keys -> Run \cup {None}]]
    <2>1. \A r \in Rules : Matches(r, n) => Inserted(r, e) \in [Keys -> Run \cup {None}]
      BY <1>2, <1>5, <1>6, <1>7, <1>8
    <2> QED BY <1>1, <1>2, <2>1
  <1>10. \A q \in Rules, j \in Keys :
           \/ run'[q][j] = run[q][j]
           \/ j = e /\ Matches(q, n) /\ run[q][j] = None /\ run'[q][j] = Pending(q)
    BY <1>1, <1>2, <1>5, <1>8
  <1>11. ActiveSinceIsUnchanged' /\ ScreensAreOfThePast' /\ \A q \in Rules : Exists(q) => Exists(q)'
    BY <1>1, UnchangedRules
  <1>12. /\ \A q \in Rules, j \in Keys :
              run'[q][j] # None => (run'[q][j].token # None <=> run'[q][j].status = "running")
         /\ JobsAreOfCompleted'
    BY <1>1, <1>6, <1>9, <1>10, <1>11, NewRuns
  <1>13. EventsAreConsumed'
    <2> SUFFICES ASSUME NEW r \in Rules, NEW f \in Events, run'[r][f] # None
                 PROVE  \E m \in 1..n : log[m].event = f
      BY <1>1, <1>2 DEF EventsAreConsumed
    <2>1. CASE run'[r][f] = run[r][f]
      <3>1. PICK m \in 1..consumed : log[m].event = f
        BY <2>1, <1>2 DEF EventsAreConsumed
      <3>2. m \in 1..n
        BY <1>5
      <3> QED BY <3>1, <3>2
    <2>2. CASE f = e
      <3>1. n \in 1..n /\ log[n].event = f
        BY <2>2, <1>5 DEF e
      <3> QED BY <3>1
    <2> QED BY <2>1, <2>2, <1>10 DEF Keys
  <1>14. EventsUseTheirConfiguration'
    <2> SUFFICES ASSUME NEW r \in Rules, NEW m \in DOMAIN log, run'[r][log[m].event] # None
                 PROVE  run'[r][log[m].event].version = log[m].versions[r]
      BY <1>1 DEF EventsUseTheirConfiguration
    <2>1. log[m].event \in Keys
      BY <1>4 DEF Keys
    <2>2. CASE run'[r][log[m].event] = run[r][log[m].event]
      BY <2>2, <1>2 DEF EventsUseTheirConfiguration
    <2>3. CASE /\ log[m].event = e /\ Matches(r, n)
               /\ run'[r][log[m].event] = Pending(r)
      <3>1. m = n
        BY <2>3, <1>1, <1>2 DEF EventsAreConsumed, e
      <3>2. log[n].versions[r] = rule[r].version
        BY <2>3, <1>1, <1>2, <1>6 DEF ActiveSinceIsUnchanged
      <3>3. Pending(r).version = rule[r].version
        BY DEF Pending
      <3> QED BY <2>3, <3>1, <3>2, <3>3
    <2> QED BY <2>1, <2>2, <2>3, <1>10
  <1>15. ClaimsAreOfRuns'
    <2>1. \A q \in Rules, j \in Keys : run[q][j] # None => run'[q][j] # None
      BY <1>10
    <2> QED BY <2>1, <1>1, KeptClaims
  <1>16. consumed' \in 0..Len(log)'
    BY <1>1, <1>5
  <1>17. CountsStand'
    <2>1. \A q \in Rules, j \in Keys : run[q][j] # None => run'[q][j] = run[q][j]
      BY <1>10
    <2> QED BY <2>1, <1>1, StandingCounts, ExecutingARun
  <1> QED BY <1>1, <1>9, <1>11, <1>12, <1>13, <1>14, <1>15, <1>16, <1>17 DEF IInv, TypeOK

(* Paper is tried again: the list of jobs grows, it does not begin. *)
LEMMA ReprintIInv ==
  ASSUME NoneIsNew, IInv, NEW r \in Rules, NEW k \in Keys, Reprint(r, k)
  PROVE  IInv'
  <1> DEFINE job == [copies |-> jobs[r][k][1].copies, at |-> clock, reprint |-> TRUE]
             seq == Append(jobs[r][k], job)
  <1>1. /\ jobs[r][k] # << >> /\ jobs' = [jobs EXCEPT ![r] = [jobs[r] EXCEPT ![k] = seq]]
        /\ UNCHANGED <<clock, timezone, rule, run, log, consumed, claim, execution, screen>>
    BY DEF Reprint
  <1>2. jobs \in [Rules -> [Keys -> Seq(Job)]] /\ JobsAreOfCompleted /\ clock \in Instants
    BY DEF IInv, TypeOK
  <1>3. jobs[r][k] \in Seq(Job) /\ Len(jobs[r][k]) \in Nat \ {0} /\ 1 \in DOMAIN jobs[r][k]
    BY <1>1, <1>2
  <1>4. job \in Job
    <2>1. jobs[r][k][1] \in Job
      BY <1>3
    <2> QED BY <2>1, <1>2 DEF Job
  <1>5. job.reprint = TRUE
    OBVIOUS
  <1> HIDE DEF job
  <1>6. /\ seq \in Seq(Job) /\ seq # << >> /\ Len(seq) = Len(jobs[r][k]) + 1
        /\ DOMAIN seq = 1..Len(seq)
        /\ \A n \in DOMAIN jobs[r][k] : seq[n] = jobs[r][k][n]
        /\ seq[Len(seq)] = job
    BY <1>3, <1>4
  <1> HIDE DEF seq
  <1>7. /\ jobs'[r][k] = seq
        /\ \A q \in Rules, j \in Keys : q # r \/ j # k => jobs'[q][j] = jobs[q][j]
        /\ jobs' \in [Rules -> [Keys -> Seq(Job)]]
    BY <1>1, <1>2, <1>6
  <1>8. \A n \in DOMAIN seq : seq[n].reprint <=> n # 1
    <2> SUFFICES ASSUME NEW n \in DOMAIN seq PROVE seq[n].reprint <=> n # 1
      OBVIOUS
    <2>1. CASE n = Len(seq)
      BY <2>1, <1>3, <1>5, <1>6
    <2>2. CASE n # Len(seq)
      <3>1. n \in DOMAIN jobs[r][k]
        BY <2>2, <1>3, <1>6
      <3> QED BY <3>1, <1>2, <1>6 DEF JobsAreOfCompleted
    <2> QED BY <2>1, <2>2
  <1>9. JobsAreOfCompleted'
    <2> SUFFICES ASSUME NEW q \in Rules, NEW j \in Keys
                 PROVE  /\ run[q][j] # None => Exists(q)
                        /\ jobs'[q][j] # << >> <=> run[q][j] # None /\ run[q][j].status = "completed"
                        /\ \A n \in DOMAIN jobs'[q][j] : jobs'[q][j][n].reprint <=> n # 1
      BY <1>1 DEF JobsAreOfCompleted, Exists
    <2>1. /\ run[q][j] # None => Exists(q)
          /\ jobs[q][j] # << >> <=> run[q][j] # None /\ run[q][j].status = "completed"
          /\ \A n \in DOMAIN jobs[q][j] : jobs[q][j][n].reprint <=> n # 1
      BY <1>2 DEF JobsAreOfCompleted
    <2>2. CASE q = r /\ j = k
      BY <2>1, <2>2, <1>1, <1>6, <1>7, <1>8
    <2>3. CASE ~(q = r /\ j = k)
      BY <2>1, <2>3, <1>7
    <2> QED BY <2>2, <2>3
  <1>10. ActiveSinceIsUnchanged' /\ ScreensAreOfThePast'
    BY <1>1, UnchangedRules
  <1>11. EventsAreConsumed' /\ EventsUseTheirConfiguration' /\ ClaimsAreOfRuns'
    BY <1>1, KeptClaims DEF IInv, EventsAreConsumed, EventsUseTheirConfiguration
  <1>12. ASSUME NEW w \in Workers, NEW q \in Rules, NEW j \in Keys, Executing(w, q, j)
         PROVE  /\ \A x \in Keys : execution[w].seen[x] <= Len(jobs'[q][x])
                /\ Total(rule[q].zone, jobs'[q], execution[w])
                     = Total(rule[q].zone, jobs[q], execution[w])
    <2> DEFINE e == execution[w]  zone == rule[q].zone
    <2>1. /\ e.seen \in [Keys -> Nat] /\ \A x \in Keys : e.seen[x] <= Len(jobs[q][x])
      BY <1>12 DEF IInv, TypeOK, CountsStand, Executing, Execution
    <2>2. CASE q # r
      <3>1. jobs'[q] = jobs[q]
        BY <2>2, <1>1, <1>2
      <3> QED BY <2>1, <3>1
    <2>3. CASE q = r
      <3>1. \A x \in Keys : e.seen[x] <= Len(jobs'[q][x])
        <4> TAKE x \in Keys
        <4>1. CASE x = k
          BY <4>1, <2>1, <2>3, <1>3, <1>6, <1>7
        <4>2. CASE x # k
          BY <4>2, <2>1, <2>3, <1>7
        <4> QED BY <4>1, <4>2
      <3>2. Known(zone, seq, k, e) = Known(zone, jobs[r][k], k, e)
        <4>1. \A n \in DOMAIN seq : n \in DOMAIN jobs[r][k] \/ (n = Len(seq) /\ n \notin DOMAIN jobs[r][k])
          BY <1>3, <1>6
        <4>2. DOMAIN jobs[r][k] \subseteq DOMAIN seq
          BY <1>3, <1>6
        <4>3. ~(Len(seq) <= e.seen[k]) /\ seq[Len(seq)].reprint
          BY <2>1, <2>3, <1>3, <1>5, <1>6
        <4> HIDE DEF e, zone
        <4> QED BY <4>1, <4>2, <4>3, <1>6 DEF Known
      <3>3. \A n \in Known(zone, jobs[r][k], k, e) : seq[n].copies = jobs[r][k][n].copies
        BY <1>6 DEF Known
      <3>4. \A x \in Keys :
              /\ Known(zone, jobs'[r][x], x, e) = Known(zone, jobs[r][x], x, e)
              /\ \A n \in Known(zone, jobs[r][x], x, e) : jobs'[r][x][n].copies = jobs[r][x][n].copies
        <4> TAKE x \in Keys
        <4> HIDE DEF e, zone
        <4>1. CASE x = k
          BY <4>1, <3>2, <3>3, <1>7
        <4>2. CASE x # k
          BY <4>2, <1>7
        <4> QED BY <4>1, <4>2
      <3> HIDE DEF e, zone
      <3>5. Total(zone, jobs'[r], e) = Total(zone, jobs[r], e)
        BY <3>4, SameTotal
      <3> QED BY <2>3, <3>1, <3>5 DEF e, zone
    <2> QED BY <2>2, <2>3
  <1>13. CountsStand'
    <2>1. \A w \in Workers, q \in Rules, j \in Keys : Executing(w, q, j)' <=> Executing(w, q, j)
      BY <1>1 DEF Executing, Claims
    <2>2. CountsStand
      BY DEF IInv
    <2>3. ASSUME NEW w \in Workers, NEW q \in Rules, NEW j \in Keys, Executing(w, q, j)
          PROVE  /\ run[q][j].status = "running" /\ run[q][j].token = w
                 /\ \A v \in Workers, x \in Keys : Executing(v, q, x) => v = w
                 /\ \A x \in Keys : execution[w].seen[x] <= Len(jobs'[q][x])
                 /\ Total(rule[q].zone, jobs'[q], execution[w]) + run[q][j].copies
                      <= rule[q].form.limit
      BY <2>2, <2>3, <1>12 DEF CountsStand
    <2> QED BY <2>1, <2>2, <2>3, <1>1 DEF CountsStand
  <1> QED BY <1>1, <1>7, <1>9, <1>10, <1>11, <1>13 DEF IInv, TypeOK

LEMMA OccurIInv ==
  ASSUME NoneIsNew, IInv, NEW e \in Events, Occur(e)
  PROVE  IInv'
  <1> DEFINE versions == [r \in Rules |-> IF Exists(r) THEN rule[r].version ELSE 0]
             fact == [event |-> e, versions |-> versions]
  <1>1. /\ log' = Append(log, fact) /\ \A n \in DOMAIN log : log[n].event # e
        /\ UNCHANGED <<clock, timezone, rule, run, jobs, consumed, claim, execution, screen>>
    BY DEF Occur
  <1>2. /\ rule \in [Rules -> Rule \cup {None}] /\ log \in Seq(Fact)
        /\ consumed \in 0..Len(log) /\ ActiveSinceIsUnchanged
        /\ EventsAreConsumed /\ EventsUseTheirConfiguration
    BY DEF IInv, TypeOK
  <1>3. \A r \in Rules : Exists(r) => rule[r].version \in Nat /\ rule[r].since \in Nat
    BY <1>2 DEF Exists, Rule
  <1>4. versions \in [Rules -> Nat] /\ \A r \in Rules : Exists(r) => versions[r] = rule[r].version
    BY <1>3
  <1> HIDE DEF versions
  <1>5. fact \in Fact /\ fact.event = e /\ fact.versions = versions
    BY <1>4 DEF Fact
  <1> HIDE DEF fact
  <1>6. /\ log' \in Seq(Fact) /\ Len(log') = Len(log) + 1 /\ DOMAIN log' = 1..Len(log')
        /\ DOMAIN log = 1..Len(log) /\ Len(log) \in Nat /\ log'[Len(log')] = fact
        /\ \A n \in DOMAIN log : log'[n] = log[n]
    BY <1>1, <1>2, <1>5
  <1>7. \A n \in DOMAIN log' : n \in DOMAIN log \/ n = Len(log')
    BY <1>6
  <1>8. consumed' \in 0..Len(log') /\ \A n \in 1..consumed : n \in DOMAIN log
    BY <1>1, <1>2, <1>6
  <1>9. ActiveSinceIsUnchanged'
    BY <1>1, <1>2, <1>4, <1>5, <1>6, <1>7 DEF ActiveSinceIsUnchanged, Active, Exists
  <1>10. EventsAreConsumed'
    BY <1>1, <1>2, <1>5, <1>6, <1>7, <1>8 DEF EventsAreConsumed
  <1>11. \A r \in Rules : run[r][e] = None
    BY <1>1, <1>2, <1>8 DEF EventsAreConsumed
  <1>12. EventsUseTheirConfiguration'
    BY <1>1, <1>2, <1>5, <1>6, <1>7, <1>11 DEF EventsUseTheirConfiguration
  <1>13. JobsAreOfCompleted' /\ ClaimsAreOfRuns' /\ ScreensAreOfThePast'
    BY <1>1, KeptClaims DEF IInv, JobsAreOfCompleted, ScreensAreOfThePast, Exists
  <1>14. CountsStand'
    BY <1>1, StandingCounts
  <1> QED BY <1>1, <1>6, <1>8, <1>9, <1>10, <1>12, <1>13, <1>14 DEF IInv, TypeOK

(* Somebody looks, a process lets go, time passes, the company moves. *)
LEMMA OtherIInv ==
  ASSUME NoneIsNew, IInv,
         \/ \E u \in Users, r \in Rules : Look(u, r)
         \/ \E w \in Workers : Drop(w)
         \/ \E zone \in Zones : SetTimezone(zone)
         \/ Advance
  PROVE  IInv'
  <1>1. UNCHANGED <<rule, run, jobs, log, consumed>>
    BY DEF Look, Drop, SetTimezone, Advance
  <1>2. /\ JobsAreOfCompleted' /\ EventsAreConsumed' /\ ActiveSinceIsUnchanged'
        /\ EventsUseTheirConfiguration'
    BY <1>1 DEF IInv, JobsAreOfCompleted, EventsAreConsumed, ActiveSinceIsUnchanged,
                EventsUseTheirConfiguration, Active, Exists
  <1>3. ASSUME NEW u \in Users, NEW r \in Rules, Look(u, r)
        PROVE  IInv'
    <2> DEFINE seen == [rule |-> r, version |-> rule[r].version, paused |-> rule[r].paused]
    <2>1. /\ screen' = [screen EXCEPT ![u] = seen] /\ Exists(r)
          /\ UNCHANGED <<clock, timezone, rule, run, jobs, log, consumed, claim, execution>>
      BY <1>3 DEF Look
    <2>2. rule[r] \in Rule
      BY <2>1 DEF IInv, TypeOK, Exists
    <2>3. seen \in Screen /\ seen # None
      BY <2>2 DEF Rule, Screen, NoneIsNew
    <2>4. /\ seen.rule = r /\ seen.version = rule[r].version /\ seen.paused = rule[r].paused
          /\ rule[r].version \in Nat
      BY <2>2 DEF Rule
    <2> HIDE DEF seen
    <2>5. TypeOK'
      BY <2>1, <2>3 DEF IInv, TypeOK
    <2>6. screen \in [Users -> Screen \cup {None}] /\ ScreensAreOfThePast
      BY DEF IInv, TypeOK
    <2>7. ScreensAreOfThePast'
      BY <2>1, <2>4, <2>6 DEF ScreensAreOfThePast, Exists
    <2>8. ClaimsAreOfRuns' /\ CountsStand'
      BY <2>1, KeptClaims, StandingCounts
    <2> QED BY <1>2, <2>5, <2>7, <2>8 DEF IInv
  <1>4. CASE \E w \in Workers : Drop(w)
    <2>1. PICK w \in Workers : Drop(w)
      BY <1>4
    <2>2. /\ claim' = [claim EXCEPT ![w] = None]
          /\ execution' = [execution EXCEPT ![w] = None]
          /\ UNCHANGED <<clock, timezone, rule, run, jobs, log, consumed, screen>>
      BY <2>1 DEF Drop, LetGo
    <2>3. /\ claim' \in [Workers -> (Rules \X Keys) \cup {None}]
          /\ execution' \in [Workers -> Execution \cup {None}]
          /\ \A v \in Workers, q \in Rules, j \in Keys :
               claim'[v] = <<q, j>> => claim[v] = <<q, j>> \/ run'[q][j] # None
          /\ \A v \in Workers : execution'[v] # None =>
               execution'[v] = execution[v] /\ claim'[v] = claim[v]
      BY <2>2, ClaimLetGo
    <2>4. ClaimsAreOfRuns' /\ ScreensAreOfThePast' /\ CountsStand'
      BY <2>2, <2>3, KeptClaims, StandingCounts DEF IInv, ScreensAreOfThePast, Exists
    <2> QED BY <1>2, <2>2, <2>3, <2>4 DEF IInv, TypeOK
  <1>5. CASE (\E zone \in Zones : SetTimezone(zone)) \/ Advance
    <2>1. timezone' \in Zones /\ clock' \in Instants
      BY <1>5, AutomationAssumption DEF SetTimezone, Advance, IInv, TypeOK, Instants
    <2>2. UNCHANGED <<rule, run, jobs, log, consumed, claim, execution, screen>>
      BY <1>5 DEF SetTimezone, Advance
    <2>3. ClaimsAreOfRuns' /\ ScreensAreOfThePast' /\ CountsStand'
      BY <2>2, KeptClaims, StandingCounts DEF IInv, ScreensAreOfThePast, Exists
    <2> QED BY <1>2, <2>1, <2>2, <2>3 DEF IInv, TypeOK
  <1> QED BY <1>3, <1>4, <1>5

(* What has been counted is what there is today. *)
LEMMA CountIInv ==
  ASSUME NoneIsNew, IInv, NEW w \in Workers, NEW r \in Rules, NEW k \in Keys, Count(w, r, k)
  PROVE  IInv'
  <1> DEFINE e == Counted(r)
  <1>1. /\ Owns(w, r, k) /\ ~OverLimit(r, k) /\ ~Locked(r)
        /\ execution' = [execution EXCEPT ![w] = e]
        /\ UNCHANGED <<clock, timezone, rule, run, jobs, log, consumed, claim, screen>>
    BY DEF Count, MayQueue
  <1>2. /\ claim[w] = <<r, k>> /\ claim[w] # None
        /\ run[r][k].status = "running" /\ run[r][k].token = w
    BY <1>1, AutomationAssumption DEF Owns, Claims
  <1>3. jobs \in [Rules -> [Keys -> Seq(Job)]] /\ clock \in Instants
    BY DEF IInv, TypeOK
  <1>4. \A q \in Keys : Len(jobs[r][q]) \in Nat
    BY <1>3
  <1>5. e.at = clock /\ \A q \in Keys : e.seen[q] = Len(jobs[r][q])
    BY DEF Counted
  <1>6. e \in Execution
    BY <1>3, <1>4 DEF Counted, Execution
  <1> HIDE DEF e
  <1>7. Total(rule[r].zone, jobs[r], e) = CopiesToday(r)
    <2>1. ASSUME NEW q \in Keys
          PROVE  KnownOf(rule[r].zone, jobs[r][q], q, e) = CopiesTodayOf(r, q)
      <3>1. \A n \in DOMAIN jobs[r][q] : n <= e.seen[q]
        BY <1>3, <1>5
      <3>2. Known(rule[r].zone, jobs[r][q], q, e) = JobsToday(r, q)
        BY <1>5, <3>1 DEF Known, JobsToday, SameDay
      <3> QED BY <3>2 DEF KnownOf, CopiesTodayOf
    <2> DEFINE f == [q \in Keys |-> KnownOf(rule[r].zone, jobs[r][q], q, e)]
               g == [q \in Keys |-> CopiesTodayOf(r, q)]
    <2>2. f = g
      BY <2>1
    <2>3. Total(rule[r].zone, jobs[r], e) = SumFunction(f) /\ CopiesToday(r) = SumFunction(g)
      BY DEF Total, CopiesToday
    <2> HIDE DEF f, g
    <2> QED BY <2>2, <2>3
  <1>8. Total(rule[r].zone, jobs[r], e) + run[r][k].copies <= rule[r].form.limit
    <2>1. rule[r] \in Rule /\ run[r][k] \in Run /\ Exists(r)
      BY <1>1, EndedRun
    <2>2. rule[r].form \in Forms /\ run[r][k].copies \in Nat
      BY <2>1 DEF Rule, Run
    <2>3. rule[r].form.limit \in Nat
      BY <2>2, AutomationAssumption
    <2>4. Total(rule[r].zone, jobs[r], e) \in Int
      BY TotalIsInt
    <2> QED BY <1>1, <1>7, <2>2, <2>3, <2>4 DEF OverLimit
  <1>9. CountsStand'
    <2>1. /\ execution'[w] = e
          /\ \A v \in Workers : v # w => execution'[v] = execution[v]
      BY <1>1 DEF IInv, TypeOK
    <2>2. \A v \in Workers, q \in Rules, j \in Keys : v # w =>
            (Executing(v, q, j)' <=> Executing(v, q, j))
      BY <2>1, <1>1 DEF Executing, Claims
    <2>3. \A q \in Rules, j \in Keys : Executing(w, q, j)' => q = r /\ j = k
      BY <1>1, <1>2 DEF Executing, Claims
    <2>4. \A v \in Workers, j \in Keys : ~Executing(v, r, j)
      BY <1>1 DEF Locked
    <2>5. \A v \in Workers : execution'[v] # None => claim'[v] # None
      BY <2>1, <1>1, <1>2 DEF IInv, CountsStand
    <2>6. ASSUME NEW v \in Workers, NEW q \in Rules, NEW j \in Keys, Executing(v, q, j)'
          PROVE  /\ run'[q][j].status = "running" /\ run'[q][j].token = v
                 /\ \A y \in Workers, x \in Keys : Executing(y, q, x)' => y = v
                 /\ \A x \in Keys : execution'[v].seen[x] <= Len(jobs'[q][x])
                 /\ Total(rule'[q].zone, jobs'[q], execution'[v]) + run'[q][j].copies
                      <= rule'[q].form.limit
      <3>1. CASE v = w
        <4>1. q = r /\ j = k
          BY <3>1, <2>3, <2>6
        <4>2. \A y \in Workers, x \in Keys : Executing(y, r, x)' => y = w
          BY <2>2, <2>4
        <4>3. \A x \in Keys : e.seen[x] <= Len(jobs[r][x])
          BY <1>4, <1>5
        <4> QED BY <3>1, <4>1, <4>2, <4>3, <2>1, <1>1, <1>2, <1>8
      <3>2. CASE v # w
        <4>1. Executing(v, q, j) /\ q # r
          BY <3>2, <2>2, <2>4, <2>6
        <4>2. \A y \in Workers, x \in Keys : Executing(y, q, x)' => Executing(y, q, x)
          BY <4>1, <2>2, <2>3
        <4>3. /\ run[q][j].status = "running" /\ run[q][j].token = v
              /\ \A y \in Workers, x \in Keys : Executing(y, q, x) => y = v
              /\ \A x \in Keys : execution[v].seen[x] <= Len(jobs[q][x])
              /\ Total(rule[q].zone, jobs[q], execution[v]) + run[q][j].copies
                   <= rule[q].form.limit
          BY <4>1 DEF IInv, CountsStand
        <4> QED BY <3>2, <4>2, <4>3, <2>1, <1>1
      <3> QED BY <3>1, <3>2
    <2> QED BY <2>5, <2>6 DEF CountsStand
  <1>10. ActiveSinceIsUnchanged' /\ ScreensAreOfThePast'
    BY <1>1, UnchangedRules
  <1>11. /\ JobsAreOfCompleted' /\ EventsAreConsumed' /\ EventsUseTheirConfiguration'
         /\ ClaimsAreOfRuns'
    BY <1>1, KeptClaims DEF IInv, JobsAreOfCompleted, EventsAreConsumed,
                            EventsUseTheirConfiguration, Exists
  <1> QED BY <1>1, <1>6, <1>9, <1>10, <1>11 DEF IInv, TypeOK

LEMMA NextIInv == ASSUME NoneIsNew, IInv, [Next]_vars PROVE IInv'
  <1>1. CASE Operating
    BY <1>1, OtherIInv, SaveRuleIInv, PauseIInv, TestRunIInv, RetryIInv, ReprintIInv DEF Operating
  <1>2. CASE Scheduling
    BY <1>2, MaterializeScheduleIInv, MaterializeEventIInv, ClaimIInv, EndIInv, CountIInv,
       QueueJobIInv, FailQueueingIInv DEF Scheduling, Execute
  <1>3. CASE Timing
    BY <1>3, OtherIInv, BackoffEndsIInv DEF Timing
  <1>4. CASE (\E e \in Events : Occur(e)) \/ \E w \in Workers : Drop(w)
    BY <1>4, OccurIInv, OtherIInv
  <1>5. CASE UNCHANGED vars
    <2>1. UNCHANGED <<clock, timezone, rule, run, jobs, log, consumed, claim, execution, screen>>
      BY <1>5 DEF vars
    <2>2. TypeOK'
      BY <2>1 DEF IInv, TypeOK
    <2>3. \A q \in Rules : Exists(q) => Exists(q)'
      BY <2>1 DEF Exists
    <2>4. rule' \in [Rules -> Rule \cup {None}]
      BY <2>2 DEF TypeOK
    <2> QED BY <2>1, <2>3, <2>4, UnchangedRuns, UnchangedRules DEF IInv
  <1> QED BY <1>1, <1>2, <1>3, <1>4, <1>5 DEF Next

(* Every reachable state satisfies the invariant: jobs are those of completed     *)
(* executions, active rules have not changed since the events they match.        *)
THEOREM Invariance == ASSUME NoneIsNew PROVE Spec => []IInv
  <1>1. Init => IInv
    BY InitIInv
  <1>2. IInv /\ [Next]_vars => IInv'
    BY NextIInv
  <1> QED BY <1>1, <1>2, PTL DEF Spec

(* Types are kept (Automation.TypeOK). *)
THEOREM TypesAreKept == ASSUME NoneIsNew PROVE Spec => []TypeOK
  <1>1. IInv => TypeOK
    BY DEF IInv
  <1> QED BY <1>1, Invariance, PTL

(* What an event prints is what each rule said when it occurred                *)
(* (Automation.EventsUseTheirConfiguration).                                *)
THEOREM EventsKeepTheirConfiguration ==
  ASSUME NoneIsNew PROVE Spec => []EventsUseTheirConfiguration
  <1>1. IInv => EventsUseTheirConfiguration
    BY DEF IInv
  <1> QED BY <1>1, Invariance, PTL

----------------------------------------------------------------------------
(* Only a save and a pause resume a rule, and both go by a screen that shows its  *)
(* version.                                                                  *)
LEMMA ResumedBySomebodyWhoSaw ==
  ASSUME IInv, [Next]_vars, NEW r \in Rules, Exists(r), rule[r].paused, ~rule'[r].paused
  PROVE  \E u \in Users : screen[u] # None /\ screen[u].rule = r /\ screen[u].paused
  <1>1. /\ rule \in [Rules -> Rule \cup {None}] /\ rule[r] \in Rule /\ ScreensAreOfThePast
    BY DEF IInv, TypeOK, Exists
  <1>2. ASSUME NEW u \in Users, NEW q \in Rules, ~Exists(q) \/ IsCurrent(u, q),
               rule' = [rule EXCEPT ![q] = rule'[q]]
        PROVE  screen[u] # None /\ screen[u].rule = r /\ screen[u].paused
    <2>1. q = r
      BY <1>1, <1>2
    <2>2. IsCurrent(u, r)
      BY <2>1, <1>2
    <2> QED BY <2>2, <1>1 DEF IsCurrent, ScreensAreOfThePast
  <1>3. ASSUME NEW u \in Users, NEW q \in Rules, NEW form \in Forms, SaveRule(u, q, form)
        PROVE  screen[u] # None /\ screen[u].rule = r /\ screen[u].paused
    <2>1. rule' = [rule EXCEPT ![q] = rule'[q]]
      BY <1>3, <1>1 DEF SaveRule
    <2> QED BY <2>1, <1>2, <1>3 DEF SaveRule
  <1>4. ASSUME NEW u \in Users, NEW q \in Rules, NEW paused \in BOOLEAN, Pause(u, q, paused)
        PROVE  screen[u] # None /\ screen[u].rule = r /\ screen[u].paused
    <2>1. rule' = [rule EXCEPT ![q] = rule'[q]]
      BY <1>4, <1>1 DEF Pause
    <2> QED BY <2>1, <1>2, <1>4 DEF Pause
  <1>5. ASSUME NEW q \in Rules, MaterializeSchedule(q) PROVE FALSE
    <2>1. rule' = [rule EXCEPT ![q] = [rule[q] EXCEPT !.next =
                     NextRun(rule[q].form.schedule, rule[q].zone, rule[q].next)]]
      BY <1>5 DEF MaterializeSchedule
    <2> QED BY <2>1, <1>1 DEF Rule
  <1>6. ASSUME NEW q \in Rules, BackoffEnds(q) PROVE FALSE
    BY <1>6, <1>1 DEF BackoffEnds, Rule
  <1>7. ASSUME NEW w \in Workers, NEW q \in Rules, NEW k \in Keys, QueueJob(w, q, k) PROVE FALSE
    <2>1. rule' = [rule EXCEPT ![q] = [rule[q] EXCEPT !.failures = 0, !.backoff = FALSE]]
      BY <1>7 DEF QueueJob
    <2> QED BY <2>1, <1>1 DEF Rule
  <1>8. ASSUME NEW w \in Workers, NEW q \in Rules, NEW k \in Keys, FailQueueing(w, q, k)
        PROVE  FALSE
    <2> DEFINE pause == rule[q].failures + 1 >= rule[q].form.threshold
               version == IF pause THEN rule[q].version + 1 ELSE rule[q].version
               failures == rule[q].failures + 1
    <2>1. rule' = [rule EXCEPT ![q] = [rule[q] EXCEPT !.failures = failures, !.backoff = TRUE,
                     !.paused = rule[q].paused \/ pause, !.version = version]]
      BY <1>8 DEF FailQueueing
    <2> HIDE DEF pause, version, failures
    <2> QED BY <2>1, <1>1 DEF Rule
  <1>9. rule' # rule
    OBVIOUS
  <1>10. CASE Operating
    BY <1>10, <1>3, <1>4, <1>9 DEF Operating, Look, TestRun, Retry, Reprint, SetTimezone
  <1>11. CASE Scheduling
    <2>1. ASSUME NEW w \in Workers, NEW q \in Rules, NEW k \in Keys,
                 \/ Claim(w, q, k) \/ Skip(w, q, k) \/ Postpone(w, q, k) \/ Count(w, q, k)
          PROVE  FALSE
      BY <1>9, <2>1 DEF Claim, Skip, Postpone, Count
    <2>2. ASSUME MaterializeEvent PROVE FALSE
      BY <1>9, <2>2 DEF MaterializeEvent
    <2>3. ASSUME NEW w \in Workers, NEW q \in Rules, NEW k \in Keys, Execute(w, q, k)
          PROVE  FALSE
      BY <2>1, <2>3, <1>7, <1>8 DEF Execute
    <2> QED BY <1>11, <1>5, <2>1, <2>2, <2>3 DEF Scheduling
  <1>12. CASE Timing
    BY <1>12, <1>6, <1>9 DEF Timing, Advance
  <1>13. CASE (\E e \in Events : Occur(e)) \/ (\E w \in Workers : Drop(w)) \/ UNCHANGED vars
    BY <1>13, <1>9 DEF Occur, Drop, vars
  <1> QED BY <1>10, <1>11, <1>12, <1>13 DEF Next

(* A rule that is paused is only resumed by somebody who has seen that it is      *)
(* (Automation.UnseenPauseStays).                                           *)
THEOREM PausesAreNotUndoneUnseen == ASSUME NoneIsNew PROVE Spec => UnseenPauseStays
  <1>1. IInv /\ [Next]_vars =>
          [\A r \in Rules : Exists(r) /\ rule[r].paused /\ ~rule'[r].paused =>
             \E u \in Users : screen[u] # None /\ screen[u].rule = r /\ screen[u].paused]_vars
    BY ResumedBySomebodyWhoSaw
  <1> QED BY <1>1, Invariance, PTL DEF Spec, UnseenPauseStays

----------------------------------------------------------------------------
(* The daily limit. *)

(* The job that is queued adds the copies of its execution to what it has counted, *)
(* and nothing else is known to it that was not counted.                       *)
LEMMA QueuedCopies ==
  ASSUME NoneIsNew, IInv, NEW w \in Workers, NEW r \in Rules, NEW k \in Keys, QueueJob(w, r, k),
         jobs[r][k] = << >>
  PROVE  Total(rule[r].zone, jobs'[r], execution[w])
           = Total(rule[r].zone, jobs[r], execution[w]) + run[r][k].copies
  <1> DEFINE e == execution[w]  zone == rule[r].zone
             first == [copies |-> run[r][k].copies, at |-> e.at, reprint |-> FALSE]
  <1>1. /\ Executing(w, r, k)
        /\ jobs' = [jobs EXCEPT ![r] = [jobs[r] EXCEPT ![k] = <<first>>]]
    BY DEF QueueJob
  <1>2. run[r][k] \in Run
    BY <1>1, ExecutingARun, EndedRun
  <1>3. run[r][k].copies \in Int
    BY <1>2 DEF Run
  <1>4. jobs \in [Rules -> [Keys -> Seq(Job)]]
    BY DEF IInv, TypeOK
  <1>5. jobs'[r][k] = <<first>> /\ \A q \in Keys \ {k} : jobs'[r][q] = jobs[r][q]
    BY <1>1, <1>4
  <1>6. first.copies = run[r][k].copies /\ first.at = e.at /\ ~first.reprint
    OBVIOUS
  <1> HIDE DEF first, e, zone
  <1>7. KnownOf(zone, jobs[r][k], k, e) = 0
    <2> DEFINE D == Known(zone, jobs[r][k], k, e)
               copies == [n \in D |-> jobs[r][k][n].copies]
    <2>1. D = {} /\ KnownOf(zone, jobs[r][k], k, e) = SumFunctionOnSet(copies, D)
      BY DEF Known, KnownOf, SumFunction
    <2> HIDE DEF D, copies
    <2> QED BY <2>1, SumOfNone
  <1>8. KnownOf(zone, <<first>>, k, e) = run[r][k].copies
    <2> DEFINE D == Known(zone, <<first>>, k, e)
               copies == [n \in D |-> <<first>>[n].copies]
    <2>1. KnownOf(zone, <<first>>, k, e) = SumFunctionOnSet(copies, D)
      BY DEF KnownOf, SumFunction
    <2>2. D = {1}
      BY <1>6 DEF Known
    <2>3. copies[1] = run[r][k].copies
      BY <1>6, <2>2
    <2> HIDE DEF D, copies
    <2>4. IsFiniteSet({1}) /\ {1} \ {1} = {}
      BY FS_Singleton
    <2>5. SumFunctionOnSet(copies, {1}) = copies[1] + SumFunctionOnSet(copies, {})
      BY <1>3, <2>3, <2>4, SumWithout
    <2> QED BY <1>3, <2>1, <2>2, <2>3, <2>5, SumOfNone
  <1> DEFINE before == [q \in Keys |-> KnownOf(zone, jobs[r][q], q, e)]
             after == [q \in Keys |-> KnownOf(zone, jobs'[r][q], q, e)]
  <1>9. /\ Total(zone, jobs[r], e) = SumFunctionOnSet(before, Keys)
        /\ Total(zone, jobs'[r], e) = SumFunctionOnSet(after, Keys)
    BY DEF Total, SumFunction
  <1>10. \A q \in Keys : before[q] \in Int
    <2>1. \A q \in Keys : jobs[r][q] \in Seq(Job)
      BY <1>4
    <2> QED BY <2>1, KnownIsInt
  <1>11. \A q \in Keys : q # k => after[q] = before[q]
    BY <1>5
  <1>12. before[k] = 0 /\ after[k] = run[r][k].copies
    BY <1>5, <1>7, <1>8
  <1> HIDE DEF before, after
  <1>13. \A q \in Keys : before[q] \in Int /\ after[q] \in Int
    BY <1>3, <1>10, <1>11, <1>12
  <1>14. IsFiniteSet(Keys)
    BY AutomationAssumption
  <1>15. SumFunctionOnSet(after, Keys) = SumFunctionOnSet(before, Keys) + after[k] - before[k]
    BY <1>11, <1>13, <1>14, SumChange
  <1>16. SumFunctionOnSet(before, Keys) \in Int
    BY <1>13, <1>14, SumIsInt
  <1> QED BY <1>3, <1>9, <1>12, <1>15, <1>16 DEF e, zone

(* When an execution commits its job, the copies of its local day are within the   *)
(* limit of the rule, whatever tests, events and other processes have queued since *)
(* it has counted them; retries on paper since then are not serialized with it     *)
(* (Automation.LimitIsKept).                                                *)
THEOREM LimitsAreKept == ASSUME NoneIsNew PROVE Spec => LimitIsKept
  <1>1. IInv /\ [Next]_vars =>
          [\A r \in Rules, k \in Keys :
             jobs[r][k] = << >> /\ jobs'[r][k] # << >> =>
               \E w \in Workers :
                 /\ Executing(w, r, k)
                 /\ SumFunction([q \in Keys |-> KnownCopies(r, q, jobs'[r][q], execution[w])])
                      <= rule[r].form.limit]_vars
    <2> DEFINE Within(w, r) ==
                 SumFunction([q \in Keys |-> KnownCopies(r, q, jobs'[r][q], execution[w])])
                   <= rule[r].form.limit
    <2> SUFFICES ASSUME IInv, [Next]_vars, NEW r \in Rules, NEW k \in Keys,
                        jobs[r][k] = << >>, jobs'[r][k] # << >>
                 PROVE  \E w \in Workers : Executing(w, r, k) /\ Within(w, r)
      OBVIOUS
    <2>1. jobs \in [Rules -> [Keys -> Seq(Job)]] /\ jobs' # jobs
      BY DEF IInv, TypeOK
    <2>2. ASSUME NEW q \in Rules, NEW x \in Keys, Reprint(q, x) PROVE FALSE
      BY <2>1, <2>2 DEF Reprint
    <2>3. ASSUME NEW w \in Workers, NEW q \in Rules, NEW x \in Keys, QueueJob(w, q, x)
          PROVE  q = r /\ x = k
      BY <2>1, <2>3 DEF QueueJob
    <2>4. ASSUME NEW w \in Workers, QueueJob(w, r, k)
          PROVE  Executing(w, r, k) /\ Within(w, r)
      <3>1. Executing(w, r, k)
        BY <2>4 DEF QueueJob
      <3>2. Total(rule[r].zone, jobs[r], execution[w]) + run[r][k].copies <= rule[r].form.limit
        BY <3>1 DEF IInv, CountsStand
      <3>3. Total(rule[r].zone, jobs'[r], execution[w]) <= rule[r].form.limit
        BY <2>4, <3>2, QueuedCopies
      <3>4. SumFunction([q \in Keys |-> KnownCopies(r, q, jobs'[r][q], execution[w])])
              = Total(rule[r].zone, jobs'[r], execution[w])
        BY DEF Total, KnownOf, Known, KnownCopies, KnownJobs, SameDay
      <3> QED BY <3>1, <3>3, <3>4
    <2>5. \E w \in Workers : QueueJob(w, r, k)
      <3>1. CASE Operating
        <4>1. ASSUME NEW q \in Rules, NEW x \in Keys, Retry(q, x) \/ Reprint(q, x) PROVE FALSE
          BY <2>1, <2>2, <4>1 DEF Retry
        <4>2. ASSUME NEW u \in Users, NEW q \in Rules, NEW form \in Forms, SaveRule(u, q, form)
              PROVE  FALSE
          BY <2>1, <4>2 DEF SaveRule
        <4>3. ASSUME NEW u \in Users, NEW q \in Rules, NEW paused \in BOOLEAN, Pause(u, q, paused)
              PROVE  FALSE
          BY <2>1, <4>3 DEF Pause
        <4>4. ASSUME \/ \E q \in Rules, x \in Tests : TestRun(q, x)
                     \/ \E zone \in Zones : SetTimezone(zone)
              PROVE  FALSE
          BY <2>1, <4>4 DEF TestRun, SetTimezone
        <4>5. ASSUME NEW u \in Users, NEW q \in Rules, Look(u, q) PROVE FALSE
          BY <2>1, <4>5 DEF Look
        <4> QED BY <3>1, <4>1, <4>2, <4>3, <4>4, <4>5 DEF Operating
      <3>2. CASE Scheduling
        <4>1. ASSUME NEW w \in Workers, NEW q \in Rules, NEW x \in Keys,
                     \/ Claim(w, q, x) \/ Skip(w, q, x) \/ Postpone(w, q, x)
                     \/ Count(w, q, x) \/ FailQueueing(w, q, x)
              PROVE  FALSE
          BY <2>1, <4>1 DEF Claim, Skip, Postpone, Count, FailQueueing
        <4>2. ASSUME NEW w \in Workers, NEW q \in Rules, NEW x \in Keys, Execute(w, q, x)
              PROVE  QueueJob(w, r, k)
          BY <2>3, <4>1, <4>2 DEF Execute
        <4>3. ASSUME (\E q \in Rules : MaterializeSchedule(q)) \/ MaterializeEvent PROVE FALSE
          BY <2>1, <4>3 DEF MaterializeSchedule, MaterializeEvent
        <4> QED BY <3>2, <4>1, <4>2, <4>3 DEF Scheduling
      <3>3. CASE Timing \/ (\E e \in Events : Occur(e)) \/ (\E w \in Workers : Drop(w))
        BY <2>1, <3>3 DEF Timing, Advance, BackoffEnds, Occur, Drop
      <3> QED BY <2>1, <3>1, <3>2, <3>3 DEF Next, vars
    <2> QED BY <2>4, <2>5
  <1> QED BY <1>1, Invariance, PTL DEF Spec, LimitIsKept

----------------------------------------------------------------------------
(* The refinement: what is queued follows from what is decided. *)

LEMMA QueuedIsDecided ==
  ASSUME NEW x, NEW seq \in Seq(Job), seq # << >> <=> x # None /\ x.status = "completed",
         \A n \in DOMAIN seq : seq[n].reprint <=> n # 1
  PROVE  QueuedJobs(seq) = IF Decision(x) = "queued" THEN 1 ELSE 0
  <1> DEFINE first == {n \in DOMAIN seq : ~seq[n].reprint}
  <1>1. QueuedJobs(seq) = Cardinality(first)
    BY DEF QueuedJobs
  <1>2. CASE seq = << >>
    <2>1. first = {}
      BY <1>2
    <2>2. Decision(x) # "queued"
      BY <1>2 DEF Decision
    <2> QED BY <1>1, <2>1, <2>2, FS_EmptySet
  <1>3. CASE seq # << >>
    <2>1. first = {1}
      BY <1>3
    <2>2. Decision(x) = "queued"
      BY <1>3 DEF Decision
    <2> QED BY <1>1, <2>1, <2>2, FS_Singleton
  <1> QED BY <1>2, <1>3

Decided == [o \in Rules \X Keys |-> Decision(run[o[1]][o[2]])]
Queued == [o \in Rules \X Keys |-> QueuedJobs(jobs[o[1]][o[2]])]

(* In pairs: what is decided and queued of an occurrence, before and after. *)
LEMMA Values ==
  ASSUME IInv, IInv'
  PROVE  /\ Decided = [o \in Rules \X Keys |-> Decision(run[o[1]][o[2]])]
         /\ Decided' = [o \in Rules \X Keys |-> Decision(run'[o[1]][o[2]])]
         /\ \A o \in Rules \X Keys :
              /\ Queued[o] = IF Decided[o] = "queued" THEN 1 ELSE 0
              /\ Queued'[o] = IF Decided'[o] = "queued" THEN 1 ELSE 0
  <1>1. Decided' = [o \in Rules \X Keys |-> Decision(run'[o[1]][o[2]])]
    BY DEF Decided, Decision
  <1>2. Queued' = [o \in Rules \X Keys |-> QueuedJobs(jobs'[o[1]][o[2]])]
    BY DEF Queued, QueuedJobs
  <1>3. ASSUME NEW o \in Rules \X Keys
        PROVE  /\ Queued[o] = IF Decided[o] = "queued" THEN 1 ELSE 0
               /\ Queued'[o] = IF Decided'[o] = "queued" THEN 1 ELSE 0
    <2> DEFINE x == run[o[1]][o[2]]  seq == jobs[o[1]][o[2]]
               y == run'[o[1]][o[2]]  new == jobs'[o[1]][o[2]]
    <2>0. o[1] \in Rules /\ o[2] \in Keys
      OBVIOUS
    <2>1. seq \in Seq(Job)
      BY <2>0 DEF IInv, TypeOK
    <2>2. seq # << >> <=> x # None /\ x.status = "completed"
      BY <2>0 DEF IInv, JobsAreOfCompleted
    <2>3. \A n \in DOMAIN seq : seq[n].reprint <=> n # 1
      BY <2>0 DEF IInv, JobsAreOfCompleted
    <2>4. new \in Seq(Job)
      BY <2>0 DEF IInv, TypeOK
    <2>5. new # << >> <=> y # None /\ y.status = "completed"
      BY <2>0 DEF IInv, JobsAreOfCompleted
    <2>6. \A n \in DOMAIN new : new[n].reprint <=> n # 1
      BY <2>0 DEF IInv, JobsAreOfCompleted
    <2>7. /\ Decided[o] = Decision(x) /\ Queued[o] = QueuedJobs(seq)
          /\ Decided'[o] = Decision(y) /\ Queued'[o] = QueuedJobs(new)
      BY <1>1, <1>2 DEF Decided, Queued
    <2> HIDE DEF x, seq, y, new
    <2>8. QueuedJobs(seq) = IF Decision(x) = "queued" THEN 1 ELSE 0
      BY <2>1, <2>2, <2>3, QueuedIsDecided
    <2>9. QueuedJobs(new) = IF Decision(y) = "queued" THEN 1 ELSE 0
      BY <2>4, <2>5, <2>6, QueuedIsDecided
    <2> QED BY <2>7, <2>8, <2>9
  <1> QED BY <1>1, <1>3 DEF Decided

(* A step leaves the decisions alone, or opens some. *)
LEMMA OpenOrNothing ==
  ASSUME IInv, IInv',
         \A r \in Rules, k \in Keys :
           \/ Decision(run'[r][k]) = Decision(run[r][k])
           \/ Decision(run[r][k]) = "none" /\ Decision(run'[r][k]) = "open"
  PROVE  Promise!Arise
  <1> DEFINE new == {o \in Rules \X Keys : Decided'[o] # Decided[o]}
  <1>0. \A o \in Rules \X Keys :
          Decided'[o] = Decided[o] \/ (Decided[o] = "none" /\ Decided'[o] = "open")
    <2> TAKE o \in Rules \X Keys
    <2>1. o[1] \in Rules /\ o[2] \in Keys
      OBVIOUS
    <2>2. Decided[o] = Decision(run[o[1]][o[2]]) /\ Decided'[o] = Decision(run'[o[1]][o[2]])
      BY Values
    <2> QED BY <2>1, <2>2
  <1>1. \A o \in Rules \X Keys : Queued'[o] = Queued[o]
    BY Values, <1>0
  <1>2. Decided' = [o \in Rules \X Keys |-> IF o \in new THEN "open" ELSE Decided[o]]
    <2>1. Decided' = [o \in Rules \X Keys |-> Decided'[o]]
      BY Values
    <2> QED BY <2>1, <1>0
  <1>3. new \in SUBSET {o \in Rules \X Keys : Decided[o] = "none"}
    BY <1>0
  <1>4. Queued' = Queued
    BY <1>1 DEF Queued
  <1> QED BY <1>2, <1>3, <1>4 DEF Promise!Arise, Decided, Queued

(* A step decides one occurrence. *)
LEMMA DecideOne ==
  ASSUME IInv, IInv', NEW r \in Rules, NEW k \in Keys, Decision(run[r][k]) = "open",
         Decision(run'[r][k]) \in {"queued", "skipped"},
         \A q \in Rules, j \in Keys : q # r \/ j # k => run'[q][j] = run[q][j]
  PROVE  Promise!Next
  <1> DEFINE o == <<r, k>>
  <1>1. o \in Rules \X Keys /\ Decided[o] = "open" /\ Decided'[o] \in {"queued", "skipped"}
    BY Values
  <1>2. \A p \in Rules \X Keys : p # o => Decided'[p] = Decided[p]
    <2> SUFFICES ASSUME NEW p \in Rules \X Keys, p # o PROVE Decided'[p] = Decided[p]
      OBVIOUS
    <2>1. p[1] \in Rules /\ p[2] \in Keys /\ p = <<p[1], p[2]>>
      OBVIOUS
    <2>2. run'[p[1]][p[2]] = run[p[1]][p[2]]
      BY <2>1
    <2> QED BY <2>2, Values
  <1> HIDE DEF o
  <1>3. Decided' = [Decided EXCEPT ![o] = Decided'[o]]
    <2>1. Decided' = [p \in Rules \X Keys |-> Decided'[p]] /\ DOMAIN Decided = Rules \X Keys
      BY Values
    <2> QED BY <2>1, <1>1, <1>2
  <1>4. /\ \A p \in Rules \X Keys : p # o => Queued'[p] = Queued[p]
        /\ Queued'[o] = (IF Decided'[o] = "queued" THEN 1 ELSE 0) /\ Queued[o] = 0
    BY <1>1, <1>2, Values
  <1>5. Queued' = [Queued EXCEPT ![o] = Queued'[o]]
    BY <1>1, <1>4 DEF Queued
  <1>6. CASE Decided'[o] = "queued"
    <2>1. Decided[o] = "open" /\ Decided' = [Decided EXCEPT ![o] = "queued"]
      BY <1>1, <1>3, <1>6
    <2>2. Queued' = [Queued EXCEPT ![o] = 1]
      BY <1>4, <1>5, <1>6
    <2>3. Promise!QueueJob(o)
      BY <2>1, <2>2 DEF Promise!QueueJob, Decided, Queued
    <2> QED BY <2>3, <1>1 DEF Promise!Next
  <1>7. CASE Decided'[o] = "skipped"
    <2>1. Decided[o] = "open" /\ Decided' = [Decided EXCEPT ![o] = "skipped"]
      BY <1>1, <1>3, <1>7
    <2>2. Queued' = Queued
      BY <1>4, <1>5, <1>7 DEF Queued
    <2>3. Promise!Skip(o)
      BY <2>1, <2>2 DEF Promise!Skip, Decided, Queued
    <2> QED BY <2>3, <1>1 DEF Promise!Next
  <1> QED BY <1>1, <1>6, <1>7

(* An execution goes on. *)
LEMMA RunMoves ==
  ASSUME IInv, IInv', NEW r \in Rules, NEW k \in Keys, NEW value, SetRun(r, k, value),
         \/ Decision(value) = Decision(run[r][k])
         \/ Decision(run[r][k]) = "open" /\ Decision(value) \in {"queued", "skipped"}
  PROVE  Promise!Next
  <1>1. run \in [Rules -> [Keys -> Run \cup {None}]]
    BY DEF IInv, TypeOK
  <1>2. /\ run'[r][k] = value
        /\ \A q \in Rules, j \in Keys : q # r \/ j # k => run'[q][j] = run[q][j]
    BY <1>1 DEF SetRun
  <1>3. CASE Decision(value) = Decision(run[r][k])
    <2>1. \A q \in Rules, j \in Keys : Decision(run'[q][j]) = Decision(run[q][j])
      <3> TAKE q \in Rules, j \in Keys
      <3>1. CASE q = r /\ j = k
        BY <3>1, <1>2, <1>3
      <3>2. CASE ~(q = r /\ j = k)
        BY <3>2, <1>2
      <3> QED BY <3>1, <3>2
    <2> QED BY <2>1, OpenOrNothing DEF Promise!Next
  <1>4. CASE Decision(run[r][k]) = "open" /\ Decision(value) \in {"queued", "skipped"}
    BY <1>2, <1>4, DecideOne
  <1> QED BY <1>3, <1>4

LEMMA EveryStepIsPromised ==
  ASSUME NoneIsNew, IInv, IInv', [Next]_vars
  PROVE  Promise!Next
  <1>1. run \in [Rules -> [Keys -> Run \cup {None}]] /\ run' \in [Rules -> [Keys -> Run \cup {None}]]
    BY DEF IInv, TypeOK
  <1>2. ASSUME \A r \in Rules, k \in Keys :
                 \/ run'[r][k] = run[r][k]
                 \/ run[r][k] = None /\ run'[r][k] = Pending(r) /\ Exists(r)
        PROVE  Promise!Next
    <2>1. \A r \in Rules : Exists(r) => Pending(r) # None /\ Pending(r).status = "pending"
      BY PendingIsARun DEF Pending, NoneIsNew
    <2>2. \A r \in Rules : Exists(r) => Decision(Pending(r)) = "open"
      BY <2>1 DEF Decision
    <2>3. Decision(None) = "none"
      BY DEF Decision
    <2>4. \A r \in Rules, k \in Keys :
            \/ Decision(run'[r][k]) = Decision(run[r][k])
            \/ Decision(run[r][k]) = "none" /\ Decision(run'[r][k]) = "open"
      BY <1>2, <2>2, <2>3
    <2> QED BY <2>4, OpenOrNothing DEF Promise!Next
  <1>3. \A r \in Rules, k \in Keys :
          Inserted(r, k) = IF run[r][k] # None THEN run[r] ELSE [run[r] EXCEPT ![k] = Pending(r)]
    BY DEF Inserted, Pending
  <1>4. ASSUME run' = run PROVE Promise!Next
    BY <1>2, <1>4
  <1>5. ASSUME NEW r \in Rules, NEW k \in Keys, Exists(r), run' = [run EXCEPT ![r] = Inserted(r, k)]
        PROVE  Promise!Next
    <2>1. \A q \in Rules, j \in Keys :
            \/ run'[q][j] = run[q][j]
            \/ run[q][j] = None /\ run'[q][j] = Pending(q) /\ Exists(q)
      BY <1>1, <1>3, <1>5
    <2> QED BY <2>1, <1>2
  <1>6. ASSUME NEW r \in Rules, NEW k \in Tests, TestRun(r, k) PROVE Promise!Next
    BY <1>5, <1>6 DEF TestRun, Keys
  <1>7. ASSUME NEW r \in Rules, MaterializeSchedule(r) PROVE Promise!Next
    <2> DEFINE k == Wall[rule[r].zone][rule[r].next]
    <2>1. /\ Exists(r) /\ rule[r].next # None /\ run' = [run EXCEPT ![r] = Inserted(r, k)]
      BY <1>7 DEF MaterializeSchedule, Due, Active
    <2>2. rule[r] \in Rule
      BY <2>1 DEF IInv, TypeOK, Exists
    <2>3. rule[r].zone \in Zones /\ rule[r].next \in Instants
      BY <2>1, <2>2 DEF Rule
    <2>4. k \in Keys
      BY <2>3, AutomationAssumption DEF Keys
    <2> QED BY <2>1, <2>4, <1>5
  <1>8. ASSUME MaterializeEvent PROVE Promise!Next
    <2> DEFINE n == consumed + 1
               e == log[n].event
    <2>1. /\ n \in DOMAIN log
          /\ run' = [r \in Rules |-> IF Matches(r, n) THEN Inserted(r, e) ELSE run[r]]
      BY <1>8 DEF MaterializeEvent
    <2>2. log[n] \in Fact
      BY <2>1 DEF IInv, TypeOK
    <2>3. e \in Keys
      BY <2>2 DEF Fact, Keys
    <2> HIDE DEF e
    <2>4. \A r \in Rules : Matches(r, n) => Exists(r)
      BY DEF Matches, Active
    <2>5. \A q \in Rules, j \in Keys :
            \/ run'[q][j] = run[q][j]
            \/ run[q][j] = None /\ run'[q][j] = Pending(q) /\ Exists(q)
      BY <1>1, <1>3, <2>1, <2>3, <2>4
    <2> QED BY <2>5, <1>2
  <1>9. ASSUME NEW r \in Rules, NEW k \in Keys, Retry(r, k) PROVE Promise!Next
    <2> DEFINE value == [run[r][k] EXCEPT !.status = "pending"]
    <2>1. /\ run[r][k] # None /\ run[r][k].status = "failed" /\ SetRun(r, k, value)
      BY <1>9 DEF Retry
    <2>0. run[r][k] \in Run
      BY <1>1, <2>1
    <2>2. value \in Run /\ value.status = "pending"
      BY <2>0 DEF Run
    <2> HIDE DEF value
    <2>3. Decision(value) = "open" /\ Decision(run[r][k]) = "open"
      BY <2>1, <2>2 DEF Decision, NoneIsNew
    <2> QED BY <2>1, <2>3, RunMoves
  <1>10. ASSUME NEW w \in Workers, NEW r \in Rules, NEW k \in Keys, Claim(w, r, k)
         PROVE  Promise!Next
    <2> DEFINE value == [run[r][k] EXCEPT !.status = "running", !.token = w]
    <2>1. /\ run[r][k] # None /\ run[r][k].status \in {"pending", "running", "failed"}
          /\ SetRun(r, k, value)
      BY <1>10 DEF Claim, Claimable
    <2>0. run[r][k] \in Run
      BY <1>1, <2>1
    <2>2. value \in Run /\ value.status = "running"
      BY <2>0 DEF Run
    <2> HIDE DEF value
    <2>3. Decision(value) = "open" /\ Decision(run[r][k]) = "open"
      BY <2>1, <2>2 DEF Decision, NoneIsNew
    <2> QED BY <2>1, <2>3, RunMoves
  <1>11. ASSUME NEW w \in Workers, NEW r \in Rules, NEW k \in Keys, Execute(w, r, k)
         PROVE  Promise!Next
    <2>0. CASE Count(w, r, k)
      BY <2>0, <1>4 DEF Count
    <2>1. ASSUME ~Count(w, r, k)
          PROVE  \E status \in {"pending", "completed", "failed", "skipped"} :
                   Owns(w, r, k) /\ SetRun(r, k, Ended(r, k, status))
      <3>1. Executing(w, r, k) => Owns(w, r, k)
        BY ExecutingARun
      <3> QED BY <3>1, <2>1, <1>11 DEF Execute, Skip, Postpone, QueueJob, FailQueueing
    <2>2. ASSUME NEW status \in {"pending", "completed", "failed", "skipped"},
                 Owns(w, r, k), SetRun(r, k, Ended(r, k, status))
          PROVE  Promise!Next
      <3>1. /\ run[r][k] # None /\ run[r][k].status = "running"
            /\ Ended(r, k, status) \in Run /\ Ended(r, k, status).status = status
        BY <2>2, EndedRun
      <3>2. Decision(run[r][k]) = "open"
        BY <3>1 DEF Decision
      <3>3. Decision(Ended(r, k, status)) \in {"open", "queued", "skipped"}
        BY <3>1 DEF Decision, NoneIsNew
      <3> QED BY <2>2, <3>2, <3>3, RunMoves
    <2> QED BY <2>0, <2>1, <2>2
  <1>12. CASE Operating
    BY <1>12, <1>4, <1>6, <1>9 DEF Operating, Look, SaveRule, Pause, Reprint, SetTimezone
  <1>13. CASE Scheduling
    BY <1>13, <1>7, <1>8, <1>10, <1>11 DEF Scheduling
  <1>14. CASE Timing \/ (\E e \in Events : Occur(e)) \/ (\E w \in Workers : Drop(w)) \/ UNCHANGED vars
    BY <1>14, <1>4 DEF Timing, Advance, BackoffEnds, Occur, Drop, vars
  <1> QED BY <1>12, <1>13, <1>14 DEF Next

(* An occurrence is decided once, and gives the print queue one job or none       *)
(* (Automation.ImplementsOccurrence).                                       *)
THEOREM OccurrencesAreDecidedOnce == ASSUME NoneIsNew PROVE Spec => ImplementsOccurrence
  <1>1. Init => Promise!Init
    <2> SUFFICES ASSUME Init PROVE Promise!Init
      OBVIOUS
    <2>1. \A r \in Rules, k \in Keys : run[r][k] = None /\ jobs[r][k] = << >>
      BY DEF Init
    <2>2. \A o \in Rules \X Keys : o[1] \in Rules /\ o[2] \in Keys
      OBVIOUS
    <2>3. Decision(None) = "none"
      BY DEF Decision
    <2>4. QueuedJobs(<< >>) = 0
      <3>1. {n \in DOMAIN << >> : ~<< >>[n].reprint} = {}
        OBVIOUS
      <3> QED BY <3>1, FS_EmptySet DEF QueuedJobs
    <2> QED BY <2>1, <2>2, <2>3, <2>4 DEF Promise!Init
  <1>2. IInv /\ IInv' /\ [Next]_vars => [Promise!Next]_Promise!vars
    BY EveryStepIsPromised
  <1> QED BY <1>1, <1>2, Invariance, PTL DEF Spec, ImplementsOccurrence, Promise!Spec
=============================================================================
