--------------------------- MODULE PrintDelivery ---------------------------
(***************************************************************************)
(* What the printing platform promises about each physical job, with no    *)
(* agents, leases, journals or lost messages: a job waits until it is      *)
(* cancelled or taken, a taken job is sent to a printer at most once, it   *)
(* completes only after it was sent, and an outcome never changes.         *)
(*                                                                         *)
(* A taken job may be given up as failed although its pages come out, or    *)
(* come out later: the docs call such a failure ambiguous.                 *)
(***************************************************************************)
EXTENDS Naturals

CONSTANT Jobs

VARIABLES
  outcome,  \* "none", "waiting", "taken", "completed", "failed", "cancelled"
  sent      \* how often the job was handed to the operating system

Init == /\ outcome = [j \in Jobs |-> "none"]
        /\ sent = [j \in Jobs |-> 0]

Become(j, from, to) == /\ outcome[j] = from
                       /\ outcome' = [outcome EXCEPT ![j] = to]

Request(j)  == Become(j, "none", "waiting") /\ UNCHANGED sent
Cancel(j)   == Become(j, "waiting", "cancelled") /\ UNCHANGED sent
Complete(j) == sent[j] = 1 /\ Become(j, "taken", "completed") /\ UNCHANGED sent

(* An agent's request for work gives up some of the jobs that were taken    *)
(* and takes at most one that waits.                                       *)
GiveUpAndTake(F, T) ==
  /\ \A j \in F : outcome[j] = "taken"
  /\ \A j \in T : outcome[j] = "waiting"
  /\ \A j, k \in T : j = k
  /\ outcome' = [j \in Jobs |-> IF j \in F THEN "failed"
                                ELSE IF j \in T THEN "taken" ELSE outcome[j]]
  /\ UNCHANGED sent

Send(j) == /\ sent[j] = 0
           /\ outcome[j] \in {"taken", "failed"}
           /\ sent' = [sent EXCEPT ![j] = 1]
           /\ UNCHANGED outcome

Next == \/ \E j \in Jobs : Request(j) \/ Cancel(j) \/ Complete(j) \/ Send(j)
        \/ \E F \in SUBSET Jobs, T \in SUBSET Jobs : GiveUpAndTake(F, T)

vars == <<outcome, sent>>

Spec == Init /\ [][Next]_vars
===========================================================================
