--------------------------- MODULE PrintOccurrence ---------------------------
(***************************************************************************)
(* What print automation promises of each occurrence of a rule: it is        *)
(* decided once, and gives the print queue one job or none.                 *)
(***************************************************************************)
EXTENDS Naturals

CONSTANT Occurrences

VARIABLES decision,  \* of an occurrence
          queued     \* how many jobs it has given to the print queue

vars == <<decision, queued>>

Init == /\ decision = [o \in Occurrences |-> "none"]
        /\ queued = [o \in Occurrences |-> 0]

(* A schedule is due, a test is asked for, or an event matches several rules. *)
Arise == \E new \in SUBSET {o \in Occurrences : decision[o] = "none"} :
           /\ decision' = [o \in Occurrences |-> IF o \in new THEN "open" ELSE decision[o]]
           /\ UNCHANGED queued

QueueJob(o) == /\ decision[o] = "open"
               /\ decision' = [decision EXCEPT ![o] = "queued"]
               /\ queued' = [queued EXCEPT ![o] = 1]

Skip(o) == /\ decision[o] = "open"
           /\ decision' = [decision EXCEPT ![o] = "skipped"]
           /\ UNCHANGED queued

Next == Arise \/ \E o \in Occurrences : QueueJob(o) \/ Skip(o)

Spec == Init /\ [][Next]_vars
=============================================================================
