---- MODULE MCPrintQueue ----
(* A small instance of PrintQueue: one agent that owns every printer. *)
EXTENDS PrintQueue, TLC

CONSTANT a1

OneAgent == [p \in Printers |-> a1]

JobSymmetry == Permutations(Jobs)
=============================
