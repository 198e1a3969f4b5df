---- MODULE MCFulfilment ----
(* Small instances of Fulfilment. *)
EXTENDS Fulfilment, TLC

CONSTANTS o1, o2, i1, i2, p1

(* Two orders of one unit each, and one order with two lines of one product. *)
TwoOrders == (i1 :> [order |-> o1, product |-> p1, quantity |-> 1])
             @@ (i2 :> [order |-> o2, product |-> p1, quantity |-> 1])
TwoLines == (i1 :> [order |-> o1, product |-> p1, quantity |-> 2])
            @@ (i2 :> [order |-> o1, product |-> p1, quantity |-> 1])

Interchangeable == Permutations(Batches) \cup Permutations(Returns) \cup Permutations(Clerks)
==============================
