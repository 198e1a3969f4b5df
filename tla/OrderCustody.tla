---------------------------- MODULE OrderCustody ----------------------------
(***************************************************************************)
(* What the company promises about the goods of a marketplace order: they   *)
(* leave once, and never after the order was called off; no more of them    *)
(* is back in stock than was ordered.                                       *)
(***************************************************************************)
EXTENDS Integers

CONSTANTS
  Orders, Items,
  OrderItem  \* of an item: its order and quantity

VARIABLES
  out,   \* how often the goods of an order left
  void,  \* the orders that were called off before they left
  back   \* units of each ordered item that are in stock again

Init == /\ out = [o \in Orders |-> 0]
        /\ void = {}
        /\ back = [i \in Items |-> 0]

Dispatch(S) == /\ S \cap void = {} /\ \A o \in S : out[o] = 0
               /\ out' = [o \in Orders |-> IF o \in S THEN 1 ELSE out[o]]
               /\ UNCHANGED <<void, back>>

CallOff(o) == /\ out[o] = 0 /\ o \notin void
              /\ void' = void \cup {o}
              /\ UNCHANGED <<out, back>>

(* Goods of one order come back into stock, or are taken out again as a mistake. *)
Restock(o) == /\ \A i \in Items : back'[i] \in 0..OrderItem[i].quantity
              /\ \A i \in Items : OrderItem[i].order # o => back'[i] = back[i]
              /\ \/ \A i \in Items : back'[i] >= back[i]
                 \/ \A i \in Items : back'[i] <= back[i]
              /\ UNCHANGED <<out, void>>

Next == \/ \E S \in SUBSET Orders : Dispatch(S)
        \/ \E o \in Orders : CallOff(o) \/ Restock(o)

Spec == Init /\ [][Next]_<<out, void, back>>
=============================================================================
