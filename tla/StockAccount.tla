---------------------------- MODULE StockAccount ----------------------------
(***************************************************************************)
(* What the stock of a company promises, without counters, ledgers or       *)
(* workflows: units are physically there or not, and whoever was promised   *)
(* some can rely on them.  Promises never exceed what is there, stock never *)
(* shrinks below them, and a shipment takes out exactly what was promised   *)
(* to it, once.                                                            *)
(***************************************************************************)
EXTENDS Integers, Functions

CONSTANTS Products, Sources

VARIABLES
  physical,  \* units of each product
  promised   \* units promised to each source

Committed(p) == SumFunction([s \in Sources |-> promised[s][p]])

Init == /\ physical = [p \in Products |-> 0]
        /\ promised = [s \in Sources |-> [p \in Products |-> 0]]

(* Goods come in, or are counted again. *)
Count(p) ==
  /\ physical'[p] \in Nat
  /\ physical'[p] >= Committed(p)
  /\ physical' = [physical EXCEPT ![p] = physical'[p]]
  /\ UNCHANGED promised

(* s is promised units of products of which it was promised none. *)
Promise(s) ==
  /\ promised'[s] \in [Products -> Nat]
  /\ \A p \in Products : promised'[s][p] # promised[s][p] =>
       promised[s][p] = 0 /\ Committed(p) + promised'[s][p] <= physical[p]
  /\ promised' = [promised EXCEPT ![s] = promised'[s]]
  /\ UNCHANGED physical

Withdraw(s, P) ==
  /\ promised' = [promised EXCEPT ![s] = [p \in Products |-> IF p \in P THEN 0 ELSE @[p]]]
  /\ UNCHANGED physical

Ship(s) ==
  /\ \E p \in Products : promised[s][p] > 0
  /\ physical' = [p \in Products |-> physical[p] - promised[s][p]]
  /\ promised' = [promised EXCEPT ![s] = [p \in Products |-> 0]]

Next == \/ \E p \in Products : Count(p)
        \/ \E s \in Sources :
             \/ Promise(s) \/ Ship(s)
             \/ \E P \in SUBSET Products : Withdraw(s, P)

Spec == Init /\ [][Next]_<<physical, promised>>
=============================================================================
