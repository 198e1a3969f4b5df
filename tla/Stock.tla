------------------------------- MODULE Stock --------------------------------
(***************************************************************************)
(* The inventory module of the API server: the balance of every product,   *)
(* the immutable ledger behind it, and the reservations that hold part of  *)
(* it for a source.                                                        *)
(*                                                                         *)
(* Every command is one PostgreSQL transaction that locks the balance rows *)
(* it reads, so it is one action here.  A command whose idempotency key is  *)
(* known changes nothing: it is answered with the old row or refused.       *)
(***************************************************************************)
EXTENDS Integers, Sequences, FiniteSets, Functions

CONSTANTS
  Products,
  Sources,      \* what a reservation can name as its source (type and id)
  References,   \* what a movement of a workflow names: a consignment, a batch, a return
  Keys,         \* bound: idempotency keys of manual stock commands
  MaxQuantity   \* bound: units one command moves

ASSUME StockAssumption == /\ IsFiniteSet(Sources)
                          /\ MaxQuantity \in Nat \ {0}
                          /\ Keys \cap References = {}

VARIABLES
  onHand, reserved,  \* inventory_balances
  ledger,            \* inventory_transactions, by product in order of commit
  reservation        \* inventory_reservations: at most one per source and product

stockVars == <<onHand, reserved, ledger, reservation>>

ManualKinds == {"stock_in", "manual_adjustment", "correction"}
Kinds == ManualKinds \cup {"consignment_out", "ecommerce_out", "return_restock"}

(* ref is the idempotency key of a manual command, else what the movement is for. *)
Row == [kind : Kinds, ref : Keys \cup References,
        delta : Int, previous : Nat, result : Nat]

Reservation == [status : {"none", "active", "released"}, quantity : Nat]

InitStock ==
  /\ onHand   = [p \in Products |-> 0]
  /\ reserved = [p \in Products |-> 0]
  /\ ledger   = [p \in Products |-> << >>]
  /\ reservation = [s \in Sources |-> [p \in Products |->
                      [status |-> "none", quantity |-> 0]]]

Rows(p) == {ledger[p][n] : n \in DOMAIN ledger[p]}

(* Mutant of Post: the row is written from what is available, not from what   *)
(* is on hand.                                                              *)
PostAvailable(kind, ref, delta) ==
  /\ onHand' = [p \in Products |-> IF p \in DOMAIN delta THEN onHand[p] + delta[p]
                                   ELSE onHand[p]]
  /\ ledger' = [p \in Products |->
       IF p \in DOMAIN delta
       THEN Append(ledger[p], [kind |-> kind, ref |-> ref, delta |-> delta[p],
                               previous |-> onHand[p] - reserved[p],
                               result |-> onHand[p] - reserved[p] + delta[p]])
       ELSE ledger[p]]

(* An error on one product rolls the whole movement back; delta has the       *)
(* products that move.                                                      *)
Post(kind, ref, delta) ==
  /\ onHand' = [p \in Products |-> IF p \in DOMAIN delta THEN onHand[p] + delta[p]
                                   ELSE onHand[p]]
  /\ ledger' = [p \in Products |->
       IF p \in DOMAIN delta
       THEN Append(ledger[p], [kind |-> kind, ref |-> ref, delta |-> delta[p],
                               previous |-> onHand[p], result |-> onHand[p] + delta[p]])
       ELSE ledger[p]]

Mark(s, P, status) ==
  reservation' = [reservation EXCEPT ![s] =
    [p \in Products |-> IF p \in P THEN [@[p] EXCEPT !.status = status] ELSE @[p]]]

----------------------------------------------------------------------------
(* StockIn, Adjust and Correct: mutate. *)

UnusedKey(k) == \A p \in Products : \A row \in Rows(p) : row.ref # k

(* Mutant of Mutate: stock may shrink below what is reserved. *)
MutateToZero(k, kind, p, q) ==
  /\ UnusedKey(k)
  /\ q # 0 /\ (kind = "stock_in" => q > 0)
  /\ onHand[p] + q >= 0
  /\ Post(kind, k, [x \in {p} |-> q])
  /\ UNCHANGED <<reserved, reservation>>

Mutate(k, kind, p, q) ==
  /\ UnusedKey(k)
  /\ q # 0 /\ (kind = "stock_in" => q > 0)
  /\ onHand[p] + q >= 0 /\ onHand[p] + q >= reserved[p]
  /\ Post(kind, k, [x \in {p} |-> q])
  /\ UNCHANGED <<reserved, reservation>>

----------------------------------------------------------------------------
(* The reservation endpoints.  They take any source, also one that another   *)
(* module of the server uses.                                               *)

Hold(s, demand) ==
  /\ \A p \in DOMAIN demand : /\ reservation[s][p].status = "none"
                              /\ reserved[p] + demand[p] <= onHand[p]
  /\ reservation' = [reservation EXCEPT ![s] = [p \in Products |->
       IF p \in DOMAIN demand THEN [status |-> "active", quantity |-> demand[p]] ELSE @[p]]]
  /\ reserved' = [p \in Products |-> IF p \in DOMAIN demand THEN reserved[p] + demand[p]
                                     ELSE reserved[p]]
  /\ UNCHANGED <<onHand, ledger>>

Reserve(s, p, q) == Hold(s, [x \in {p} |-> q])

(* Mutant of ReleaseReservation: a released reservation is released again. *)
ReleaseAgain(s, p) ==
  /\ reservation[s][p].status # "none"
  /\ Mark(s, {p}, "released")
  /\ reserved' = [reserved EXCEPT ![p] = @ - reservation[s][p].quantity]
  /\ UNCHANGED <<onHand, ledger>>

ReleaseReservation(s, p) ==
  /\ reservation[s][p].status = "active"
  /\ Mark(s, {p}, "released")
  /\ reserved' = [reserved EXCEPT ![p] = @ - reservation[s][p].quantity]
  /\ UNCHANGED <<onHand, ledger>>

----------------------------------------------------------------------------
(* What the consignment workflow calls inside its own transactions. *)

ReserveConsignment(c, demand) == DOMAIN demand # {} /\ Hold(c, demand)

Active(s) == {p \in Products : reservation[s][p].status = "active"}

(* The UPDATE of a balance is skipped when it would go below zero. *)
ReleaseConsignment(c) ==
  /\ Mark(c, Active(c), "released")
  /\ reserved' = [p \in Products |->
       IF p \in Active(c) /\ reserved[p] >= reservation[c][p].quantity
       THEN reserved[p] - reservation[c][p].quantity ELSE reserved[p]]
  /\ UNCHANGED <<onHand, ledger>>

(* Mutant of ConfirmConsignmentOutbound: stock leaves, reserved is kept. *)
DeductOnHandOnly(c) ==
  /\ Active(c) # {}
  /\ \A p \in Products : reservation[c][p].status # "released"
  /\ Post("consignment_out", c, [p \in Active(c) |-> -reservation[c][p].quantity])
  /\ Mark(c, Active(c), "released")
  /\ UNCHANGED reserved

(* Every reservation under this source must still be active; all are consumed. *)
ConfirmConsignmentOutbound(c) ==
  /\ Active(c) # {}
  /\ \A p \in Products : reservation[c][p].status # "released"
  /\ \A p \in Active(c) : /\ onHand[p] >= reservation[c][p].quantity
                          /\ reserved[p] >= reservation[c][p].quantity
  /\ Post("consignment_out", c, [p \in Active(c) |-> -reservation[c][p].quantity])
  /\ reserved' = [p \in Products |-> IF p \in Active(c)
                                     THEN reserved[p] - reservation[c][p].quantity
                                     ELSE reserved[p]]
  /\ Mark(c, Active(c), "released")

----------------------------------------------------------------------------
StockCommand ==
  \/ \E k \in Keys, kind \in ManualKinds, p \in Products,
        q \in (-MaxQuantity)..MaxQuantity : Mutate(k, kind, p, q)
  \/ \E s \in Sources, p \in Products :
       \/ \E q \in 1..MaxQuantity : Reserve(s, p, q)
       \/ ReleaseReservation(s, p)

StockTypeOK ==
  /\ onHand \in [Products -> Nat]
  /\ reserved \in [Products -> Nat]
  /\ ledger \in [Products -> Seq(Row)]
  /\ reservation \in [Sources -> [Products -> Reservation]]

Held(s, p) == IF p \in Active(s) THEN reservation[s][p].quantity ELSE 0

(* reserved is a counter kept beside the reservations; whatever reserves, *)
(* releases or consumes them, it counts the active ones.                     *)
ReservedCountsActive ==
  \A p \in Products : reserved[p] = SumFunction([s \in Sources |-> Held(s, p)])

(* The ledger explains the balance: every row starts where the row before it  *)
(* ended, and the balance is where the last one ended.                       *)
LedgerExplainsBalance ==
  \A p \in Products :
    LET Before(n) == IF n = 0 THEN 0 ELSE ledger[p][n].result
    IN  /\ onHand[p] = Before(Len(ledger[p]))
        /\ \A n \in DOMAIN ledger[p] :
             /\ ledger[p][n].previous = Before(n - 1)
             /\ ledger[p][n].result = Before(n - 1) + ledger[p][n].delta

(* What the active reservations promise to each source.                      *)
Promised == [s \in Sources |-> [p \in Products |-> Held(s, p)]]

Account == INSTANCE StockAccount WITH physical <- onHand, promised <- Promised

(* The inventory keeps the promises of StockAccount: no overselling, and a     *)
(* shipment takes what was reserved for it.                                  *)
ImplementsAccount == Account!Spec
=============================================================================
