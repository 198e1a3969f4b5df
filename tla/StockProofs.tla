---------------------------- MODULE StockProofs -----------------------------
(***************************************************************************)
(* What every command of the inventory module preserves, for any products,   *)
(* sources, keys and quantities: lemmas for the proofs about the workflows   *)
(* that issue these commands.                                              *)
(***************************************************************************)
EXTENDS Stock, SumProofs, SequenceTheorems

(* Nothing is reserved that is not there. *)
ReservedIsCovered == \A p \in Products : reserved[p] <= onHand[p]

StockInv == /\ StockTypeOK
            /\ ReservedCountsActive
            /\ ReservedIsCovered
            /\ LedgerExplainsBalance

----------------------------------------------------------------------------
(* The reservations of a product, and their sum. *)

LEMMA HeldValues ==
  ASSUME StockTypeOK, NEW s \in Sources, NEW p \in Products
  PROVE  /\ Held(s, p) = IF reservation[s][p].status = "active"
                         THEN reservation[s][p].quantity ELSE 0
         /\ reservation[s][p].quantity \in Nat
         /\ Held(s, p) \in Nat
<1>1. reservation[s][p] \in Reservation
  BY DEF StockTypeOK
<1> QED
  BY <1>1 DEF Held, Active, Reservation

HeldBy(p) == [s \in Sources |-> Held(s, p)]

LEMMA EachIsReserved ==
  ASSUME StockTypeOK, ReservedCountsActive, NEW s \in Sources, NEW p \in Products
  PROVE  Held(s, p) <= reserved[p]
<1>1. reserved[p] = SumFunctionOnSet(HeldBy(p), Sources)
  BY DEF ReservedCountsActive, HeldBy, SumFunction
<1>2. \A x \in Sources : HeldBy(p)[x] \in Nat
  BY HeldValues DEF HeldBy
<1>3. HeldBy(p)[s] <= SumFunctionOnSet(HeldBy(p), Sources)
  BY <1>2, SumBoundsEach, StockAssumption
<1>4. HeldBy(p)[s] = Held(s, p)
  BY DEF HeldBy
<1> QED
  BY <1>1, <1>3, <1>4

(* The counter stays right if it moves with the reservations of one source. *)
LEMMA CountIsKept ==
  ASSUME StockTypeOK, StockTypeOK', ReservedCountsActive, NEW s \in Sources,
         \A x \in Sources \ {s} : reservation'[x] = reservation[x],
         \A p \in Products : reserved'[p] = reserved[p] + Held(s, p)' - Held(s, p)
  PROVE  ReservedCountsActive'
<1> SUFFICES ASSUME NEW p \in Products
             PROVE  reserved'[p] = SumFunction([x \in Sources |-> Held(x, p)'])
  BY DEF ReservedCountsActive
<1> DEFINE before == [x \in Sources |-> Held(x, p)]
           after == [x \in Sources |-> Held(x, p)']
<1>1. \A x \in Sources : before[x] \in Int /\ after[x] \in Int
  <2> SUFFICES ASSUME NEW x \in Sources PROVE Held(x, p) \in Nat /\ Held(x, p)' \in Nat
    OBVIOUS
  <2>1. Held(x, p) \in Nat
    BY HeldValues
  <2>2. Held(x, p)' \in Nat
    <3>1. reservation'[x][p] \in Reservation
      BY DEF StockTypeOK
    <3> QED
      BY <3>1 DEF Held, Active, Reservation
  <2> QED
    BY <2>1, <2>2
<1>2. \A x \in Sources : x # s => after[x] = before[x]
  BY DEF Held, Active
<1>3. before[s] = Held(s, p) /\ after[s] = Held(s, p)'
  OBVIOUS
<1>4. SumFunctionOnSet(before, Sources) = reserved[p]
  BY DEF ReservedCountsActive, SumFunction
<1>5. SumFunction(after) = SumFunctionOnSet(after, Sources)
  BY DEF SumFunction
<1> HIDE DEF before, after
<1>6. SumFunctionOnSet(after, Sources) =
        SumFunctionOnSet(before, Sources) + after[s] - before[s]
  BY <1>1, <1>2, SumChange, StockAssumption
<1>7. reserved'[p] = reserved[p] + Held(s, p)' - Held(s, p)
  OBVIOUS
<1>8. SumFunction(after) = reserved'[p]
  BY <1>3, <1>4, <1>5, <1>6, <1>7
<1> QED
  BY <1>8 DEF after

----------------------------------------------------------------------------
(* Movements. *)

LEMMA PostKeepsLedger ==
  ASSUME StockTypeOK, LedgerExplainsBalance,
         NEW kind \in Kinds, NEW ref \in Keys \cup References, NEW delta, Post(kind, ref, delta),
         \A p \in Products \cap DOMAIN delta : delta[p] \in Int /\ onHand[p] + delta[p] >= 0
  PROVE  /\ onHand' \in [Products -> Nat]
         /\ ledger' \in [Products -> Seq(Row)]
         /\ LedgerExplainsBalance'
<1> DEFINE row(p) == [kind |-> kind, ref |-> ref, delta |-> delta[p],
                      previous |-> onHand[p], result |-> onHand[p] + delta[p]]
<1> USE DEF StockTypeOK
<1>1. ASSUME NEW p \in Products, p \in DOMAIN delta
      PROVE  /\ row(p) \in Row /\ onHand'[p] = onHand[p] + delta[p] /\ onHand'[p] \in Nat
             /\ ledger'[p] = Append(ledger[p], row(p))
  BY <1>1 DEF Post, Row
<1>2. ASSUME NEW p \in Products, p \notin DOMAIN delta
      PROVE  onHand'[p] = onHand[p] /\ ledger'[p] = ledger[p]
  BY <1>2 DEF Post
<1>3. onHand' \in [Products -> Nat]
  BY <1>1, <1>2 DEF Post
<1>4. ledger' \in [Products -> Seq(Row)]
  <2>1. \A p \in Products : ledger'[p] \in Seq(Row)
    <3> SUFFICES ASSUME NEW p \in Products PROVE ledger'[p] \in Seq(Row)
      OBVIOUS
    <3>1. ledger[p] \in Seq(Row)
      OBVIOUS
    <3>2. CASE p \in DOMAIN delta
      <4>1. row(p) \in Row /\ ledger'[p] = Append(ledger[p], row(p))
        BY <1>1, <3>2
      <4> HIDE DEF row
      <4> QED
        BY <3>1, <4>1, AppendProperties
    <3>3. CASE p \notin DOMAIN delta
      BY <1>2, <3>1, <3>3
    <3> QED
      BY <3>2, <3>3
  <2>2. ledger' = [p \in Products |-> ledger'[p]]
    BY DEF Post
  <2> QED
    BY <2>1, <2>2
<1>5. LedgerExplainsBalance'
  <2> SUFFICES ASSUME NEW p \in Products
               PROVE  /\ onHand'[p] = IF Len(ledger'[p]) = 0 THEN 0
                                      ELSE ledger'[p][Len(ledger'[p])].result
                      /\ \A n \in DOMAIN ledger'[p] :
                           LET before == IF n - 1 = 0 THEN 0 ELSE ledger'[p][n - 1].result
                           IN  /\ ledger'[p][n].previous = before
                               /\ ledger'[p][n].result = before + ledger'[p][n].delta
    BY DEF LedgerExplainsBalance
  <2>1. /\ onHand[p] = IF Len(ledger[p]) = 0 THEN 0 ELSE ledger[p][Len(ledger[p])].result
        /\ \A n \in DOMAIN ledger[p] :
             LET before == IF n - 1 = 0 THEN 0 ELSE ledger[p][n - 1].result
             IN  /\ ledger[p][n].previous = before
                 /\ ledger[p][n].result = before + ledger[p][n].delta
    BY DEF LedgerExplainsBalance
  <2>2. CASE p \notin DOMAIN delta
    BY <1>2, <2>1, <2>2
  <2>3. CASE p \in DOMAIN delta
    <3> DEFINE N == Len(ledger[p])
    <3>1. ledger[p] \in Seq(Row) /\ N \in Nat /\ DOMAIN ledger[p] = 1..N
      OBVIOUS
    <3>2. ledger'[p] = Append(ledger[p], row(p))
      BY <1>1, <2>3
    <3>3. /\ Len(ledger'[p]) = N + 1 /\ DOMAIN ledger'[p] = 1..(N + 1)
          /\ \A n \in 1..N : ledger'[p][n] = ledger[p][n]
          /\ ledger'[p][N + 1] = row(p)
      <4> HIDE DEF row
      <4> QED
        BY <3>1, <3>2
    <3>4. /\ ledger'[p][N + 1].previous = onHand[p]
          /\ ledger'[p][N + 1].result = onHand[p] + delta[p]
          /\ ledger'[p][N + 1].delta = delta[p]
      BY <3>3
    <3>5. onHand'[p] = onHand[p] + delta[p]
      BY <1>1, <2>3
    <3> HIDE DEF row, N
    <3>6. onHand'[p] = IF Len(ledger'[p]) = 0 THEN 0
                       ELSE ledger'[p][Len(ledger'[p])].result
      BY <3>1, <3>3, <3>4, <3>5
    <3>7. ASSUME NEW n \in DOMAIN ledger'[p]
          PROVE  LET before == IF n - 1 = 0 THEN 0 ELSE ledger'[p][n - 1].result
                 IN  /\ ledger'[p][n].previous = before
                     /\ ledger'[p][n].result = before + ledger'[p][n].delta
      <4>1. CASE n \in 1..N
        <5>1. n - 1 = 0 \/ n - 1 \in 1..N
          BY <3>1, <4>1
        <5>2. ledger'[p][n] = ledger[p][n]
          BY <3>3, <4>1
        <5>3. n - 1 # 0 => ledger'[p][n - 1] = ledger[p][n - 1]
          BY <3>3, <5>1
        <5> QED
          BY <2>1, <3>1, <4>1, <5>2, <5>3
      <4>2. CASE n = N + 1
        <5>1. n - 1 = N
          BY <3>1, <4>2
        <5>2. N # 0 => ledger'[p][N] = ledger[p][N]
          BY <3>1, <3>3
        <5>3. onHand[p] = IF N = 0 THEN 0 ELSE ledger'[p][N].result
          BY <2>1, <5>2 DEF N
        <5> QED
          BY <3>4, <4>2, <5>1, <5>3
      <4> QED
        BY <3>1, <3>3, <4>1, <4>2
    <3> QED
      BY <3>6, <3>7
  <2> QED
    BY <2>2, <2>3
<1> QED
  BY <1>3, <1>4, <1>5

(* Reservations move, stock does not. *)
LEMMA LedgerUntouched ==
  ASSUME LedgerExplainsBalance, UNCHANGED <<onHand, ledger>>
  PROVE  LedgerExplainsBalance'
BY DEF LedgerExplainsBalance

(* A reservation is not touched. *)
LEMMA HeldUntouched ==
  ASSUME UNCHANGED reservation
  PROVE  \A s, p : Held(s, p)' = Held(s, p)
BY DEF Held, Active

(* Active reservations of a source end. *)
LEMMA MarkReleased ==
  ASSUME StockTypeOK, NEW s \in Sources, NEW P \in SUBSET Active(s), Mark(s, P, "released")
  PROVE  /\ reservation' \in [Sources -> [Products -> Reservation]]
         /\ \A x \in Sources \ {s} : reservation'[x] = reservation[x]
         /\ \A p \in P : Held(s, p)' = 0 /\ Held(s, p) = reservation[s][p].quantity
         /\ \A p \in Products \ P : Held(s, p)' = Held(s, p)
<1> USE DEF StockTypeOK, Mark
<1>1. P \subseteq Products /\ \A p \in P : reservation[s][p].status = "active"
  BY DEF Active
<1>2. \A x \in Sources \ {s} : reservation'[x] = reservation[x]
  OBVIOUS
<1>3. \A p \in Products : reservation'[s][p] = IF p \in P
                             THEN [reservation[s][p] EXCEPT !.status = "released"]
                             ELSE reservation[s][p]
  OBVIOUS
<1>4. \A p \in Products : reservation[s][p] \in Reservation
  OBVIOUS
<1>5. \A p \in Products : reservation'[s][p] \in Reservation
  BY <1>3, <1>4 DEF Reservation
<1>6. \A p \in P : reservation'[s][p].status = "released"
  BY <1>1, <1>3, <1>4 DEF Reservation
<1>7. reservation' \in [Sources -> [Products -> Reservation]]
  BY <1>2, <1>5
<1>8. \A p \in P : Held(s, p)' = 0 /\ Held(s, p) = reservation[s][p].quantity
  BY <1>1, <1>6 DEF Held, Active
<1>9. \A p \in Products \ P : Held(s, p)' = Held(s, p)
  BY <1>3 DEF Held, Active
<1> QED
  BY <1>2, <1>7, <1>8, <1>9

----------------------------------------------------------------------------
(* The commands preserve the invariant. *)

LEMMA InitStockInv == InitStock => StockInv
<1> SUFFICES ASSUME InitStock PROVE StockInv
  OBVIOUS
<1> USE DEF InitStock
<1>1. StockTypeOK
  BY DEF StockTypeOK, Reservation
<1>2. LedgerExplainsBalance /\ ReservedIsCovered
  BY DEF LedgerExplainsBalance, ReservedIsCovered
<1>3. ReservedCountsActive
  <2> SUFFICES ASSUME NEW p \in Products PROVE SumFunctionOnSet(HeldBy(p), Sources) = 0
    BY DEF ReservedCountsActive, SumFunction, HeldBy
  <2>1. \A s \in Sources : HeldBy(p)[s] = 0
    BY DEF HeldBy, Held, Active
  <2> QED
    BY <2>1, SumOfZeros, StockAssumption
<1> QED
  BY <1>1, <1>2, <1>3 DEF StockInv

LEMMA StockStutters ==
  StockInv /\ UNCHANGED stockVars => StockInv'
BY HeldUntouched DEF StockInv, stockVars, StockTypeOK, ReservedCountsActive, ReservedIsCovered,
   LedgerExplainsBalance

(* A movement that leaves what is reserved. *)
LEMMA MovementKeepsInv ==
  ASSUME StockInv, NEW kind \in Kinds, NEW ref \in Keys \cup References, NEW delta,
         DOMAIN delta \subseteq Products, \A p \in DOMAIN delta : delta[p] \in Int,
         Post(kind, ref, delta), UNCHANGED <<reserved, reservation>>,
         \A p \in DOMAIN delta : onHand[p] + delta[p] >= reserved[p]
  PROVE  StockInv'
<1> USE DEF StockInv
<1>1. \A p \in Products : onHand[p] \in Nat /\ reserved[p] \in Nat
  BY DEF StockTypeOK
<1>2. \A p \in DOMAIN delta : onHand[p] + delta[p] >= 0
  BY <1>1
<1>3. onHand' \in [Products -> Nat] /\ ledger' \in [Products -> Seq(Row)] /\ LedgerExplainsBalance'
  BY <1>2, PostKeepsLedger
<1>4. StockTypeOK'
  BY <1>3 DEF StockTypeOK
<1>5. ReservedIsCovered'
  BY <1>1 DEF ReservedIsCovered, Post
<1>6. ReservedCountsActive'
  BY HeldUntouched DEF ReservedCountsActive
<1> QED
  BY <1>3, <1>4, <1>5, <1>6

LEMMA MutateKeepsInv ==
  ASSUME StockInv, NEW k \in Keys, NEW kind \in ManualKinds, NEW p \in Products, NEW q \in Int,
         Mutate(k, kind, p, q)
  PROVE  StockInv'
<1> DEFINE delta == [x \in {p} |-> q]
<1>1. DOMAIN delta = {p} /\ delta[p] = q
  OBVIOUS
<1>2. /\ Post(kind, k, delta) /\ UNCHANGED <<reserved, reservation>>
      /\ onHand[p] + q >= reserved[p]
  BY DEF Mutate
<1>3. kind \in Kinds
  BY DEF Kinds
<1> HIDE DEF delta
<1> QED
  BY <1>1, <1>2, <1>3, MovementKeepsInv

LEMMA HoldKeepsInv ==
  ASSUME StockInv, NEW s \in Sources, NEW demand, DOMAIN demand \subseteq Products,
         \A p \in DOMAIN demand : demand[p] \in Nat, Hold(s, demand)
  PROVE  /\ StockInv'
         /\ \A x \in Sources \ {s} : reservation'[x] = reservation[x]
         /\ \A p \in Products : reservation'[s][p] =
              IF p \in DOMAIN demand THEN [status |-> "active", quantity |-> demand[p]]
              ELSE reservation[s][p]
<1> USE DEF StockInv, Hold
<1>1. /\ \A p \in Products : onHand[p] \in Nat /\ reserved[p] \in Nat
      /\ reservation \in [Sources -> [Products -> Reservation]]
  BY DEF StockTypeOK
<1>2. \A x \in Sources \ {s} : reservation'[x] = reservation[x]
  BY <1>1
<1>3. \A p \in Products : reservation'[s][p] =
        IF p \in DOMAIN demand THEN [status |-> "active", quantity |-> demand[p]]
        ELSE reservation[s][p]
  BY <1>1
<1>4. reserved' \in [Products -> Nat]
  BY <1>1
<1>5. reservation' \in [Sources -> [Products -> Reservation]]
  <2>1. \A p \in Products : reservation'[s][p] \in Reservation
    BY <1>1, <1>3 DEF Reservation
  <2> QED
    BY <1>1, <1>2, <2>1
<1>6. StockTypeOK'
  BY <1>4, <1>5 DEF StockTypeOK
<1>7. \A p \in Products : reserved'[p] = reserved[p] + Held(s, p)' - Held(s, p)
  <2> SUFFICES ASSUME NEW p \in Products
               PROVE  reserved'[p] = reserved[p] + Held(s, p)' - Held(s, p)
    OBVIOUS
  <2>1. CASE p \in DOMAIN demand
    <3>0. /\ reservation[s][p].status = "none"
          /\ reservation'[s][p] = [status |-> "active", quantity |-> demand[p]]
      BY <1>3, <2>1
    <3>1. Held(s, p) = 0 /\ Held(s, p)' = demand[p]
      <4>1. Held(s, p) = 0
        BY <3>0 DEF Held, Active
      <4>2. reservation'[s][p].status = "active" /\ reservation'[s][p].quantity = demand[p]
        BY <3>0
      <4> HIDE DEF Hold
      <4> QED
        BY <4>1, <4>2 DEF Held, Active
    <3> QED
      BY <1>1, <2>1, <3>1
  <2>2. CASE p \notin DOMAIN demand
    <3>1. Held(s, p)' = Held(s, p)
      BY <1>3, <2>2 DEF Held, Active
    <3> QED
      BY <1>1, <2>2, <3>1, HeldValues
  <2> QED
    BY <2>1, <2>2
<1>8. ReservedCountsActive'
  BY <1>2, <1>6, <1>7, CountIsKept
<1>9. ReservedIsCovered'
  BY <1>1 DEF ReservedIsCovered
<1>10. LedgerExplainsBalance'
  BY LedgerUntouched
<1> QED
  BY <1>2, <1>3, <1>6, <1>8, <1>9, <1>10

(* Reservations of a source end; the counter goes down with them. *)
LEMMA EndKeepsCount ==
  ASSUME StockInv, NEW s \in Sources, NEW P \in SUBSET Active(s), Mark(s, P, "released"),
         reserved' = [p \in Products |-> IF p \in P THEN reserved[p] - reservation[s][p].quantity
                                        ELSE reserved[p]],
         onHand' \in [Products -> Nat], ledger' \in [Products -> Seq(Row)]
  PROVE  StockTypeOK' /\ ReservedCountsActive'
<1> USE DEF StockInv
<1>1. /\ reservation' \in [Sources -> [Products -> Reservation]]
      /\ \A x \in Sources \ {s} : reservation'[x] = reservation[x]
      /\ \A p \in P : Held(s, p)' = 0 /\ Held(s, p) = reservation[s][p].quantity
      /\ \A p \in Products \ P : Held(s, p)' = Held(s, p)
  BY MarkReleased
<1>2. \A p \in Products : /\ reserved[p] \in Nat /\ Held(s, p) \in Nat
                         /\ Held(s, p) <= reserved[p]
  BY HeldValues, EachIsReserved DEF StockTypeOK
<1>3. \A p \in Products : /\ reserved'[p] = reserved[p] + Held(s, p)' - Held(s, p)
                         /\ reserved'[p] \in Nat
  BY <1>1, <1>2
<1>4. StockTypeOK'
  BY <1>1, <1>3 DEF StockTypeOK
<1> QED
  BY <1>1, <1>3, <1>4, CountIsKept

LEMMA ReleaseReservationKeepsInv ==
  ASSUME StockInv, NEW s \in Sources, NEW p \in Products, ReleaseReservation(s, p)
  PROVE  StockInv'
<1> USE DEF StockInv
<1>1. {p} \in SUBSET Active(s)
  BY DEF ReleaseReservation, Active
<1>2. reserved' = [x \in Products |-> IF x \in {p} THEN reserved[x] - reservation[s][x].quantity
                                     ELSE reserved[x]]
  BY DEF ReleaseReservation, StockTypeOK
<1>3. /\ Mark(s, {p}, "released") /\ UNCHANGED <<onHand, ledger>>
      /\ onHand' \in [Products -> Nat] /\ ledger' \in [Products -> Seq(Row)]
  BY DEF ReleaseReservation, StockTypeOK
<1>4. StockTypeOK' /\ ReservedCountsActive'
  BY <1>1, <1>2, <1>3, EndKeepsCount
<1>5. reservation[s][p].quantity \in Nat
  BY HeldValues
<1>6. ReservedIsCovered'
  BY <1>2, <1>3, <1>5 DEF ReservedIsCovered, StockTypeOK
<1> QED
  BY <1>3, <1>4, <1>6, LedgerUntouched

LEMMA ReleaseConsignmentKeepsInv ==
  ASSUME StockInv, NEW c \in Sources, ReleaseConsignment(c)
  PROVE  StockInv'
<1> USE DEF StockInv
<1>1. \A p \in Active(c) : reserved[p] >= reservation[c][p].quantity
  BY EachIsReserved, HeldValues DEF Active, Held
<1>2. reserved' = [p \in Products |-> IF p \in Active(c) THEN reserved[p] - reservation[c][p].quantity
                                     ELSE reserved[p]]
  BY <1>1 DEF ReleaseConsignment
<1>3. /\ Mark(c, Active(c), "released") /\ UNCHANGED <<onHand, ledger>>
      /\ onHand' \in [Products -> Nat] /\ ledger' \in [Products -> Seq(Row)]
  BY DEF ReleaseConsignment, StockTypeOK
<1>4. StockTypeOK' /\ ReservedCountsActive'
  BY <1>2, <1>3, EndKeepsCount
<1>5. \A p \in Products : reservation[c][p].quantity \in Nat
  BY HeldValues
<1>6. ReservedIsCovered'
  BY <1>2, <1>3, <1>5 DEF ReservedIsCovered, StockTypeOK
<1> QED
  BY <1>3, <1>4, <1>6, LedgerUntouched

LEMMA ConfirmKeepsInv ==
  ASSUME StockInv, NEW c \in Sources \cap References, ConfirmConsignmentOutbound(c)
  PROVE  StockInv'
<1> USE DEF StockInv
<1> DEFINE delta == [p \in Active(c) |-> -reservation[c][p].quantity]
<1>1. /\ Post("consignment_out", c, delta) /\ Mark(c, Active(c), "released")
      /\ reserved' = [p \in Products |-> IF p \in Active(c) THEN reserved[p] - reservation[c][p].quantity
                                        ELSE reserved[p]]
      /\ \A p \in Active(c) : onHand[p] >= reservation[c][p].quantity
  BY DEF ConfirmConsignmentOutbound
<1>2. \A p \in Products : /\ reservation[c][p].quantity \in Nat
                         /\ onHand[p] \in Nat /\ reserved[p] \in Nat
  BY HeldValues DEF StockTypeOK
<1>3. Active(c) \subseteq Products
  BY DEF Active
<1>4. /\ DOMAIN delta = Active(c)
      /\ \A p \in Active(c) : delta[p] = -reservation[c][p].quantity
  OBVIOUS
<1> HIDE DEF delta
<1>5. \A p \in Products \cap DOMAIN delta : delta[p] \in Int /\ onHand[p] + delta[p] >= 0
  BY <1>1, <1>2, <1>4
<1>6. /\ onHand' \in [Products -> Nat] /\ ledger' \in [Products -> Seq(Row)]
      /\ LedgerExplainsBalance'
  BY <1>1, <1>5, PostKeepsLedger DEF Kinds
<1>7. StockTypeOK' /\ ReservedCountsActive'
  BY <1>1, <1>6, EndKeepsCount
<1>8. ReservedIsCovered'
  <2>1. \A p \in Products : onHand'[p] = IF p \in Active(c) THEN onHand[p] - reservation[c][p].quantity
                                        ELSE onHand[p]
    BY <1>1, <1>2, <1>4 DEF Post
  <2> QED
    BY <1>1, <1>2, <2>1 DEF ReservedIsCovered
<1> QED
  BY <1>6, <1>7, <1>8

LEMMA StockCommandKeepsInv == StockInv /\ StockCommand => StockInv'
<1> SUFFICES ASSUME StockInv, StockCommand PROVE StockInv'
  OBVIOUS
<1>1. ASSUME NEW k \in Keys, NEW kind \in ManualKinds, NEW p \in Products,
             NEW q \in (-MaxQuantity)..MaxQuantity, Mutate(k, kind, p, q)
      PROVE  StockInv'
  BY <1>1, MutateKeepsInv
<1>2. ASSUME NEW s \in Sources, NEW p \in Products, NEW q \in 1..MaxQuantity, Reserve(s, p, q)
      PROVE  StockInv'
  <2> DEFINE demand == [x \in {p} |-> q]
  <2>1. DOMAIN demand \subseteq Products /\ \A x \in DOMAIN demand : demand[x] \in Nat
    BY StockAssumption
  <2>2. Hold(s, demand)
    BY <1>2 DEF Reserve
  <2> HIDE DEF demand
  <2> QED
    BY <2>1, <2>2, HoldKeepsInv
<1>3. ASSUME NEW s \in Sources, NEW p \in Products, ReleaseReservation(s, p)
      PROVE  StockInv'
  BY <1>3, ReleaseReservationKeepsInv
<1> QED
  BY <1>1, <1>2, <1>3 DEF StockCommand

----------------------------------------------------------------------------
(* What the ledger and the reservations remember. *)

(* A movement adds its row to the ledger of every product that it moves. *)
LEMMA PostAddsRows ==
  ASSUME StockTypeOK, NEW kind, NEW ref, NEW delta, Post(kind, ref, delta), NEW p \in Products
  PROVE  /\ p \notin DOMAIN delta => Rows(p)' = Rows(p)
         /\ p \in DOMAIN delta =>
              \E row : /\ row.kind = kind /\ row.ref = ref /\ row.delta = delta[p]
                       /\ Rows(p)' = Rows(p) \cup {row}
<1>1. CASE p \notin DOMAIN delta
  BY <1>1 DEF Post, Rows
<1>2. CASE p \in DOMAIN delta
  <2> DEFINE row == [kind |-> kind, ref |-> ref, delta |-> delta[p],
                     previous |-> onHand[p], result |-> onHand[p] + delta[p]]
             N == Len(ledger[p])
  <2>1. ledger'[p] = Append(ledger[p], row)
    BY <1>2 DEF Post
  <2>2. row.kind = kind /\ row.ref = ref /\ row.delta = delta[p]
    OBVIOUS
  <2>3. ledger[p] \in Seq(Row) /\ N \in Nat /\ DOMAIN ledger[p] = 1..N
    BY DEF StockTypeOK
  <2> HIDE DEF row
  <2>4. /\ DOMAIN ledger'[p] = 1..(N + 1)
        /\ \A n \in 1..N : ledger'[p][n] = ledger[p][n]
        /\ ledger'[p][N + 1] = row
    BY <2>1, <2>3
  <2>5. 1..(N + 1) = (1..N) \cup {N + 1}
    BY <2>3
  <2> HIDE DEF N
  <2>6. {ledger'[p][n] : n \in 1..(N + 1)} = {ledger[p][n] : n \in 1..N} \cup {row}
    BY <2>4, <2>5
  <2>7. Rows(p)' = Rows(p) \cup {row}
    BY <2>3, <2>4, <2>6 DEF Rows
  <2> QED
    BY <1>2, <2>2, <2>7
<1> QED
  BY <1>1, <1>2

(* What the endpoints write about stock is in the name of a manual command. *)
LEMMA EndpointsAddManualRows ==
  ASSUME StockTypeOK, StockCommand, NEW p \in Products
  PROVE  /\ Rows(p) \subseteq Rows(p)'
         /\ \A row \in Rows(p)' \ Rows(p) : row.kind \in ManualKinds /\ row.ref \in Keys
<1>1. CASE UNCHANGED ledger
  BY <1>1 DEF Rows
<1>2. ASSUME NEW k \in Keys, NEW kind \in ManualKinds, NEW x \in Products,
             NEW q \in (-MaxQuantity)..MaxQuantity, Mutate(k, kind, x, q)
      PROVE  /\ Rows(p) \subseteq Rows(p)'
             /\ \A row \in Rows(p)' \ Rows(p) : row.kind \in ManualKinds /\ row.ref \in Keys
  <2> DEFINE delta == [y \in {x} |-> q]
  <2>1. Post(kind, k, delta)
    BY <1>2 DEF Mutate
  <2> HIDE DEF delta
  <2>2. /\ p \notin DOMAIN delta => Rows(p)' = Rows(p)
        /\ p \in DOMAIN delta => \E row : /\ row.kind = kind /\ row.ref = k /\ row.delta = delta[p]
                                         /\ Rows(p)' = Rows(p) \cup {row}
    BY <2>1, PostAddsRows
  <2> QED
    BY <2>2
<1> QED
  BY <1>1, <1>2 DEF StockCommand, Reserve, Hold, ReleaseReservation

(* The endpoints may release a reservation, but it stays and keeps its quantity. *)
LEMMA ReservationsLast ==
  ASSUME StockTypeOK, StockCommand, NEW s \in Sources, NEW p \in Products,
         reservation[s][p].status # "none"
  PROVE  /\ reservation'[s][p].status # "none"
         /\ reservation'[s][p].quantity = reservation[s][p].quantity
<1>1. CASE UNCHANGED reservation
  BY <1>1
<1>2. ASSUME NEW t \in Sources, NEW x \in Products, NEW q \in 1..MaxQuantity, Reserve(t, x, q)
      PROVE  reservation'[s][p] = reservation[s][p]
  <2> DEFINE demand == [y \in {x} |-> q]
  <2>1. Hold(t, demand) /\ DOMAIN demand = {x}
    BY <1>2 DEF Reserve
  <2> HIDE DEF demand
  <2>2. <<s, p>> # <<t, x>>
    BY <2>1 DEF Hold
  <2> QED
    BY <2>1, <2>2 DEF Hold, StockTypeOK
<1>3. ASSUME NEW t \in Sources, NEW x \in Products, ReleaseReservation(t, x)
      PROVE  /\ reservation'[s][p].status # "none"
             /\ reservation'[s][p].quantity = reservation[s][p].quantity
  <2>1. reservation[s][p] \in Reservation
    BY DEF StockTypeOK
  <2>2. Mark(t, {x}, "released")
    BY <1>3 DEF ReleaseReservation
  <2>3. CASE s = t /\ p = x
    <3>1. reservation'[s][p] = [reservation[s][p] EXCEPT !.status = "released"]
      BY <2>2, <2>3 DEF Mark, StockTypeOK
    <3> QED
      BY <2>1, <3>1 DEF Reservation
  <2>4. CASE ~(s = t /\ p = x)
    <3>1. reservation'[s][p] = reservation[s][p]
      BY <2>2, <2>4 DEF Mark, StockTypeOK
    <3> QED
      BY <3>1
  <2> QED
    BY <2>3, <2>4
<1> QED
  BY <1>1, <1>2, <1>3 DEF StockCommand, Mutate

----------------------------------------------------------------------------
(* The commands implement StockAccount: the counter is the sum of the promises, *)
(* and every command is one of the steps that the account allows.             *)

accountVars == <<onHand, Promised>>

LEMMA PromisedValues ==
  /\ Promised = [s \in Sources |-> Promised[s]]
  /\ \A s \in Sources, p \in Products : Promised[s][p] = Held(s, p)
BY DEF Promised

LEMMA CommittedIsReserved ==
  ASSUME StockInv, NEW p \in Products
  PROVE  Account!Committed(p) = reserved[p]
<1>1. [s \in Sources |-> Promised[s][p]] = [s \in Sources |-> Held(s, p)]
  BY PromisedValues
<1>2. Account!Committed(p) = SumFunction([s \in Sources |-> Promised[s][p]])
  BY DEF Account!Committed, Account!SumFunction, Account!SumFunctionOnSet,
         Account!FoldFunctionOnSet, Account!MapThenFoldSet,
         SumFunction, SumFunctionOnSet, FoldFunctionOnSet, MapThenFoldSet
<1>3. reserved[p] = SumFunction([s \in Sources |-> Held(s, p)])
  BY DEF StockInv, ReservedCountsActive
<1> QED
  BY <1>1, <1>2, <1>3

LEMMA InitIsPromised == InitStock => Account!Init
BY DEF InitStock, Account!Init, Promised, Held, Active

LEMMA PromisedUntouched ==
  ASSUME UNCHANGED reservation
  PROVE  UNCHANGED Promised
BY HeldUntouched DEF Promised

LEMMA MutateIsPromised ==
  ASSUME StockInv, StockInv', NEW k \in Keys, NEW kind \in ManualKinds,
         NEW p \in Products, NEW q \in Int, Mutate(k, kind, p, q)
  PROVE  Account!Next
<1>1. UNCHANGED Promised
  BY PromisedUntouched DEF Mutate
<1>2. onHand' = [onHand EXCEPT ![p] = onHand'[p]]
  BY DEF Mutate, Post, StockInv, StockTypeOK
<1>3. onHand'[p] \in Nat
  BY DEF StockInv, StockTypeOK
<1>4. onHand'[p] >= reserved[p]
  BY DEF Mutate, Post, StockInv, StockTypeOK
<1>5. Account!Count(p)
  BY <1>1, <1>2, <1>3, <1>4, CommittedIsReserved DEF Account!Count
<1> QED
  BY <1>5 DEF Account!Next

(* The promises to one source change, the stock does not. *)
LEMMA PromisesOfOne ==
  ASSUME StockInv, NEW s \in Sources, \A x \in Sources \ {s} : reservation'[x] = reservation[x]
  PROVE  Promised' = [Promised EXCEPT ![s] = Promised'[s]]
<1>1. \A x \in Sources \ {s}, p \in Products : Held(x, p)' = Held(x, p)
  BY DEF Held, Active
<1>2. \A x \in Sources \ {s} : Promised'[x] = Promised[x]
  BY <1>1 DEF Promised
<1> QED
  BY <1>2 DEF Promised

LEMMA HoldIsPromised ==
  ASSUME StockInv, StockInv', NEW s \in Sources, NEW demand, DOMAIN demand \subseteq Products,
         \A p \in DOMAIN demand : demand[p] \in Nat, Hold(s, demand)
  PROVE  Account!Next
<1>1. /\ \A x \in Sources \ {s} : reservation'[x] = reservation[x]
      /\ \A p \in Products : reservation'[s][p] =
           IF p \in DOMAIN demand THEN [status |-> "active", quantity |-> demand[p]]
           ELSE reservation[s][p]
  BY HoldKeepsInv
<1>2. Promised' = [Promised EXCEPT ![s] = Promised'[s]]
  BY <1>1, PromisesOfOne
<1>3. \A p \in Products : Promised'[s][p] \in Nat
  <2> SUFFICES ASSUME NEW p \in Products PROVE Promised'[s][p] \in Nat
    OBVIOUS
  <2>1. reservation'[s][p] \in Reservation
    BY DEF StockInv, StockTypeOK
  <2> QED
    BY <2>1 DEF Promised, Held, Active, Reservation
<1>4. Promised'[s] \in [Products -> Nat]
  BY <1>3 DEF Promised
<1>5. ASSUME NEW p \in Products, Promised'[s][p] # Promised[s][p]
      PROVE  Promised[s][p] = 0 /\ Account!Committed(p) + Promised'[s][p] <= onHand[p]
  <2>1. p \in DOMAIN demand
    BY <1>1, <1>5 DEF Promised, Held, Active
  <2>2. reservation[s][p].status = "none" /\ reserved[p] + demand[p] <= onHand[p]
    BY <2>1 DEF Hold
  <2>3. reservation'[s][p].status = "active" /\ reservation'[s][p].quantity = demand[p]
    <3>1. reservation'[s][p] = [status |-> "active", quantity |-> demand[p]]
      BY <1>1, <2>1
    <3> QED
      BY <3>1
  <2>4. Promised[s][p] = 0
    BY <2>2 DEF Promised, Held, Active
  <2>5. Promised'[s][p] = demand[p]
    BY <2>3 DEF Promised, Held, Active
  <2> QED
    BY <2>2, <2>4, <2>5, CommittedIsReserved
<1>6. UNCHANGED onHand
  BY DEF Hold
<1>7. Account!Promise(s)
  BY <1>2, <1>4, <1>5, <1>6 DEF Account!Promise
<1> QED
  BY <1>7 DEF Account!Next

(* What a source is promised after some of its reservations ended. *)
LEMMA PromisesEnd ==
  ASSUME StockInv, NEW s \in Sources, NEW P \in SUBSET Active(s), Mark(s, P, "released")
  PROVE  Promised' = [Promised EXCEPT ![s] = [p \in Products |-> IF p \in P THEN 0 ELSE @[p]]]
<1>1. /\ \A x \in Sources \ {s} : reservation'[x] = reservation[x]
      /\ \A p \in P : Held(s, p)' = 0
      /\ \A p \in Products \ P : Held(s, p)' = Held(s, p)
  BY MarkReleased DEF StockInv
<1>2. Promised' = [Promised EXCEPT ![s] = Promised'[s]]
  BY <1>1, PromisesOfOne
<1>3. Promised'[s] = [p \in Products |-> IF p \in P THEN 0 ELSE Promised[s][p]]
  BY <1>1 DEF Promised
<1> QED
  BY <1>2, <1>3

LEMMA ReleaseIsPromised ==
  ASSUME StockInv, NEW s \in Sources, NEW P \in SUBSET Active(s), Mark(s, P, "released"),
         UNCHANGED onHand
  PROVE  Account!Next
<1>1. P \in SUBSET Products
  BY DEF Active
<1>2. Account!Withdraw(s, P)
  BY PromisesEnd DEF Account!Withdraw
<1> QED
  BY <1>1, <1>2 DEF Account!Next

LEMMA ConfirmIsPromised ==
  ASSUME StockInv, NEW c \in Sources \cap References, ConfirmConsignmentOutbound(c)
  PROVE  Account!Next \/ UNCHANGED accountVars
<1> DEFINE nothing == [p \in Products |-> 0]
           kept == [p \in Products |-> IF p \in Active(c) THEN 0 ELSE Promised[c][p]]
<1>1. Promised' = [Promised EXCEPT ![c] = kept]
  BY PromisesEnd DEF ConfirmConsignmentOutbound
<1>2. \A p \in Products : /\ onHand[p] \in Nat
                         /\ Promised[c][p] \in Nat
                         /\ Promised[c][p] = IF p \in Active(c) THEN reservation[c][p].quantity ELSE 0
  <2> SUFFICES ASSUME NEW p \in Products
               PROVE  /\ onHand[p] \in Nat
                      /\ Promised[c][p] \in Nat
                      /\ Promised[c][p] = IF p \in Active(c) THEN reservation[c][p].quantity ELSE 0
    OBVIOUS
  <2>1. Promised[c][p] = Held(c, p)
    BY PromisedValues
  <2>2. Held(c, p) \in Nat /\ onHand[p] \in Nat
    BY HeldValues DEF StockInv, StockTypeOK
  <2> QED
    BY <2>1, <2>2 DEF Held
<1>3. kept = nothing
  <2>1. \A p \in Products : p \notin Active(c) => Promised[c][p] = 0
    BY PromisedValues DEF Held
  <2> QED
    BY <2>1
<1>4. onHand' = [p \in Products |-> onHand[p] - Promised[c][p]]
  <2>1. onHand' = [p \in Products |-> onHand'[p]]
    BY DEF ConfirmConsignmentOutbound, Post
  <2>2. \A p \in Products : onHand'[p] = IF p \in Active(c) THEN onHand[p] - reservation[c][p].quantity
                                        ELSE onHand[p]
    <3> DEFINE delta == [p \in Active(c) |-> -reservation[c][p].quantity]
    <3>1. Post("consignment_out", c, delta) /\ DOMAIN delta = Active(c)
      BY DEF ConfirmConsignmentOutbound
    <3>2. \A p \in Products : reservation[c][p].quantity \in Nat
      BY HeldValues DEF StockInv
    <3>3. \A p \in Active(c) : delta[p] = -reservation[c][p].quantity
      OBVIOUS
    <3> HIDE DEF delta
    <3> QED
      BY <1>2, <3>1, <3>2, <3>3 DEF Post
  <2>3. ASSUME NEW p \in Products PROVE onHand'[p] = onHand[p] - Promised[c][p]
    <3>1. onHand[p] \in Nat
      BY <1>2
    <3>2. CASE p \in Active(c)
      BY <1>2, <2>2, <3>1, <3>2
    <3>3. CASE p \notin Active(c)
      <4>1. Promised[c][p] = 0 /\ onHand'[p] = onHand[p]
        BY <1>2, <2>2, <3>1, <3>3
      <4> QED
        BY <3>1, <4>1
    <3> QED
      BY <3>2, <3>3
  <2> QED
    BY <2>1, <2>3
<1>5. CASE \E p \in Products : Promised[c][p] > 0
  <2>1. Account!Ship(c)
    BY <1>1, <1>3, <1>4, <1>5 DEF Account!Ship
  <2> QED
    BY <2>1 DEF Account!Next
<1>6. CASE \A p \in Products : Promised[c][p] = 0
  <2>1. onHand' = onHand
    BY <1>2, <1>4, <1>6 DEF StockInv, StockTypeOK
  <2>2. Promised[c] = nothing /\ DOMAIN Promised = Sources
    <3>1. DOMAIN Promised = Sources /\ Promised[c] = [p \in Products |-> Promised[c][p]]
      BY DEF Promised
    <3> QED
      BY <1>6, <3>1
  <2>3. Promised' = Promised
    <3> HIDE DEF kept, nothing
    <3> QED
      BY <1>1, <1>3, <2>2, PromisedValues
  <2> QED
    BY <2>1, <2>3 DEF accountVars
<1>7. \A p \in Products : Promised[c][p] \in Nat
  <2> SUFFICES ASSUME NEW p \in Products PROVE Promised[c][p] \in Nat
    OBVIOUS
  <2>1. Promised[c][p] = Held(c, p) /\ Held(c, p) \in Nat
    BY PromisedValues, HeldValues DEF StockInv
  <2> QED
    BY <2>1
<1> QED
  BY <1>5, <1>6, <1>7

LEMMA StockCommandIsPromised ==
  ASSUME StockInv, StockInv', StockCommand
  PROVE  Account!Next
<1>1. ASSUME NEW k \in Keys, NEW kind \in ManualKinds, NEW p \in Products,
             NEW q \in (-MaxQuantity)..MaxQuantity, Mutate(k, kind, p, q)
      PROVE  Account!Next
  BY <1>1, MutateIsPromised
<1>2. ASSUME NEW s \in Sources, NEW p \in Products, NEW q \in 1..MaxQuantity, Reserve(s, p, q)
      PROVE  Account!Next
  <2> DEFINE demand == [x \in {p} |-> q]
  <2>1. DOMAIN demand \subseteq Products /\ \A x \in DOMAIN demand : demand[x] \in Nat
    BY StockAssumption
  <2>2. Hold(s, demand)
    BY <1>2 DEF Reserve
  <2> HIDE DEF demand
  <2> QED
    BY <2>1, <2>2, HoldIsPromised
<1>3. ASSUME NEW s \in Sources, NEW p \in Products, ReleaseReservation(s, p)
      PROVE  Account!Next
  <2>1. {p} \in SUBSET Active(s) /\ Mark(s, {p}, "released") /\ UNCHANGED onHand
    BY <1>3 DEF ReleaseReservation, Active
  <2> QED
    BY <2>1, ReleaseIsPromised
<1> QED
  BY <1>1, <1>2, <1>3 DEF StockCommand
=============================================================================
