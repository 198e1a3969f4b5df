------------------------- MODULE ConsignmentProofs --------------------------
(***************************************************************************)
(* Proofs about Consignment for any number of consignments, products,      *)
(* departments and workers, any quantities and any number of updates.       *)
(***************************************************************************)
EXTENDS Consignment, StockProofs

WorkType ==
  /\ status \in [Consignments -> Status]
  /\ line \in [Consignments -> [Lines -> Line]]
  /\ view \in [Workers -> View \cup {None}]

WorkInv == WorkType /\ StatusIsEarned

(* What a step does to the consignments if it leaves their lines alone: the   *)
(* quantities say after it what they said before it.                        *)
LEMMA SameQuantities ==
  ASSUME UNCHANGED line
  PROVE  \A c \in Consignments : /\ AllReady(c)' = AllReady(c)
                                 /\ AllPacked(c)' = AllPacked(c)
  BY DEF AllReady, AllPacked, LinesOf

LEMMA InitWorkInv == Init => WorkInv
<1> SUFFICES ASSUME Init PROVE WorkInv
  OBVIOUS
<1>1. NoLine \in Line
  BY DEF NoLine, Line
<1>2. WorkType
  BY <1>1 DEF WorkType, Init, Status, Lines
<1>3. StatusIsEarned
  BY DEF StatusIsEarned, Init
<1> QED
  BY <1>2, <1>3 DEF WorkInv

(* A command that changes the status of one consignment and no line keeps the *)
(* invariant if the quantities bear the new status out.                     *)
LEMMA StatusStep ==
  ASSUME WorkInv, NEW c \in Consignments, NEW from, NEW to \in Status,
         Become(c, from, to), UNCHANGED <<line, view>>,
         to \in {"ready", "packing", "packed", "outbound", "completed"} => AllReady(c),
         to \in {"packed", "outbound", "completed"} => AllPacked(c)
  PROVE  WorkInv'
<1> USE DEF WorkInv, WorkType, Become
<1>1. WorkType'
  OBVIOUS
<1>2. \A d \in Consignments \ {c} : status'[d] = status[d]
  OBVIOUS
<1>3. status'[c] = to
  OBVIOUS
<1>4. StatusIsEarned'
  BY <1>2, <1>3, SameQuantities DEF StatusIsEarned
<1> QED
  BY <1>1, <1>4

LEMMA CreateStep ==
  ASSUME WorkInv, NEW c \in Consignments, NEW quantity \in [Lines -> 0..MaxQuantity],
         Create(c, quantity)
  PROVE  WorkInv'
<1> USE DEF WorkInv, WorkType, Create, Become
<1>1. status' \in [Consignments -> Status]
  BY DEF Status
<1>2. line' \in [Consignments -> [Lines -> Line]]
  BY StockAssumption DEF Line, NoLine
<1>3. \A d \in Consignments \ {c} : status'[d] = status[d] /\ line'[d] = line[d]
  OBVIOUS
<1>4. \A d \in Consignments \ {c} : /\ AllReady(d)' = AllReady(d)
                                    /\ AllPacked(d)' = AllPacked(d)
  BY <1>3 DEF AllReady, AllPacked, LinesOf
<1>5. status'[c] = "created"
  OBVIOUS
<1>6. StatusIsEarned'
  BY <1>3, <1>4, <1>5 DEF StatusIsEarned
<1> QED
  BY <1>1, <1>2, <1>6

LEMMA ProgressStep ==
  ASSUME WorkInv, NEW w \in Workers, NEW ready \in Nat, NEW packed \in Nat,
         UpdateProgress(w, ready, packed)
  PROVE  WorkInv'
<1> DEFINE c == view[w].consignment
           l == view[w].line
<1> USE DEF UpdateProgress, WriteLine
<1>1. view[w] \in View
  BY DEF WorkInv, WorkType
<1>2. c \in Consignments /\ l \in Lines
  BY <1>1 DEF View
<1>3. /\ status[c] \in {"allocated", "picking", "ready", "packing"}
      /\ line' = [line EXCEPT ![c][l] = [required |-> @.required, ready |-> ready,
                                          packed |-> packed, version |-> @.version + 1]]
      /\ status' = status
  OBVIOUS
<1>4. line[c][l] \in Line
  BY <1>2 DEF WorkInv, WorkType
<1>5. WorkType'
  <2>1. line'[c][l] = [required |-> line[c][l].required, ready |-> ready,
                       packed |-> packed, version |-> line[c][l].version + 1]
    BY <1>2, <1>3, <1>4 DEF WorkInv, WorkType, Line
  <2>2. line'[c][l] \in Line
    BY <1>4, <2>1 DEF Line
  <2>3. \A d \in Consignments, k \in Lines : <<d, k>> # <<c, l>> => line'[d][k] = line[d][k]
    BY <1>2, <1>3 DEF WorkInv, WorkType
  <2>4. line' \in [Consignments -> [Lines -> Line]]
    BY <1>2, <1>3, <2>2, <2>3 DEF WorkInv, WorkType
  <2> QED
    BY <1>3, <2>4 DEF WorkInv, WorkType
<1>6. \A d \in Consignments \ {c} : line'[d] = line[d]
  BY <1>2, <1>3 DEF WorkInv, WorkType
<1>7. \A d \in Consignments \ {c} : /\ AllReady(d)' = AllReady(d)
                                    /\ AllPacked(d)' = AllPacked(d)
  BY <1>6 DEF AllReady, AllPacked, LinesOf
<1>8. /\ \A k \in Lines \ {l} : line'[c][k] = line[c][k]
      /\ line'[c][l].required = line[c][l].required
      /\ line'[c][l].ready = ready
  BY <1>2, <1>3, <1>4 DEF WorkInv, WorkType, Line
<1>9. status[c] \in {"ready", "packing"} => AllReady(c)'
  <2> SUFFICES ASSUME status[c] \in {"ready", "packing"} PROVE AllReady(c)'
    OBVIOUS
  <2>1. AllReady(c)
    BY <1>2 DEF WorkInv, StatusIsEarned
  <2>2. ready = line[c][l].required
    BY DEF FitsStatus, Current
  <2> QED
    BY <1>8, <2>1, <2>2 DEF AllReady, LinesOf
<1>10. StatusIsEarned'
  BY <1>2, <1>3, <1>7, <1>9 DEF WorkInv, StatusIsEarned
<1> QED
  BY <1>5, <1>10 DEF WorkInv

(* A worker who reads a line gets a line. *)
LEMMA ReadStep ==
  ASSUME WorkInv, NEW w \in Workers, NEW c \in Consignments, NEW l \in Lines,
         ReadLine(w, c, l)
  PROVE  WorkInv'
<1>1. [consignment |-> c, line |-> l, read |-> line[c][l]] \in View
  BY DEF WorkInv, WorkType, View
<1>2. WorkType'
  BY <1>1 DEF ReadLine, WorkInv, WorkType
<1>3. StatusIsEarned'
  BY SameQuantities DEF ReadLine, WorkInv, StatusIsEarned
<1> QED
  BY <1>2, <1>3 DEF WorkInv

LEMMA TransitionStep ==
  ASSUME WorkInv, NEW c \in Consignments, NEW t \in ValidTransitions,
         Transition(c, t[1], t[2])
  PROVE  WorkInv'
<1> USE DEF Transition, ValidTransitions
<1>1. t[2] \in Status /\ Become(c, {t[1]}, t[2]) /\ UNCHANGED <<line, view>>
  BY DEF Status
<1>2. status[c] = t[1]
  BY DEF Become
<1>3. t[2] \in {"ready", "packing", "packed", "outbound", "completed"} => AllReady(c)
  BY <1>2 DEF WorkInv, StatusIsEarned
<1>4. t[2] \in {"packed", "outbound", "completed"} => AllPacked(c)
  BY <1>2 DEF WorkInv, StatusIsEarned
<1> QED
  BY <1>1, <1>3, <1>4, StatusStep

LEMMA WorkInvStep == WorkInv /\ [Next]_vars => WorkInv'
<1> SUFFICES ASSUME WorkInv, [Next]_vars PROVE WorkInv'
  OBVIOUS
<1>1. CASE UNCHANGED consignmentVars
  <2>1. UNCHANGED <<status, line, view>>
    BY <1>1 DEF consignmentVars
  <2>2. StatusIsEarned'
    BY <2>1, SameQuantities DEF WorkInv, StatusIsEarned
  <2> QED
    BY <2>1, <2>2 DEF WorkInv, WorkType
<1>2. ASSUME NEW c \in Consignments, NEW quantity \in [Lines -> 0..MaxQuantity],
             Create(c, quantity)
      PROVE  WorkInv'
  BY <1>2, CreateStep
<1>3. ASSUME NEW c \in Consignments, Allocate(c)
      PROVE  WorkInv'
  BY <1>3, StatusStep DEF Allocate, Status
<1>4. ASSUME NEW c \in Consignments, ConfirmOutbound(c)
      PROVE  WorkInv'
  <2>1. status[c] = "packed" /\ Become(c, {"packed"}, "outbound")
    BY <1>4 DEF ConfirmOutbound, Become
  <2>2. AllReady(c) /\ AllPacked(c)
    BY <2>1 DEF WorkInv, StatusIsEarned
  <2> QED
    BY <1>4, <2>1, <2>2, StatusStep DEF ConfirmOutbound, Status
<1>5. ASSUME NEW c \in Consignments, Cancel(c)
      PROVE  WorkInv'
  <2>1. /\ Become(c, Status \ {"none", "outbound", "completed", "cancelled"}, "cancelled")
        /\ UNCHANGED <<line, view>>
    BY <1>5 DEF Cancel
  <2> QED
    BY <2>1, StatusStep DEF Status
<1>6. ASSUME NEW c \in Consignments, NEW t \in ValidTransitions, Transition(c, t[1], t[2])
      PROVE  WorkInv'
  BY <1>6, TransitionStep
<1>7. ASSUME Work PROVE WorkInv'
  <2>1. ASSUME NEW w \in Workers, NEW c \in Consignments, NEW l \in Lines, ReadLine(w, c, l)
        PROVE  WorkInv'
    BY <2>1, ReadStep
  <2>2. ASSUME NEW w \in Workers, NEW ready \in 0..MaxQuantity, NEW packed \in 0..MaxQuantity,
               UpdateProgress(w, ready, packed)
        PROVE  WorkInv'
    BY <2>2, ProgressStep, StockAssumption
  <2> QED
    BY <1>7, <2>1, <2>2 DEF Work
<1> QED
  BY <1>1, <1>2, <1>3, <1>4, <1>5, <1>6, <1>7 DEF Next, Manager, vars, consignmentVars

----------------------------------------------------------------------------
(* What a consignment needs. *)

LEMMA RequirementValues ==
  ASSUME WorkType, NEW c \in Consignments
  PROVE  /\ DOMAIN Requirement(c) \subseteq Products
         /\ \A p \in DOMAIN Requirement(c) : Requirement(c)[p] \in Nat
<1>1. LinesOf(c) \subseteq Products \X Departments
  BY DEF LinesOf, Lines
<1>2. DOMAIN Requirement(c) \subseteq Products
  BY <1>1 DEF Requirement
<1>3. ASSUME NEW p \in DOMAIN Requirement(c) PROVE Requirement(c)[p] \in Nat
  <2> DEFINE ofProduct == {k \in LinesOf(c) : k[1] = p}
             required == [l \in ofProduct |-> line[c][l].required]
  <2>1. Requirement(c)[p] = SumFunctionOnSet(required, ofProduct)
    BY DEF Requirement, SumFunction
  <2>2. IsFiniteSet(ofProduct)
    <3>1. ofProduct \subseteq {p} \X Departments
      BY <1>1
    <3>2. IsFiniteSet({p} \X Departments)
      BY FS_Singleton, FS_Product, ConsignmentAssumption
    <3> QED
      BY <3>1, <3>2, FS_Subset
  <2>3. \A l \in ofProduct : required[l] \in Nat
    <3> SUFFICES ASSUME NEW l \in ofProduct PROVE line[c][l].required \in Nat
      OBVIOUS
    <3>1. line[c][l] \in Line
      BY DEF WorkType, LinesOf
    <3> QED
      BY <3>1 DEF Line
  <2> HIDE DEF ofProduct, required
  <2> QED
    BY <2>1, <2>2, <2>3, SumIsNat
<1> QED
  BY <1>2, <1>3

(* It does not change while nobody adds or removes a line. *)
LEMMA RequirementKept ==
  ASSUME NEW c \in Consignments,
         \A l \in Lines : line'[c][l].required = line[c][l].required
  PROVE  Requirement(c)' = Requirement(c)
<1>1. LinesOf(c)' = LinesOf(c)
  BY DEF LinesOf
<1>2. \A l \in LinesOf(c) : line'[c][l].required = line[c][l].required
  BY DEF LinesOf
<1> QED
  BY <1>1, <1>2 DEF Requirement

----------------------------------------------------------------------------
(* The inductive invariant.  What a consignment needs was reserved for it when  *)
(* it was allocated; the reservation may have been released since through the   *)
(* endpoint of the inventory module, but its quantity stays.                   *)
ReservedAsRequired ==
  \A c \in Consignments :
    status[c] \in {"allocated", "picking", "ready", "packing", "packed"} =>
      \A p \in DOMAIN Requirement(c) : /\ reservation[c][p].status # "none"
                                       /\ reservation[c][p].quantity = Requirement(c)[p]

(* What a worker read is a past state of the line, the present one if the       *)
(* versions agree; a consignment that does not exist has no lines to read.      *)
ViewsAreOfThePast ==
  /\ \A c \in Consignments : status[c] = "none" => \A l \in Lines : line[c][l] = NoLine
  /\ \A w \in Workers : view[w] # None =>
       /\ status[view[w].consignment] # "none"
       /\ view[w].read.version <= Current(w).version
       /\ view[w].read.version = Current(w).version => view[w].read = Current(w)

ConsignmentInv == /\ StockInv
                  /\ WorkInv
                  /\ ReservedAsRequired
                  /\ ShipsInFullOrNotAtAll
                  /\ ViewsAreOfThePast

LEMMA InitConsignmentInv == Init => ConsignmentInv
<1> SUFFICES ASSUME Init PROVE ConsignmentInv
  OBVIOUS
<1>1. StockInv /\ WorkInv
  BY InitStockInv, InitWorkInv DEF Init
<1>2. ReservedAsRequired /\ ViewsAreOfThePast
  BY DEF Init, ReservedAsRequired, ViewsAreOfThePast
<1>3. ShipsInFullOrNotAtAll
  BY DEF Init, InitStock, ShipsInFullOrNotAtAll, Shipped, Rows
<1> QED
  BY <1>1, <1>2, <1>3 DEF ConsignmentInv

LEMMA AllocateHolds ==
  ASSUME ConsignmentInv, NEW c \in Consignments, Allocate(c)
  PROVE  /\ c \in Sources /\ Hold(c, Requirement(c))
         /\ DOMAIN Requirement(c) \subseteq Products
         /\ \A p \in DOMAIN Requirement(c) : Requirement(c)[p] \in Nat
<1>1. c \in Sources
  BY ConsignmentAssumption
<1>2. Hold(c, Requirement(c))
  BY DEF Allocate, ReserveConsignment
<1>3. /\ DOMAIN Requirement(c) \subseteq Products
      /\ \A p \in DOMAIN Requirement(c) : Requirement(c)[p] \in Nat
  BY RequirementValues DEF ConsignmentInv, WorkInv
<1> QED
  BY <1>1, <1>2, <1>3

(* Every step, by what it does to the stock and to the consignments. *)
LEMMA ConsignmentCases ==
  ASSUME [Next]_vars
  PROVE  \/ UNCHANGED stockVars
         \/ StockCommand /\ UNCHANGED consignmentVars
         \/ \E c \in Consignments : Allocate(c)
         \/ \E c \in Consignments : ConfirmOutbound(c)
         \/ \E c \in Consignments : Cancel(c) /\ ReleaseConsignment(c)
BY DEF Next, Manager, Work, vars, Create, Transition, Cancel, ReadLine, UpdateProgress, WriteLine

LEMMA StockStep == ConsignmentInv /\ [Next]_vars => StockInv'
<1> SUFFICES ASSUME ConsignmentInv, [Next]_vars PROVE StockInv'
  OBVIOUS
<1>1. StockInv
  BY DEF ConsignmentInv
<1>2. CASE UNCHANGED stockVars
  BY <1>1, <1>2, StockStutters
<1>3. CASE StockCommand
  BY <1>1, <1>3, StockCommandKeepsInv
<1>4. ASSUME NEW c \in Consignments, Allocate(c) PROVE StockInv'
  BY <1>1, <1>4, AllocateHolds, HoldKeepsInv
<1>5. ASSUME NEW c \in Consignments, ConfirmOutbound(c) PROVE StockInv'
  BY <1>1, <1>5, ConfirmKeepsInv, ConsignmentAssumption DEF ConfirmOutbound
<1>6. ASSUME NEW c \in Consignments, ReleaseConsignment(c) PROVE StockInv'
  BY <1>1, <1>6, ReleaseConsignmentKeepsInv, ConsignmentAssumption
<1> QED
  BY <1>2, <1>3, <1>4, <1>5, <1>6, ConsignmentCases

----------------------------------------------------------------------------
(* Reservations bear the requirement out. *)

Holding == {"allocated", "picking", "ready", "packing", "packed"}

IsReserved(c) ==
  \A p \in DOMAIN Requirement(c) : /\ reservation[c][p].status # "none"
                                   /\ reservation[c][p].quantity = Requirement(c)[p]

LEMMA StaysReserved ==
  ASSUME ConsignmentInv, NEW c \in Consignments, IsReserved(c),
         \A l \in Lines : line'[c][l].required = line[c][l].required,
         \A p \in Products : reservation[c][p].status # "none" =>
           /\ reservation'[c][p].status # "none"
           /\ reservation'[c][p].quantity = reservation[c][p].quantity
  PROVE  IsReserved(c)'
<1>1. Requirement(c)' = Requirement(c)
  BY RequirementKept
<1>2. DOMAIN Requirement(c) \subseteq Products
  BY RequirementValues DEF ConsignmentInv, WorkInv
<1> QED
  BY <1>1, <1>2 DEF IsReserved

LEMMA ReservedStep == ConsignmentInv /\ [Next]_vars => ReservedAsRequired'
<1> SUFFICES ASSUME ConsignmentInv, [Next]_vars, NEW c \in Consignments, status'[c] \in Holding
             PROVE  IsReserved(c)'
  BY DEF ReservedAsRequired, Holding, IsReserved
<1>1. status[c] \in Holding => IsReserved(c)
  BY DEF ConsignmentInv, ReservedAsRequired, Holding, IsReserved
<1>2. /\ status \in [Consignments -> Status]
      /\ line \in [Consignments -> [Lines -> Line]]
      /\ reservation \in [Sources -> [Products -> Reservation]]
      /\ c \in Sources
  BY ConsignmentAssumption DEF ConsignmentInv, WorkInv, WorkType, StockInv, StockTypeOK
<1>3. CASE UNCHANGED <<reservation, consignmentVars>>
  BY <1>1, <1>3, StaysReserved DEF consignmentVars
<1>4. CASE StockCommand /\ UNCHANGED consignmentVars
  <2>1. \A p \in Products : reservation[c][p].status # "none" =>
           /\ reservation'[c][p].status # "none"
           /\ reservation'[c][p].quantity = reservation[c][p].quantity
    BY <1>2, <1>4, ReservationsLast DEF ConsignmentInv, StockInv
  <2> QED
    BY <1>1, <1>4, <2>1, StaysReserved DEF consignmentVars
<1>5. ASSUME NEW d \in Consignments, NEW quantity \in [Lines -> 0..MaxQuantity],
             Create(d, quantity)
      PROVE  IsReserved(c)'
  <2>1. c # d
    BY <1>2, <1>5 DEF Create, Become, Holding
  <2>2. /\ status'[c] = status[c] /\ line'[c] = line[c]
        /\ reservation' = reservation
    BY <1>2, <1>5, <2>1 DEF Create, Become, stockVars
  <2> QED
    BY <1>1, <2>2, StaysReserved
<1>6. ASSUME NEW d \in Consignments, Allocate(d)
      PROVE  IsReserved(c)'
  <2>1. UNCHANGED line
    BY <1>6 DEF Allocate
  <2>2. /\ \A x \in Sources \ {d} : reservation'[x] = reservation[x]
        /\ \A p \in Products : reservation'[d][p] =
             IF p \in DOMAIN Requirement(d)
             THEN [status |-> "active", quantity |-> Requirement(d)[p]]
             ELSE reservation[d][p]
    BY <1>6, AllocateHolds, HoldKeepsInv DEF ConsignmentInv
  <2>3. CASE c # d
    <3>1. status'[c] = status[c]
      BY <1>2, <1>6, <2>3 DEF Allocate, Become
    <3> QED
      BY <1>1, <1>2, <2>1, <2>2, <2>3, <3>1, StaysReserved
  <2>4. CASE c = d
    <3>1. Requirement(c)' = Requirement(c)
      BY <2>1, RequirementKept
    <3>2. DOMAIN Requirement(c) \subseteq Products
      BY RequirementValues DEF ConsignmentInv, WorkInv
    <3>3. ASSUME NEW p \in DOMAIN Requirement(c)
          PROVE  /\ reservation'[c][p].status # "none"
                 /\ reservation'[c][p].quantity = Requirement(c)[p]
      <4>1. reservation'[c][p] = [status |-> "active", quantity |-> Requirement(c)[p]]
        BY <2>2, <2>4, <3>2
      <4> QED
        BY <4>1
    <3> QED
      BY <3>1, <3>3 DEF IsReserved
  <2> QED
    BY <2>3, <2>4
<1>7. ASSUME NEW d \in Consignments, ConfirmOutbound(d)
      PROVE  IsReserved(c)'
  <2>1. c # d
    BY <1>2, <1>7 DEF ConfirmOutbound, Become, Holding
  <2>2. /\ status'[c] = status[c] /\ line' = line /\ reservation'[c] = reservation[c]
    BY <1>2, <1>7, <2>1 DEF ConfirmOutbound, Become, ConfirmConsignmentOutbound, Mark
  <2> QED
    BY <1>1, <2>2, StaysReserved
<1>8. ASSUME NEW d \in Consignments, Cancel(d)
      PROVE  IsReserved(c)'
  <2>1. c # d
    BY <1>2, <1>8 DEF Cancel, Become, Holding
  <2>2. status'[c] = status[c] /\ line' = line
    BY <1>2, <1>8, <2>1 DEF Cancel, Become
  <2>3. reservation'[c] = reservation[c]
    BY <1>2, <1>8, <2>1 DEF Cancel, ReleaseConsignment, Mark, stockVars
  <2> QED
    BY <1>1, <2>2, <2>3, StaysReserved
<1>9. ASSUME NEW d \in Consignments, NEW t \in ValidTransitions, Transition(d, t[1], t[2])
      PROVE  IsReserved(c)'
  <2>1. status[c] \in Holding
    BY <1>2, <1>9 DEF Transition, ValidTransitions, Become, Holding
  <2>2. line' = line /\ reservation' = reservation
    BY <1>9 DEF Transition, stockVars
  <2> QED
    BY <1>1, <2>1, <2>2, StaysReserved
<1>10. CASE Work
  <2>1. status' = status /\ reservation' = reservation
    BY <1>10 DEF Work, ReadLine, UpdateProgress, WriteLine, stockVars
  <2>2. \A l \in Lines : line'[c][l].required = line[c][l].required
    <3>1. CASE line' = line
      BY <3>1
    <3>2. ASSUME NEW w \in Workers, NEW ready \in 0..MaxQuantity, NEW packed \in 0..MaxQuantity,
                 WriteLine(w, ready, packed), NEW l \in Lines
          PROVE  line'[c][l].required = line[c][l].required
      BY <1>2, <3>2 DEF WriteLine, Line
    <3> QED
      BY <1>10, <3>1, <3>2 DEF Work, ReadLine, UpdateProgress
  <2> QED
    BY <1>1, <2>1, <2>2, StaysReserved
<1>11. UNCHANGED vars => UNCHANGED <<reservation, consignmentVars>>
  BY DEF vars, stockVars
<1> QED
  BY <1>3, <1>4, <1>5, <1>6, <1>7, <1>8, <1>9, <1>10, <1>11 DEF Next, Manager

----------------------------------------------------------------------------
(* Stock leaves in full or not at all. *)

Left == {"outbound", "completed"}

TookAll(c) ==
  \A p \in DOMAIN Requirement(c) : \E row \in Rows(p) :
    row.kind = "consignment_out" /\ row.ref = c /\ row.delta = -Requirement(c)[p]

Ships(c) == IF status[c] \in Left THEN TookAll(c) ELSE Shipped(c) = {}

(* The ledger grows, but by nothing that left for c. *)
LEMMA StaysShipped ==
  ASSUME ConsignmentInv, NEW c \in Consignments,
         \A l \in Lines : line'[c][l].required = line[c][l].required,
         status'[c] \in Left <=> status[c] \in Left,
         \A p \in Products :
           /\ Rows(p) \subseteq Rows(p)'
           /\ \A row \in Rows(p)' \ Rows(p) : row.kind # "consignment_out" \/ row.ref # c
  PROVE  Ships(c)'
<1>1. Ships(c)
  BY DEF ConsignmentInv, ShipsInFullOrNotAtAll, Ships, TookAll, Left
<1>2. Requirement(c)' = Requirement(c)
  BY RequirementKept
<1>3. DOMAIN Requirement(c) \subseteq Products
  BY RequirementValues DEF ConsignmentInv, WorkInv
<1>4. TookAll(c) => TookAll(c)'
  BY <1>2, <1>3 DEF TookAll
<1>5. Shipped(c) = {} => Shipped(c)' = {}
  BY DEF Shipped
<1> QED
  BY <1>1, <1>4, <1>5 DEF Ships

(* Everything that was reserved leaves, in one movement. *)
LEMMA OutboundAddsRows ==
  ASSUME ConsignmentInv, NEW d \in Consignments, ConfirmOutbound(d), NEW p \in Products
  PROVE  /\ p \notin Active(d) => Rows(p)' = Rows(p)
         /\ p \in Active(d) => \E row : /\ row.kind = "consignment_out" /\ row.ref = d
                                        /\ row.delta = -reservation[d][p].quantity
                                        /\ Rows(p)' = Rows(p) \cup {row}
<1> DEFINE delta == [x \in Active(d) |-> -reservation[d][x].quantity]
<1>1. Post("consignment_out", d, delta)
  BY DEF ConfirmOutbound, ConfirmConsignmentOutbound
<1>2. DOMAIN delta = Active(d) /\ \A x \in Active(d) : delta[x] = -reservation[d][x].quantity
  OBVIOUS
<1> HIDE DEF delta
<1>3. /\ p \notin DOMAIN delta => Rows(p)' = Rows(p)
      /\ p \in DOMAIN delta =>
           \E row : /\ row.kind = "consignment_out" /\ row.ref = d /\ row.delta = delta[p]
                    /\ Rows(p)' = Rows(p) \cup {row}
  BY <1>1, PostAddsRows DEF ConsignmentInv, StockInv
<1> QED
  BY <1>2, <1>3

LEMMA OutboundTakesAll ==
  ASSUME ConsignmentInv, NEW c \in Consignments, ConfirmOutbound(c)
  PROVE  TookAll(c)'
<1>1. Requirement(c)' = Requirement(c)
  BY RequirementKept DEF ConfirmOutbound
<1>2. DOMAIN Requirement(c) \subseteq Products
  BY RequirementValues DEF ConsignmentInv, WorkInv
<1>3. IsReserved(c)
  BY DEF ConfirmOutbound, Become, ConsignmentInv, ReservedAsRequired, IsReserved
<1>4. ASSUME NEW p \in DOMAIN Requirement(c)
      PROVE  \E row \in Rows(p)' : /\ row.kind = "consignment_out" /\ row.ref = c
                                   /\ row.delta = -Requirement(c)[p]
  <2>1. p \in Products /\ c \in Sources
    BY <1>2, ConsignmentAssumption
  <2>2. reservation[c][p] \in Reservation
    BY <2>1 DEF ConsignmentInv, StockInv, StockTypeOK
  <2>3. reservation[c][p].status \notin {"none", "released"}
    BY <1>3, <2>1 DEF IsReserved, ConfirmOutbound, ConfirmConsignmentOutbound
  <2>4. p \in Active(c)
    BY <2>1, <2>2, <2>3 DEF Active, Reservation
  <2>5. PICK row : /\ row.kind = "consignment_out" /\ row.ref = c
                   /\ row.delta = -reservation[c][p].quantity
                   /\ Rows(p)' = Rows(p) \cup {row}
    BY <2>1, <2>4, OutboundAddsRows
  <2>6. reservation[c][p].quantity = Requirement(c)[p]
    BY <1>3 DEF IsReserved
  <2> QED
    BY <2>5, <2>6
<1> QED
  BY <1>1, <1>4 DEF TookAll

LEMMA ShipsStep == ConsignmentInv /\ [Next]_vars => ShipsInFullOrNotAtAll'
<1> SUFFICES ASSUME ConsignmentInv, [Next]_vars, NEW c \in Consignments PROVE Ships(c)'
  BY DEF ShipsInFullOrNotAtAll, Ships, TookAll, Left
<1>1. /\ status \in [Consignments -> Status]
      /\ line \in [Consignments -> [Lines -> Line]]
      /\ StockTypeOK /\ References = Consignments
  BY ConsignmentAssumption DEF ConsignmentInv, WorkInv, WorkType, StockInv
<1>2. Ships(c)
  BY DEF ConsignmentInv, ShipsInFullOrNotAtAll, Ships, TookAll, Left
<1>3. UNCHANGED ledger => \A p \in Products : Rows(p)' = Rows(p)
  BY DEF Rows
<1>4. CASE UNCHANGED <<ledger, consignmentVars>>
  BY <1>3, <1>4, StaysShipped DEF consignmentVars
<1>5. CASE StockCommand /\ UNCHANGED consignmentVars
  <2>1. \A p \in Products :
          /\ Rows(p) \subseteq Rows(p)'
          /\ \A row \in Rows(p)' \ Rows(p) : row.kind # "consignment_out" \/ row.ref # c
    BY <1>1, <1>5, EndpointsAddManualRows DEF ManualKinds
  <2> QED
    BY <1>5, <2>1, StaysShipped DEF consignmentVars
<1>6. ASSUME NEW d \in Consignments, NEW quantity \in [Lines -> 0..MaxQuantity],
             Create(d, quantity)
      PROVE  Ships(c)'
  <2>1. ledger' = ledger
    BY <1>6 DEF Create, stockVars
  <2>2. CASE c # d
    <3>1. status'[c] = status[c] /\ line'[c] = line[c]
      BY <1>1, <1>6, <2>2 DEF Create, Become
    <3> QED
      BY <1>3, <2>1, <3>1, StaysShipped
  <2>3. CASE c = d
    <3>1. status[c] \notin Left /\ status'[c] \notin Left
      BY <1>1, <1>6, <2>3 DEF Create, Become, Left
    <3>2. Shipped(c)' = Shipped(c)
      BY <1>3, <2>1 DEF Shipped
    <3> QED
      BY <1>2, <3>1, <3>2 DEF Ships
  <2> QED
    BY <2>2, <2>3
<1>7. ASSUME NEW d \in Consignments, Allocate(d) PROVE Ships(c)'
  <2>1. UNCHANGED <<ledger, line>>
    BY <1>7 DEF Allocate, ReserveConsignment, Hold
  <2>2. status'[c] \in Left <=> status[c] \in Left
    BY <1>1, <1>7 DEF Allocate, Become, Left
  <2> QED
    BY <1>3, <2>1, <2>2, StaysShipped
<1>8. ASSUME NEW d \in Consignments, Cancel(d) PROVE Ships(c)'
  <2>1. UNCHANGED <<ledger, line>>
    BY <1>8 DEF Cancel, ReleaseConsignment, stockVars
  <2>2. status[d] \notin Left /\ status' = [status EXCEPT ![d] = "cancelled"]
    BY <1>8 DEF Cancel, Become, Left
  <2>3. status'[c] \in Left <=> status[c] \in Left
    BY <1>1, <2>2 DEF Left
  <2> QED
    BY <1>3, <2>1, <2>3, StaysShipped
<1>9. ASSUME NEW d \in Consignments, NEW t \in ValidTransitions, Transition(d, t[1], t[2])
       PROVE  Ships(c)'
  <2>1. UNCHANGED <<ledger, line>>
    BY <1>9 DEF Transition, stockVars
  <2>2. status'[c] \in Left <=> status[c] \in Left
    BY <1>1, <1>9 DEF Transition, ValidTransitions, Become, Left
  <2> QED
    BY <1>3, <2>1, <2>2, StaysShipped
<1>10. ASSUME NEW d \in Consignments, ConfirmOutbound(d) PROVE Ships(c)'
  <2>1. CASE c # d
    <3>1. status'[c] = status[c] /\ line' = line
      BY <1>1, <1>10, <2>1 DEF ConfirmOutbound, Become
    <3>2. \A p \in Products :
            /\ Rows(p) \subseteq Rows(p)'
            /\ \A row \in Rows(p)' \ Rows(p) : row.kind # "consignment_out" \/ row.ref # c
      BY <1>10, <2>1, OutboundAddsRows
    <3> QED
      BY <3>1, <3>2, StaysShipped
  <2>2. CASE c = d
    <3>1. status'[c] \in Left
      BY <1>1, <1>10, <2>2 DEF ConfirmOutbound, Become, Left
    <3>2. TookAll(c)'
      BY <1>10, <2>2, OutboundTakesAll
    <3> QED
      BY <3>1, <3>2 DEF Ships
  <2> QED
    BY <2>1, <2>2
<1>11. CASE Work
  <2>1. status' = status /\ ledger' = ledger
    BY <1>11 DEF Work, ReadLine, UpdateProgress, WriteLine, stockVars
  <2>2. \A l \in Lines : line'[c][l].required = line[c][l].required
    <3>1. CASE line' = line
      BY <3>1
    <3>2. ASSUME NEW w \in Workers, NEW ready \in 0..MaxQuantity, NEW packed \in 0..MaxQuantity,
                 WriteLine(w, ready, packed), NEW l \in Lines
          PROVE  line'[c][l].required = line[c][l].required
      BY <1>1, <3>2 DEF WriteLine, Line
    <3> QED
      BY <1>11, <3>1, <3>2 DEF Work, ReadLine, UpdateProgress
  <2> QED
    BY <1>3, <2>1, <2>2, StaysShipped
<1>12. UNCHANGED vars => UNCHANGED <<ledger, consignmentVars>>
  BY DEF vars, stockVars
<1> QED
  BY <1>4, <1>5, <1>6, <1>7, <1>8, <1>9, <1>10, <1>11, <1>12 DEF Next, Manager

----------------------------------------------------------------------------
(* What the workers have on the screen. *)

(* A worker's update is one of a line that he read as it is. *)
LEMMA ProgressIsSeen ==
  ASSUME ConsignmentInv, NEW w \in Workers, NEW ready \in Nat, NEW packed \in Nat,
         UpdateProgress(w, ready, packed)
  PROVE  /\ view[w] \in View /\ view[w] # None
         /\ view[w].read = Current(w)
         /\ \A c \in Consignments, l \in Lines : <<c, l>> # <<view[w].consignment, view[w].line>> =>
              line'[c][l] = line[c][l]
         /\ line'[view[w].consignment][view[w].line].version = Current(w).version + 1
<1>1. view[w] \in View /\ view[w] # None
  BY DEF UpdateProgress, WriteLine, ConsignmentInv, WorkInv, WorkType
<1>2. view[w].read = Current(w)
  BY <1>1 DEF UpdateProgress, IsUpToDate, ConsignmentInv, ViewsAreOfThePast
<1> DEFINE c == view[w].consignment
           l == view[w].line
<1>3. c \in Consignments /\ l \in Lines
  BY <1>1 DEF View
<1>4. line \in [Consignments -> [Lines -> Line]]
  BY DEF ConsignmentInv, WorkInv, WorkType
<1>5. line' = [line EXCEPT ![c][l] = [required |-> @.required, ready |-> ready,
                                       packed |-> packed, version |-> @.version + 1]]
  BY DEF UpdateProgress, WriteLine
<1>6. \A d \in Consignments, k \in Lines : <<d, k>> # <<c, l>> => line'[d][k] = line[d][k]
  BY <1>3, <1>4, <1>5
<1>7. line'[c][l] = [required |-> line[c][l].required, ready |-> ready,
                     packed |-> packed, version |-> line[c][l].version + 1]
  BY <1>3, <1>4, <1>5
<1>8. line'[c][l].version = Current(w).version + 1
  BY <1>7 DEF Current
<1> QED
  BY <1>1, <1>2, <1>6, <1>8

(* A screen shows the past as long as its line only gets newer versions. *)
LEMMA StaysOfThePast ==
  ASSUME ConsignmentInv, NEW w \in Workers, view'[w] = view[w], view[w] # None,
         status'[view[w].consignment] # "none",
         \/ Current(w)' = Current(w)
         \/ Current(w)'.version = Current(w).version + 1
  PROVE  /\ status'[view'[w].consignment] # "none"
         /\ view'[w].read.version <= Current(w)'.version
         /\ view'[w].read.version = Current(w)'.version => view'[w].read = Current(w)'
<1>1. /\ view[w].read.version <= Current(w).version
      /\ view[w].read.version = Current(w).version => view[w].read = Current(w)
  BY DEF ConsignmentInv, ViewsAreOfThePast
<1>2. view[w] \in View
  BY DEF ConsignmentInv, WorkInv, WorkType
<1>3. view[w].read \in Line /\ Current(w) \in Line
  BY <1>2 DEF View, Current, ConsignmentInv, WorkInv, WorkType
<1>4. view[w].read.version \in Nat /\ Current(w).version \in Nat
  BY <1>3 DEF Line
<1> QED
  BY <1>1, <1>4

LEMMA ViewsStep == ConsignmentInv /\ [Next]_vars => ViewsAreOfThePast'
<1> SUFFICES ASSUME ConsignmentInv, [Next]_vars PROVE ViewsAreOfThePast'
  OBVIOUS
<1>1. /\ status \in [Consignments -> Status]
      /\ line \in [Consignments -> [Lines -> Line]]
      /\ view \in [Workers -> View \cup {None}]
  BY DEF ConsignmentInv, WorkInv, WorkType
<1>2. /\ \A c \in Consignments : status[c] = "none" => \A l \in Lines : line[c][l] = NoLine
      /\ \A w \in Workers : view[w] # None =>
           /\ view[w].consignment \in Consignments /\ view[w].line \in Lines
           /\ status[view[w].consignment] # "none"
  BY <1>1 DEF ConsignmentInv, ViewsAreOfThePast, View
<1>3. CASE /\ UNCHANGED <<line, view>>
           /\ \A c \in Consignments : status'[c] = "none" <=> status[c] = "none"
  <2>1. \A w \in Workers : Current(w)' = Current(w)
    BY <1>3 DEF Current
  <2>2. ASSUME NEW w \in Workers, view'[w] # None
        PROVE  /\ status'[view'[w].consignment] # "none"
               /\ view'[w].read.version <= Current(w)'.version
               /\ view'[w].read.version = Current(w)'.version => view'[w].read = Current(w)'
    BY <1>2, <1>3, <2>1, <2>2, StaysOfThePast
  <2> QED
    BY <1>2, <1>3, <2>2 DEF ViewsAreOfThePast
<1>4. ASSUME NEW c \in Consignments, NEW quantity \in [Lines -> 0..MaxQuantity],
             Create(c, quantity)
      PROVE  ViewsAreOfThePast'
  <2>1. /\ status[c] = "none" /\ status'[c] = "created"
        /\ \A d \in Consignments \ {c} : status'[d] = status[d] /\ line'[d] = line[d]
        /\ view' = view
    BY <1>1, <1>4 DEF Create, Become
  <2>2. ASSUME NEW w \in Workers, view'[w] # None
        PROVE  /\ status'[view'[w].consignment] # "none"
               /\ view'[w].read.version <= Current(w)'.version
               /\ view'[w].read.version = Current(w)'.version => view'[w].read = Current(w)'
    <3>1. view[w].consignment \in Consignments \ {c}
      BY <1>2, <2>1, <2>2
    <3>2. Current(w)' = Current(w)
      BY <2>1, <3>1 DEF Current
    <3> QED
      BY <1>2, <2>1, <2>2, <3>1, <3>2, StaysOfThePast
  <2> QED
    BY <1>2, <2>1, <2>2 DEF ViewsAreOfThePast
<1>5. ASSUME NEW w \in Workers, NEW c \in Consignments, NEW l \in Lines, ReadLine(w, c, l)
      PROVE  ViewsAreOfThePast'
  <2>1. /\ UNCHANGED <<status, line>>
        /\ \A v \in Workers \ {w} : view'[v] = view[v]
        /\ view'[w] = [consignment |-> c, line |-> l, read |-> line[c][l]]
    BY <1>1, <1>5 DEF ReadLine
  <2>2. view'[w].consignment = c /\ view'[w].line = l /\ view'[w].read = line[c][l]
    BY <2>1
  <2>3. status[c] # "none"
    BY <1>2, <1>5 DEF ReadLine, LinesOf, NoLine
  <2>4. Current(w)' = line[c][l] /\ line[c][l].version \in Nat
    <3>1. line[c][l] \in Line
      BY <1>1
    <3> QED
      BY <2>1, <2>2, <3>1 DEF Current, Line
  <2>5. ASSUME NEW v \in Workers \ {w}, view'[v] # None
        PROVE  /\ status'[view'[v].consignment] # "none"
               /\ view'[v].read.version <= Current(v)'.version
               /\ view'[v].read.version = Current(v)'.version => view'[v].read = Current(v)'
    <3>1. Current(v)' = Current(v)
      BY <2>1 DEF Current
    <3> QED
      BY <1>2, <2>1, <2>5, <3>1, StaysOfThePast
  <2>6. ASSUME NEW v \in Workers, view'[v] # None
        PROVE  /\ status'[view'[v].consignment] # "none"
               /\ view'[v].read.version <= Current(v)'.version
               /\ view'[v].read.version = Current(v)'.version => view'[v].read = Current(v)'
    <3>1. CASE v = w
      BY <2>1, <2>2, <2>3, <2>4, <3>1
    <3>2. CASE v # w
      BY <2>5, <2>6, <3>2
    <3> QED
      BY <3>1, <3>2
  <2> QED
    BY <1>2, <2>1, <2>6 DEF ViewsAreOfThePast
<1>6. ASSUME NEW w \in Workers, NEW ready \in Nat, NEW packed \in Nat,
             UpdateProgress(w, ready, packed)
      PROVE  ViewsAreOfThePast'
  <2> DEFINE c == view[w].consignment
             l == view[w].line
  <2>1. /\ \A d \in Consignments, k \in Lines : <<d, k>> # <<c, l>> => line'[d][k] = line[d][k]
        /\ line'[c][l].version = line[c][l].version + 1
        /\ view[w] # None
    BY <1>6, ProgressIsSeen DEF Current
  <2>2. UNCHANGED <<status, view>>
    BY <1>6 DEF UpdateProgress, WriteLine
  <2>3. ASSUME NEW v \in Workers, view'[v] # None
        PROVE  /\ status'[view'[v].consignment] # "none"
               /\ view'[v].read.version <= Current(v)'.version
               /\ view'[v].read.version = Current(v)'.version => view'[v].read = Current(v)'
    <3>1. CASE view[v].consignment = c /\ view[v].line = l
      <4>1. Current(v)'.version = Current(v).version + 1
        BY <2>1, <2>2, <3>1 DEF Current
      <4> QED
        BY <1>2, <2>2, <2>3, <4>1, StaysOfThePast
    <3>2. CASE ~(view[v].consignment = c /\ view[v].line = l)
      <4>1. Current(v)' = Current(v)
        BY <1>2, <2>1, <2>2, <2>3, <3>2 DEF Current
      <4> QED
        BY <1>2, <2>2, <2>3, <4>1, StaysOfThePast
    <3> QED
      BY <3>1, <3>2
  <2>4. \A d \in Consignments : status'[d] = "none" => \A k \in Lines : line'[d][k] = NoLine
    BY <1>2, <2>1, <2>2
  <2> QED
    BY <2>3, <2>4 DEF ViewsAreOfThePast
<1>7. CASE \/ UNCHANGED consignmentVars
           \/ \E c \in Consignments : Allocate(c) \/ ConfirmOutbound(c) \/ Cancel(c)
           \/ \E c \in Consignments, t \in ValidTransitions : Transition(c, t[1], t[2])
  <2>1. UNCHANGED <<line, view>>
    BY <1>7 DEF consignmentVars, Allocate, ConfirmOutbound, Cancel, Transition
  <2>2. \A c \in Consignments : status'[c] = "none" <=> status[c] = "none"
    BY <1>1, <1>7 DEF consignmentVars, Allocate, ConfirmOutbound, Cancel, Transition, Become,
                      ValidTransitions
  <2> QED
    BY <1>3, <2>1, <2>2
<1> QED
  BY <1>4, <1>5, <1>6, <1>7, StockAssumption DEF Next, Manager, Work, vars, consignmentVars

----------------------------------------------------------------------------
(* The theorems. *)

LEMMA ConsignmentInvStep == ConsignmentInv /\ [Next]_vars => ConsignmentInv'
BY StockStep, WorkInvStep, ReservedStep, ShipsStep, ViewsStep DEF ConsignmentInv

(* Every reachable state satisfies the invariant: nothing is reserved that is not *)
(* there, what is allocated was reserved in full, screens show the past.         *)
THEOREM Invariance == Spec => []ConsignmentInv
BY InitConsignmentInv, ConsignmentInvStep, PTL DEF Spec

(* CONSIGNMENT-003, for every number of consignments, lines and workers: a     *)
(* consignment that is ready, packing, packed, outbound or completed has all   *)
(* the quantities that its status claims.                                   *)
THEOREM QuantitiesBearOutStatus == Spec => []StatusIsEarned
<1>1. WorkInv => StatusIsEarned
  BY DEF WorkInv
<1> QED
  BY InitWorkInv, WorkInvStep, <1>1, PTL DEF Spec

(* Every balance, reservation, ledger row, status, line and screen keeps its     *)
(* type: no command drives a balance or a quantity below zero.                 *)
THEOREM TypeCorrect == Spec => []TypeOK
<1>1. ConsignmentInv => TypeOK
  BY DEF ConsignmentInv, StockInv, WorkInv, WorkType, TypeOK
<1> QED
  BY Invariance, <1>1, PTL

(* inventory_balances.reserved is the sum of the active reservations after any   *)
(* sequence of reserving, releasing, allocating, cancelling and shipping.       *)
THEOREM CounterIsSum == Spec => []ReservedCountsActive
<1>1. ConsignmentInv => ReservedCountsActive
  BY DEF ConsignmentInv, StockInv
<1> QED
  BY Invariance, <1>1, PTL

(* The rows of inventory_transactions lead from an empty balance to the present  *)
(* one without a gap.                                                        *)
THEOREM LedgerIsComplete == Spec => []LedgerExplainsBalance
<1>1. ConsignmentInv => LedgerExplainsBalance
  BY DEF ConsignmentInv, StockInv
<1> QED
  BY Invariance, <1>1, PTL

(* CONSIGNMENT-002 and CONSIGNMENT-004: ConfirmOutbound takes all that the lines *)
(* require, even if somebody used the reservation endpoints on the consignment's *)
(* own reservations, and without it nothing leaves.                            *)
THEOREM ShipmentIsWhole == Spec => []ShipsInFullOrNotAtAll
<1>1. ConsignmentInv => ShipsInFullOrNotAtAll
  BY DEF ConsignmentInv
<1> QED
  BY Invariance, <1>1, PTL

(* UpdateProgress replaces only quantities that its worker has read, however     *)
(* many workers share a line and however late their requests arrive.           *)
THEOREM ProgressIsNotLost == Spec => NoLostProgress
<1> DEFINE Seen(c, l) == \E w \in Workers : /\ view[w] # None
                                            /\ view[w].consignment = c /\ view[w].line = l
                                            /\ view[w].read = line[c][l]
           Kept == \A c \in Consignments, l \in Lines :
                     line'[c][l].version > 1 /\ line'[c][l] # line[c][l] => Seen(c, l)
<1>1. ConsignmentInv /\ [Next]_vars => [Kept]_vars
  <2> SUFFICES ASSUME ConsignmentInv, Next, NEW c \in Consignments, NEW l \in Lines,
                      line'[c][l].version > 1, line'[c][l] # line[c][l]
               PROVE  Seen(c, l)
    OBVIOUS
  <2>1. line \in [Consignments -> [Lines -> Line]]
    BY DEF ConsignmentInv, WorkInv, WorkType
  <2>2. ASSUME NEW d \in Consignments, NEW quantity \in [Lines -> 0..MaxQuantity],
               Create(d, quantity)
        PROVE  FALSE
    <3>1. c = d
      BY <2>1, <2>2 DEF Create
    <3>2. line'[c][l] = IF quantity[l] = 0 THEN NoLine
                        ELSE [required |-> quantity[l], ready |-> 0, packed |-> 0, version |-> 1]
      BY <2>1, <2>2, <3>1 DEF Create
    <3>3. line'[c][l].version \in {0, 1}
      BY <3>2 DEF NoLine
    <3> QED
      BY <3>3
  <2>3. ASSUME NEW w \in Workers, NEW ready \in Nat, NEW packed \in Nat,
               UpdateProgress(w, ready, packed)
        PROVE  Seen(c, l)
    <3>1. /\ view[w] # None /\ view[w].read = Current(w)
          /\ view[w].consignment = c /\ view[w].line = l
      BY <2>3, ProgressIsSeen
    <3> QED
      BY <3>1 DEF Current
  <2>4. line' # line
    OBVIOUS
  <2> HIDE DEF Seen, Kept
  <2>5. CASE Work
    <3>1. PICK w \in Workers : \/ \E d \in Consignments, k \in Lines : ReadLine(w, d, k)
                               \/ \E ready, packed \in 0..MaxQuantity :
                                    UpdateProgress(w, ready, packed)
      BY <2>5 DEF Work
    <3>2. \E ready, packed \in Nat : UpdateProgress(w, ready, packed)
      BY <2>4, <3>1, StockAssumption DEF ReadLine
    <3> QED
      BY <2>3, <3>2
  <2>6. CASE Manager
    BY <2>2, <2>4, <2>6 DEF Manager, Allocate, ConfirmOutbound, Cancel, Transition
  <2>7. ~ UNCHANGED consignmentVars
    BY <2>4 DEF consignmentVars
  <2> QED
    BY <2>5, <2>6, <2>7 DEF Next
<1> QED
  BY Invariance, <1>1, PTL DEF Spec, NoLostProgress

(* The whole system implements StockAccount: whatever the workflow and the       *)
(* endpoints do to counters, ledger and reservations, no unit is promised twice, *)
(* stock does not shrink below the promises, and a shipment takes exactly what   *)
(* was promised to it, once.                                                 *)
THEOREM AccountRefinement == Spec => ImplementsAccount
<1>1. Init => Account!Init
  BY InitIsPromised DEF Init
<1>2. ConsignmentInv /\ ConsignmentInv' /\ [Next]_vars => [Account!Next]_accountVars
  <2> SUFFICES ASSUME ConsignmentInv, ConsignmentInv', [Next]_vars
               PROVE  Account!Next \/ UNCHANGED accountVars
    OBVIOUS
  <2>1. StockInv /\ StockInv' /\ Consignments \subseteq Sources /\ References = Consignments
    BY ConsignmentAssumption DEF ConsignmentInv
  <2>2. CASE UNCHANGED stockVars
    BY <2>2, PromisedUntouched DEF stockVars, accountVars
  <2>3. CASE StockCommand
    BY <2>1, <2>3, StockCommandIsPromised
  <2>4. ASSUME NEW c \in Consignments, Allocate(c) PROVE Account!Next
    BY <2>1, <2>4, AllocateHolds, HoldIsPromised
  <2>5. ASSUME NEW c \in Consignments, ConfirmOutbound(c)
        PROVE  Account!Next \/ UNCHANGED accountVars
    BY <2>1, <2>5, ConfirmIsPromised DEF ConfirmOutbound
  <2>6. ASSUME NEW c \in Consignments, ReleaseConsignment(c) PROVE Account!Next
    BY <2>1, <2>6, ReleaseIsPromised DEF ReleaseConsignment
  <2> QED
    BY <2>2, <2>3, <2>4, <2>5, <2>6, ConsignmentCases
<1> QED
  BY Invariance, <1>1, <1>2, PTL DEF Spec, ImplementsAccount, Account!Spec, accountVars
=============================================================================
