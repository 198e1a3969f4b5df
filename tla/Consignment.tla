---------------------------- MODULE Consignment -----------------------------
(***************************************************************************)
(* Consignments: orders of a dealer that the departments of the company    *)
(* pick and pack, and that hold and take stock of the inventory module in  *)
(* the transactions that change their status.                              *)
(*                                                                         *)
(* Every command locks the consignment row, so it is one action.  One whose  *)
(* idempotency key is known changes nothing.  The version that a manager's   *)
(* command expects can only refuse it, and the same command with the present *)
(* version is a step of the model anyway; the lines' versions matter, as     *)
(* workers read a line and send absolute quantities for it later.           *)
(***************************************************************************)
EXTENDS Stock

CONSTANTS
  Consignments,  \* order references: at most one consignment each
  Departments, Workers, None,
  MaxVersion     \* bound: updates of one line

ASSUME ConsignmentAssumption == /\ IsFiniteSet(Departments)
                                /\ Consignments \subseteq Sources
                                /\ References = Consignments
                                /\ MaxVersion \in Nat

VARIABLES
  status,    \* consignments
  line,      \* consignment_lines: required 0 where there is no line
  view       \* the line that a worker has on the screen

consignmentVars == <<status, line, view>>
vars == <<stockVars, consignmentVars>>

Status == {"none", "created", "allocated", "picking", "ready", "packing",
           "packed", "outbound", "completed", "cancelled"}

(* A line is one product that one department provides. *)
Lines == Products \X Departments

Line == [required : Nat, ready : Nat, packed : Nat, version : Nat]

View == [consignment : Consignments, line : Lines, read : Line]

NoLine == [required |-> 0, ready |-> 0, packed |-> 0, version |-> 0]

Init ==
  /\ InitStock
  /\ status = [c \in Consignments |-> "none"]
  /\ line   = [c \in Consignments |-> [l \in Lines |-> NoLine]]
  /\ view   = [w \in Workers |-> None]

LinesOf(c) == {l \in Lines : line[c][l].required > 0}

(* aggregate: what the consignment needs of each of its products. *)
Requirement(c) ==
  [p \in {l[1] : l \in LinesOf(c)} |->
     SumFunction([l \in {k \in LinesOf(c) : k[1] = p} |-> line[c][l].required])]

AllReady(c)  == \A l \in LinesOf(c) : line[c][l].ready = line[c][l].required
AllPacked(c) == \A l \in LinesOf(c) : line[c][l].packed = line[c][l].required

Become(c, from, to) ==
  /\ status[c] \in from
  /\ status' = [status EXCEPT ![c] = to]

Create(c, quantity) ==
  /\ Become(c, {"none"}, "created")
  /\ \E l \in Lines : quantity[l] > 0
  /\ line' = [line EXCEPT ![c] = [l \in Lines |->
       IF quantity[l] = 0 THEN NoLine
       ELSE [required |-> quantity[l], ready |-> 0, packed |-> 0, version |-> 1]]]
  /\ UNCHANGED <<stockVars, view>>

Allocate(c) ==
  /\ Become(c, {"created"}, "allocated")
  /\ ReserveConsignment(c, Requirement(c))
  /\ UNCHANGED <<line, view>>

ValidTransitions == {<<"allocated", "picking">>, <<"picking", "ready">>,
                     <<"ready", "packing">>, <<"packing", "packed">>,
                     <<"outbound", "completed">>}

Transition(c, from, to) ==
  /\ to = "ready" => AllReady(c)
  /\ to = "packed" => AllPacked(c)
  /\ Become(c, {from}, to)
  /\ UNCHANGED <<stockVars, line, view>>

ConfirmOutbound(c) ==
  /\ Become(c, {"packed"}, "outbound")
  /\ AllPacked(c)
  /\ ConfirmConsignmentOutbound(c)
  /\ UNCHANGED <<line, view>>

(* Mutant of Cancel: a shipped consignment can be cancelled. *)
CancelShipped(c) ==
  /\ Become(c, Status \ {"none", "completed", "cancelled"}, "cancelled")
  /\ IF status[c] = "created" THEN UNCHANGED stockVars ELSE ReleaseConsignment(c)
  /\ UNCHANGED <<line, view>>

Cancel(c) ==
  /\ Become(c, Status \ {"none", "outbound", "completed", "cancelled"}, "cancelled")
  /\ IF status[c] = "created" THEN UNCHANGED stockVars ELSE ReleaseConsignment(c)
  /\ UNCHANGED <<line, view>>

----------------------------------------------------------------------------
(* The departments' workers. *)

ReadLine(w, c, l) ==
  /\ l \in LinesOf(c)
  /\ view' = [view EXCEPT ![w] = [consignment |-> c, line |-> l, read |-> line[c][l]]]
  /\ UNCHANGED <<stockVars, status, line>>

(* The worker's quantities replace those of the line. *)
WriteLine(w, ready, packed) ==
  /\ view[w] # None
  /\ LET c == view[w].consignment
         l == view[w].line
     IN  /\ status[c] \in {"allocated", "picking", "ready", "packing"}
         /\ packed <= ready /\ ready <= line[c][l].required
         /\ line[c][l].version < MaxVersion
         /\ line' = [line EXCEPT ![c][l] = [required |-> @.required, ready |-> ready,
                                             packed |-> packed, version |-> @.version + 1]]
  /\ UNCHANGED <<stockVars, status, view>>

(* The line that the worker looks at, as it is now. *)
Current(w) == line[view[w].consignment][view[w].line]

IsUpToDate(w) == view[w].read.version = Current(w).version

(* Picking does not pack, and what was ready stays ready while it is packed. *)
FitsStatus(w, ready, packed) ==
  /\ status[view[w].consignment] \in {"allocated", "picking"} => packed = Current(w).packed
  /\ status[view[w].consignment] \in {"ready", "packing"} => ready = Current(w).required

(* Mutants of UpdateProgress: the version, or the status, is not looked at. *)
OverwriteProgress(w, ready, packed) ==
  WriteLine(w, ready, packed) /\ FitsStatus(w, ready, packed)
ProgressAnyTime(w, ready, packed) ==
  WriteLine(w, ready, packed) /\ IsUpToDate(w)

(* Quantities are absolute and may go down again. *)
UpdateProgress(w, ready, packed) ==
  /\ WriteLine(w, ready, packed)
  /\ IsUpToDate(w)
  /\ FitsStatus(w, ready, packed)

----------------------------------------------------------------------------
Manager ==
  \E c \in Consignments :
    \/ \E quantity \in [Lines -> 0..MaxQuantity] : Create(c, quantity)
    \/ Allocate(c) \/ ConfirmOutbound(c) \/ Cancel(c)
    \/ \E t \in ValidTransitions : Transition(c, t[1], t[2])

Work ==
  \E w \in Workers :
    \/ \E c \in Consignments, l \in Lines : ReadLine(w, c, l)
    \/ \E ready, packed \in 0..MaxQuantity : UpdateProgress(w, ready, packed)

Next == Manager \/ Work \/ (StockCommand /\ UNCHANGED consignmentVars)

Spec == Init /\ [][Next]_vars

----------------------------------------------------------------------------
TypeOK ==
  /\ StockTypeOK
  /\ status \in [Consignments -> Status]
  /\ line \in [Consignments -> [Lines -> Line]]
  /\ view \in [Workers -> View \cup {None}]

Shipped(c) == {p \in Products : \E row \in Rows(p) : row.kind = "consignment_out" /\ row.ref = c}

(* CONSIGNMENT-002, CONSIGNMENT-004: stock leaves for a consignment exactly    *)
(* when it is outbound, every product it needs leaves in full, and a cancelled *)
(* or unpacked consignment never took anything.                              *)
ShipsInFullOrNotAtAll ==
  \A c \in Consignments :
    IF status[c] \in {"outbound", "completed"}
    THEN \A p \in DOMAIN Requirement(c) : \E row \in Rows(p) :
           row.kind = "consignment_out" /\ row.ref = c /\ row.delta = -Requirement(c)[p]
    ELSE Shipped(c) = {}

(* CONSIGNMENT-003: however late the workers' updates come, what the status    *)
(* says of the quantities stays true.                                       *)
StatusIsEarned ==
  \A c \in Consignments :
    /\ status[c] \in {"ready", "packing", "packed", "outbound", "completed"} => AllReady(c)
    /\ status[c] \in {"packed", "outbound", "completed"} => AllPacked(c)

(* A worker never overwrites quantities that he has not seen.                *)
NoLostProgress ==
  [][\A c \in Consignments, l \in Lines :
       line'[c][l].version > 1 /\ line'[c][l] # line[c][l] =>
         \E w \in Workers : /\ view[w] # None
                            /\ view[w].consignment = c /\ view[w].line = l
                            /\ view[w].read = line[c][l]]_vars

(* docs/workflows/consignment.md:17: "Allocation reserves the sum of required  *)
(* quantities per Product Master product", which outbound deducts and only    *)
(* cancellation gives back.                                                 *)
AllocationIsHeld ==
  \A c \in Consignments :
    status[c] \in {"allocated", "picking", "ready", "packing", "packed"} =>
      \A p \in DOMAIN Requirement(c) : Held(c, p) = Requirement(c)[p]
=============================================================================
