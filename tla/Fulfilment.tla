----------------------------- MODULE Fulfilment -----------------------------
(***************************************************************************)
(* From a marketplace order to its shipment, its cancellation or its return: *)
(* the batch and returns modules, with the inventory movements that they    *)
(* cause.                                                                  *)
(*                                                                         *)
(* Commands about one order or one batch meet in the database.  They run at  *)
(* READ COMMITTED: a transaction locks rows, reads, and decides.  Those that *)
(* can get in each other's way are two steps here, the first with the locks  *)
(* and the reads, the second with the writes and the COMMIT; between them    *)
(* others run.  Holding a lock longer than from the last read only makes     *)
(* others wait.  Commands that lock the one row they decide on are one       *)
(* action.  A command whose idempotency key is known changes nothing.        *)
(***************************************************************************)
EXTENDS Stock

CONSTANTS
  Orders,       \* normalized orders of completed jobs that are no duplicates
  Resolved,     \* those whose items all have a product and a quantity
  Items,
  OrderItem,    \* of an item: its order, product and quantity
  Batches, Returns,  \* idempotency keys: at most one row each
  Clerks,       \* each has at most one transaction open
  None

ASSUME FulfilmentAssumption ==
  /\ IsFiniteSet(Items) /\ IsFiniteSet(Returns)
  /\ Resolved \subseteq Orders
  /\ OrderItem \in [Items -> [order : Orders, product : Products, quantity : Nat \ {0}]]
  /\ \A o \in Resolved : \E i \in Items : OrderItem[i].order = o
  /\ Batches \cup Returns \subseteq References /\ Batches \cap Returns = {}

VARIABLES
  batch,         \* batches with their members
  shipped,       \* inventory_outbound_events: the batches that left
  cancellation,  \* cancellations, by order
  returnCase,    \* return_cases with their items
  tx             \* the open transaction of each clerk: what it locked and read

fulfilmentVars == <<batch, shipped, cancellation, returnCase, tx>>
vars == <<stockVars, fulfilmentVars>>

Batch == [status : {"none", "draft", "ready", "cancelled"}, members : SUBSET Orders]

Cancellation == [status : {"none", "recorded", "closed"},
                 outbound : {"not_outbound", "outbound_confirmed"}]

(* "rejected" stands for "wrong_product" too. *)
Disposition == {"pending", "restockable", "damaged", "missing", "rejected"}

(* expected is 0 where the return has no such item. *)
ReturnItem == [expected : Nat, received : Nat, disposition : Disposition,
               restocked : Nat, corrected : Nat]

ReturnCase == [status : {"none", "expected", "received", "inspected", "restocked",
                         "restock_corrected", "damaged", "rejected", "closed"},
               order : Orders \cup {None}, item : [Items -> ReturnItem]]

Expecting(n) == [expected |-> n, received |-> 0, disposition |-> "pending",
                 restocked |-> 0, corrected |-> 0]

Init ==
  /\ InitStock
  /\ batch = [b \in Batches |-> [status |-> "none", members |-> {}]]
  /\ shipped = {}
  /\ cancellation = [o \in Orders |-> [status |-> "none", outbound |-> "not_outbound"]]
  /\ returnCase = [r \in Returns |-> [status |-> "none", order |-> None,
                                      item |-> [i \in Items |-> Expecting(0)]]]
  /\ tx = [c \in Clerks |-> None]

ItemsOf(O) == {i \in Items : OrderItem[i].order \in O}

(* Of a set of items and quantities: the units of each of their products. *)
PerProduct(units, I) ==
  [p \in {OrderItem[i].product : i \in I} |->
     SumFunctionOnSet(units, {i \in I : OrderItem[i].product = p})]

IsCancelled(o) == cancellation[o].status # "none"

HasLeft(o) == \E b \in shipped : o \in batch[b].members

----------------------------------------------------------------------------
(* Transactions. *)

Free(rows) == \A c \in Clerks : tx[c] # None => tx[c].rows \cap rows = {}

Open(c, t) == /\ tx[c] = None
              /\ tx' = [tx EXCEPT ![c] = t]
              /\ UNCHANGED <<stockVars, batch, shipped, cancellation, returnCase>>

Committing(c, op) == /\ tx[c] # None /\ tx[c].op = op
                     /\ tx' = [tx EXCEPT ![c] = None]

(* An error, a client that is gone or a crash. *)
Rollback(c) == /\ tx[c] # None
               /\ tx' = [tx EXCEPT ![c] = None]
               /\ UNCHANGED <<stockVars, batch, shipped, cancellation, returnCase>>

----------------------------------------------------------------------------
(* Batches. *)

(* The eligibility of the orders is read without a lock. *)
BeginCreate(c, b, O) ==
  /\ batch[b].status = "none" /\ O # {}
  /\ \A o \in O : ~IsCancelled(o)
  /\ Open(c, [op |-> "create", rows |-> {}, batch |-> b, members |-> O])

(* Mutant of CommitCreate: without UNIQUE(company_id, marketplace_order_id). *)
CommitOverlapping(c) ==
  /\ Committing(c, "create")
  /\ batch[tx[c].batch].status = "none"
  /\ Free(tx[c].members)
  /\ batch' = [batch EXCEPT ![tx[c].batch] = [status |-> "draft", members |-> tx[c].members]]
  /\ UNCHANGED <<stockVars, shipped, cancellation, returnCase>>

(* The inserts wait for whoever has locked an order, and an order is a member   *)
(* of one batch at most, a cancelled one included.                            *)
CommitCreate(c) ==
  /\ Committing(c, "create")
  /\ batch[tx[c].batch].status = "none"
  /\ Free(tx[c].members)
  /\ \A b \in Batches : batch[b].members \cap tx[c].members = {}
  /\ batch' = [batch EXCEPT ![tx[c].batch] = [status |-> "draft", members |-> tx[c].members]]
  /\ UNCHANGED <<stockVars, shipped, cancellation, returnCase>>

(* Mutant of BeginOnBatch: the orders are not locked. *)
BeginUnlocked(c, b, op, from) ==
  /\ batch[b].status = from
  /\ Free({b})
  /\ \A o \in batch[b].members : ~IsCancelled(o)
  /\ Open(c, [op |-> op, rows |-> {b}, batch |-> b])

(* Readiness and outbound lock the batch, then its orders, then look for       *)
(* cancellations.                                                            *)
BeginOnBatch(c, b, op, from) ==
  LET rows == {b} \cup batch[b].members
  IN  /\ batch[b].status = from
      /\ Free(rows)
      /\ \A o \in batch[b].members : ~IsCancelled(o)
      /\ Open(c, [op |-> op, rows |-> rows, batch |-> b])

(* A product that no worker is assigned to makes it fail, as a Rollback. *)
BeginReady(c, b) == /\ batch[b].members \subseteq Resolved
                    /\ BeginOnBatch(c, b, "ready", "draft")

CommitReady(c) ==
  /\ Committing(c, "ready")
  /\ batch' = [batch EXCEPT ![tx[c].batch].status = "ready"]
  /\ UNCHANGED <<stockVars, shipped, cancellation, returnCase>>

(* Locks the batch alone; a ready batch cannot be cancelled. *)
CancelBatch(b) ==
  /\ Free({b})
  /\ batch[b].status = "draft"
  /\ batch' = [batch EXCEPT ![b].status = "cancelled"]
  /\ UNCHANGED <<stockVars, shipped, cancellation, returnCase, tx>>

BatchTotals(b) ==
  PerProduct([i \in Items |-> OrderItem[i].quantity], ItemsOf(batch[b].members))

BeginOutbound(c, b) == BeginOnBatch(c, b, "outbound", "ready")

(* Mutant of CommitOutbound: without the outbound event that is unique. *)
ShipAgain(c) ==
  LET b == tx[c].batch
      totals == BatchTotals(b)
  IN  /\ Committing(c, "outbound")
      /\ \A p \in DOMAIN totals : onHand[p] - totals[p] >= reserved[p]
      /\ Post("ecommerce_out", b, [p \in DOMAIN totals |-> -totals[p]])
      /\ shipped' = shipped \cup {b}
      /\ UNCHANGED <<reserved, reservation, batch, cancellation, returnCase>>

CommitOutbound(c) ==
  LET b == tx[c].batch
      totals == BatchTotals(b)
  IN  /\ Committing(c, "outbound")
      /\ b \notin shipped
      /\ \A p \in DOMAIN totals : onHand[p] - totals[p] >= reserved[p]
      /\ Post("ecommerce_out", b, [p \in DOMAIN totals |-> -totals[p]])
      /\ shipped' = shipped \cup {b}
      /\ UNCHANGED <<reserved, reservation, batch, cancellation, returnCase>>

----------------------------------------------------------------------------
(* Cancellations. *)

(* Mutant of BeginCancellation: the order is not locked. *)
BeginCancellationUnlocked(c, o) ==
  /\ o \in Resolved
  /\ Open(c, [op |-> "cancel", rows |-> {}, order |-> o, left |-> HasLeft(o)])

BeginCancellation(c, o) ==
  /\ o \in Resolved
  /\ Free({o})
  /\ Open(c, [op |-> "cancel", rows |-> {o}, order |-> o, left |-> HasLeft(o)])

(* At most one cancellation of an order. *)
CommitCancellation(c) ==
  LET o == tx[c].order
  IN  /\ Committing(c, "cancel")
      /\ ~IsCancelled(o)
      /\ cancellation' = [cancellation EXCEPT ![o] = [status |-> "recorded", outbound |->
           IF tx[c].left THEN "outbound_confirmed" ELSE "not_outbound"]]
      /\ UNCHANGED <<stockVars, batch, shipped, returnCase>>

CloseCancellation(o) ==
  /\ cancellation[o].status = "recorded"
  /\ cancellation' = [cancellation EXCEPT ![o].status = "closed"]
  /\ UNCHANGED <<stockVars, batch, shipped, returnCase, tx>>

----------------------------------------------------------------------------
(* Returns. *)

AlreadyExpected(i) == SumFunction([r \in Returns |-> returnCase[r].item[i].expected])

ItemsIn(r) == {i \in Items : returnCase[r].item[i].expected > 0}

(* Mutant of BeginReturn: the order is not locked. *)
BeginReturnUnlocked(c, r, o, q) ==
  /\ returnCase[r].status = "none" /\ o \in Resolved
  /\ \E i \in Items : q[i] > 0
  /\ \A i \in Items : q[i] > 0 =>
       OrderItem[i].order = o /\ AlreadyExpected(i) + q[i] <= OrderItem[i].quantity
  /\ Open(c, [op |-> "return", rows |-> {}, return |-> r, order |-> o, quantity |-> q])

(* Nothing asks whether the order has left. *)
BeginReturn(c, r, o, q) ==
  /\ returnCase[r].status = "none" /\ o \in Resolved
  /\ Free({o})
  /\ \E i \in Items : q[i] > 0
  /\ \A i \in Items : q[i] > 0 =>
       OrderItem[i].order = o /\ AlreadyExpected(i) + q[i] <= OrderItem[i].quantity
  /\ Open(c, [op |-> "return", rows |-> {o}, return |-> r, order |-> o, quantity |-> q])

CommitReturn(c) ==
  /\ Committing(c, "return")
  /\ returnCase[tx[c].return].status = "none"
  /\ returnCase' = [returnCase EXCEPT ![tx[c].return] =
       [status |-> "expected", order |-> tx[c].order,
        item |-> [i \in Items |-> Expecting(tx[c].quantity[i])]]]
  /\ UNCHANGED <<stockVars, batch, shipped, cancellation>>

(* The other commands lock the return case, which must be in one of the       *)
(* statuses from.                                                            *)
Proceed(r, from, to, item) ==
  /\ returnCase[r].status \in from
  /\ returnCase' = [returnCase EXCEPT ![r] = [status |-> to, order |-> @.order, item |-> item]]
  /\ UNCHANGED <<batch, shipped, cancellation, tx>>

ReceiveReturn(r, q) ==
  /\ \A i \in Items : q[i] <= returnCase[r].item[i].expected
  /\ Proceed(r, {"expected"}, "received",
             [i \in Items |-> [returnCase[r].item[i] EXCEPT !.received = q[i]]])
  /\ UNCHANGED stockVars

(* Every item of the return gets a disposition; one that did not come is missing. *)
InspectReturn(r, disposition) ==
  /\ \A i \in Items :
       IF i \in ItemsIn(r)
       THEN /\ disposition[i] # "pending"
            /\ disposition[i] = "missing" <=> returnCase[r].item[i].received = 0
       ELSE disposition[i] = "pending"
  /\ Proceed(r, {"received"},
             IF \E i \in Items : disposition[i] = "restockable" THEN "inspected"
             ELSE IF \E i \in Items : disposition[i] = "damaged" THEN "damaged"
             ELSE "rejected",
             [i \in Items |-> [returnCase[r].item[i] EXCEPT !.disposition = disposition[i]]])
  /\ UNCHANGED stockVars

Restockable(r) == {i \in Items : /\ returnCase[r].item[i].disposition = "restockable"
                                 /\ returnCase[r].item[i].received > 0}

(* Mutant of ApplyReturnMovements: the balance is not looked at. *)
ApplyUnchecked(kind, r, units) ==
  /\ Post(kind, r, units)
  /\ UNCHANGED <<reserved, reservation>>

(* What restocks and corrections do to the stock. *)
ApplyReturnMovements(kind, r, units) ==
  /\ \A p \in DOMAIN units : onHand[p] + units[p] >= reserved[p]
  /\ Post(kind, r, units)
  /\ UNCHANGED <<reserved, reservation>>

(* Mutant of RestockReturn: an item of each product, not all of them. *)
RestockOneOfEach(r) ==
  LET units == PerProduct([i \in Items |-> returnCase[r].item[i].received],
        {i \in Restockable(r) : \A j \in Restockable(r) \ {i} :
           OrderItem[j].product = OrderItem[i].product =>
             returnCase[r].item[i].received >= returnCase[r].item[j].received})
  IN  /\ Restockable(r) # {}
      /\ Proceed(r, {"inspected"}, "restocked",
                 [i \in Items |-> IF i \in Restockable(r)
                    THEN [returnCase[r].item[i] EXCEPT !.restocked = returnCase[r].item[i].received]
                    ELSE returnCase[r].item[i]])
      /\ ApplyReturnMovements("return_restock", r, units)

RestockReturn(r) ==
  LET units == PerProduct([i \in Items |-> returnCase[r].item[i].received], Restockable(r))
  IN  /\ Restockable(r) # {}
      /\ Proceed(r, {"inspected"}, "restocked",
                 [i \in Items |-> IF i \in Restockable(r)
                    THEN [returnCase[r].item[i] EXCEPT !.restocked = returnCase[r].item[i].received]
                    ELSE returnCase[r].item[i]])
      /\ ApplyReturnMovements("return_restock", r, units)

(* Mutant of CorrectRestock: bounded by what was restocked, not by what is left. *)
CorrectAgain(r, q) ==
  LET units == PerProduct(q, {i \in Items : q[i] > 0})
  IN  /\ \E i \in Items : q[i] > 0
      /\ \A i \in Items : q[i] <= returnCase[r].item[i].restocked
      /\ Proceed(r, {"restocked", "restock_corrected"}, "restock_corrected",
                 [i \in Items |-> [returnCase[r].item[i] EXCEPT !.corrected = @ + q[i]]])
      /\ ApplyReturnMovements("correction", r, [p \in DOMAIN units |-> -units[p]])

CorrectRestock(r, q) ==
  LET units == PerProduct(q, {i \in Items : q[i] > 0})
  IN  /\ \E i \in Items : q[i] > 0
      /\ \A i \in Items : q[i] <= returnCase[r].item[i].restocked - returnCase[r].item[i].corrected
      /\ Proceed(r, {"restocked", "restock_corrected"}, "restock_corrected",
                 [i \in Items |-> [returnCase[r].item[i] EXCEPT !.corrected = @ + q[i]]])
      /\ ApplyReturnMovements("correction", r, [p \in DOMAIN units |-> -units[p]])

(* Mutant of CloseReturn: what was accepted may still be waiting to be restocked. *)
CloseEarly(r) ==
  /\ Proceed(r, {"inspected", "restocked", "restock_corrected", "damaged", "rejected"}, "closed",
             returnCase[r].item)
  /\ UNCHANGED stockVars

CloseReturn(r) ==
  /\ Proceed(r, {"restocked", "restock_corrected", "damaged", "rejected"}, "closed",
             returnCase[r].item)
  /\ UNCHANGED stockVars

----------------------------------------------------------------------------
Batching ==
  \E c \in Clerks :
    \/ \E b \in Batches :
         \/ \E O \in SUBSET Orders : BeginCreate(c, b, O)
         \/ BeginReady(c, b) \/ BeginOutbound(c, b)
    \/ CommitCreate(c) \/ CommitReady(c) \/ CommitOutbound(c)

Cancelling ==
  \/ \E c \in Clerks : CommitCancellation(c) \/ \E o \in Orders : BeginCancellation(c, o)
  \/ \E o \in Orders : CloseCancellation(o)
  \/ \E b \in Batches : CancelBatch(b)

Quantities == [Items -> 0..MaxQuantity]

Returning ==
  \/ \E c \in Clerks :
       \/ \E r \in Returns, o \in Orders, q \in Quantities : BeginReturn(c, r, o, q)
       \/ CommitReturn(c)
  \/ \E r \in Returns :
       \/ \E q \in Quantities : ReceiveReturn(r, q) \/ CorrectRestock(r, q)
       \/ \E d \in [Items -> Disposition] : InspectReturn(r, d)
       \/ RestockReturn(r) \/ CloseReturn(r)

Next == \/ Batching \/ Cancelling \/ Returning
        \/ \E c \in Clerks : Rollback(c)
        \/ StockCommand /\ UNCHANGED fulfilmentVars

Spec == Init /\ [][Next]_vars

----------------------------------------------------------------------------
CreateTx == [op : {"create"}, rows : {{}}, batch : Batches, members : SUBSET Orders]
BatchTx  == [op : {"ready", "outbound"}, rows : SUBSET (Orders \cup Batches), batch : Batches]
CancelTx == [op : {"cancel"}, rows : SUBSET Orders, order : Orders, left : BOOLEAN]
ReturnTx == [op : {"return"}, rows : SUBSET Orders, return : Returns, order : Orders,
             quantity : [Items -> Nat]]
Transaction == CreateTx \cup BatchTx \cup CancelTx \cup ReturnTx

ASSUME NoneAssumption == None \notin Transaction

TypeOK ==
  /\ StockTypeOK
  /\ batch \in [Batches -> Batch]
  /\ shipped \in SUBSET Batches
  /\ cancellation \in [Orders -> Cancellation]
  /\ returnCase \in [Returns -> ReturnCase]
  /\ tx \in [Clerks -> Transaction \cup {None}]

(* CANCELLATION-001, docs/returns.md: either the outbound commits first and the *)
(* cancellation records it, or the cancellation commits first and the order    *)
(* never leaves.  Both directions, for ever, whatever overlaps.               *)
CancellationKnowsOutbound ==
  \A o \in Orders : IsCancelled(o) =>
    (cancellation[o].outbound = "outbound_confirmed" <=> HasLeft(o))

(* A batch becomes ready only with orders that are resolved and not cancelled  *)
(* at that moment.                                                           *)
ReadyIsClean ==
  [][\A b \in Batches :
       batch[b].status # "ready" /\ batch'[b].status = "ready" =>
         \A o \in batch'[b].members : o \in Resolved /\ ~IsCancelled(o)]_vars

Moved(ref, p) ==
  SumFunction([n \in {n \in DOMAIN ledger[p] : ledger[p][n].ref = ref} |-> ledger[p][n].delta])

Units(totals, p) == IF p \in DOMAIN totals THEN totals[p] ELSE 0

(* The stock that left for a batch is what its orders need, taken once, and     *)
(* none before its outbound event.                                           *)
ShipmentsAreInLedger ==
  \A b \in Batches, p \in Products :
    Moved(b, p) = IF b \in shipped THEN -Units(BatchTotals(b), p) ELSE 0

Kept(r, i) == returnCase[r].item[i].restocked - returnCase[r].item[i].corrected

Back(i) == SumFunction([r \in Returns |-> Kept(r, i)])

(* RETURN-004, RETURN-005: what the ledger took in for a return is what its     *)
(* items say was restocked and not corrected.                                 *)
RestocksAreInLedger ==
  \A r \in Returns, p \in Products :
    Moved(r, p) =
      Units(PerProduct([i \in Items |-> Kept(r, i)], ItemsIn(r)), p)

(* RETURN-003: no two cases, however they overlap, expect more of an item than  *)
(* was ordered.                                                              *)
ExpectedIsBounded == \A i \in Items : AlreadyExpected(i) <= OrderItem[i].quantity

(* RETURN-006: a closed case leaves nothing that was accepted for restock behind. *)
ClosedIsSettled ==
  \A r \in Returns : returnCase[r].status = "closed" =>
    \A i \in Restockable(r) : returnCase[r].item[i].restocked = returnCase[r].item[i].received

(* What the tables say of an order's goods: the outbounds that took them, the   *)
(* orders called off before one, the units in stock again.                    *)
TimesOut == [o \in Orders |-> Cardinality({b \in shipped : o \in batch[b].members})]

CalledOff == {o \in Orders : IsCancelled(o) /\ cancellation[o].outbound = "not_outbound"}

BackInStock == [i \in Items |-> Back(i)]

(* Every order's goods leave once or never, and no more than was ordered comes  *)
(* back: OrderCustody.                                                       *)
Custody == INSTANCE OrderCustody WITH
  out <- TimesOut, void <- CalledOff, back <- BackInStock
ImplementsCustody == Custody!Spec

(* docs/returns.md:61: "Orders cancelled before outbound are excluded from      *)
(* batch eligibility and new batch creation."                                *)
CancelledIsNotBatched ==
  [][\A b \in Batches :
       batch[b].status = "none" /\ batch'[b].status = "draft" =>
         \A o \in batch'[b].members : ~IsCancelled(o)]_vars
=============================================================================
