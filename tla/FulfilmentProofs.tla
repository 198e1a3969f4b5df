-------------------------- MODULE FulfilmentProofs --------------------------
(***************************************************************************)
(* Theorems about Fulfilment, for any orders, batches and clerks: the row    *)
(* locks make cancellations, readiness and outbound a sequence, whatever     *)
(* overlaps.                                                               *)
(***************************************************************************)
EXTENDS Fulfilment, StockProofs

dispatchVars == <<batch, shipped, cancellation, tx>>

(* The type of what the argument is about; the stock and the returns play no   *)
(* part in it.                                                               *)
Types == /\ batch \in [Batches -> Batch]
         /\ shipped \in SUBSET Batches
         /\ cancellation \in [Orders -> Cancellation]
         /\ tx \in [Clerks -> Transaction \cup {None}]

(* No row is locked twice. *)
RowsAreExclusive ==
  \A c, d \in Clerks : c # d /\ tx[c] # None /\ tx[d] # None => tx[c].rows \cap tx[d].rows = {}

(* What c read of a batch is still so: it has locked the rows. *)
BatchReadHolds(c) ==
  tx[c] # None /\ tx[c].op \in {"ready", "outbound"} =>
    LET b == tx[c].batch
    IN  /\ b \in tx[c].rows /\ batch[b].members \subseteq tx[c].rows
        /\ \A o \in batch[b].members : ~IsCancelled(o)
        /\ batch[b].status = IF tx[c].op = "ready" THEN "draft" ELSE "ready"
        /\ tx[c].op = "ready" => batch[b].members \subseteq Resolved

(* What c read of the order that it cancels is still so. *)
OrderReadHolds(c) ==
  tx[c] # None /\ tx[c].op = "cancel" =>
    /\ tx[c].order \in tx[c].rows
    /\ tx[c].left <=> HasLeft(tx[c].order)

ReadsHold == \A c \in Clerks : BatchReadHolds(c) /\ OrderReadHolds(c)

ShippedWasReady == \A b \in shipped : batch[b].status = "ready"

IInv == /\ Types
        /\ RowsAreExclusive
        /\ ReadsHold
        /\ ShippedWasReady
        /\ CancellationKnowsOutbound

----------------------------------------------------------------------------
LEMMA InitIInv == Init => IInv
<1> SUFFICES ASSUME Init PROVE IInv
  OBVIOUS
<1>1. Types
  BY DEF Init, Types, Batch, Cancellation
<1>2. RowsAreExclusive /\ ReadsHold /\ ShippedWasReady
  BY DEF Init, RowsAreExclusive, ReadsHold, BatchReadHolds, OrderReadHolds, ShippedWasReady
<1>3. CancellationKnowsOutbound
  BY DEF Init, CancellationKnowsOutbound, IsCancelled
<1> QED
  BY <1>1, <1>2, <1>3 DEF IInv

(* A step that touches neither batches, nor cancellations, nor transactions. *)
LEMMA StutterIInv == IInv /\ UNCHANGED dispatchVars => IInv'
BY DEF IInv, dispatchVars, Types, RowsAreExclusive, ReadsHold, BatchReadHolds, OrderReadHolds,
       ShippedWasReady, CancellationKnowsOutbound, IsCancelled, HasLeft

(* A transaction that ends without a write. *)
LEMMA RollbackIInv ==
  ASSUME IInv, NEW c \in Clerks, Rollback(c)
  PROVE  IInv'
<1>1. Types'
  BY DEF IInv, Types, Rollback
<1>2. RowsAreExclusive'
  BY DEF IInv, Types, RowsAreExclusive, Rollback
<1>3. ReadsHold'
  BY DEF IInv, Types, ReadsHold, BatchReadHolds, OrderReadHolds, IsCancelled, HasLeft, Rollback
<1>4. ShippedWasReady' /\ CancellationKnowsOutbound'
  BY DEF IInv, ShippedWasReady, CancellationKnowsOutbound, IsCancelled, HasLeft, Rollback
<1> QED
  BY <1>1, <1>2, <1>3, <1>4 DEF IInv

(* A transaction opens with rows that nobody has locked and with true reads. *)
LEMMA OpenIInv ==
  ASSUME IInv, NEW c \in Clerks, NEW t \in Transaction, t # None,
         Open(c, t), Free(t.rows),
         t.op \in {"ready", "outbound"} =>
           /\ t.batch \in t.rows /\ batch[t.batch].members \subseteq t.rows
           /\ \A o \in batch[t.batch].members : ~IsCancelled(o)
           /\ batch[t.batch].status = IF t.op = "ready" THEN "draft" ELSE "ready"
           /\ t.op = "ready" => batch[t.batch].members \subseteq Resolved,
         t.op = "cancel" => t.order \in t.rows /\ (t.left <=> HasLeft(t.order))
  PROVE  IInv'
<1> USE DEF Open
<1>1. Types'
  BY DEF IInv, Types
<1>2. RowsAreExclusive'
  BY DEF IInv, Types, RowsAreExclusive, Free
<1>3. ReadsHold'
  <2> SUFFICES ASSUME NEW d \in Clerks
               PROVE  BatchReadHolds(d)' /\ OrderReadHolds(d)'
    BY DEF ReadsHold
  <2>1. CASE d = c
    BY <2>1 DEF IInv, Types, BatchReadHolds, OrderReadHolds, IsCancelled, HasLeft
  <2>2. CASE d # c
    BY <2>2 DEF IInv, Types, ReadsHold, BatchReadHolds, OrderReadHolds, IsCancelled, HasLeft
  <2> QED
    BY <2>1, <2>2
<1>4. ShippedWasReady' /\ CancellationKnowsOutbound'
  BY DEF IInv, ShippedWasReady, CancellationKnowsOutbound, IsCancelled, HasLeft
<1> QED
  BY <1>1, <1>2, <1>3, <1>4 DEF IInv

----------------------------------------------------------------------------
(* The transactions of the model open as OpenIInv says. *)

LEMMA TransactionKinds ==
  ASSUME NEW t \in Transaction
  PROVE  /\ t.op \in {"ready", "outbound"} => t \in BatchTx
         /\ t.op = "cancel" => t \in CancelTx
         /\ t.op = "create" => t \in CreateTx
BY DEF Transaction, CreateTx, BatchTx, CancelTx, ReturnTx

LEMMA BeginIInv ==
  ASSUME IInv, NEW c \in Clerks, NEW t \in Transaction, t # None,
         Open(c, t), t.op \in {"create", "return"}, Free(t.rows)
  PROVE  IInv'
BY OpenIInv

LEMMA BeginCreateIInv ==
  ASSUME IInv, None \notin Transaction,
         NEW c \in Clerks, NEW b \in Batches, NEW O \in SUBSET Orders, BeginCreate(c, b, O)
  PROVE  IInv'
<1> DEFINE t == [op |-> "create", rows |-> {}, batch |-> b, members |-> O]
<1>1. t \in Transaction
  BY DEF Transaction, CreateTx
<1>2. Open(c, t) /\ Free(t.rows) /\ t.op = "create"
  BY DEF BeginCreate, Free
<1> QED
  BY <1>1, <1>2, BeginIInv

LEMMA BeginReturnIInv ==
  ASSUME IInv, None \notin Transaction,
         NEW c \in Clerks, NEW r \in Returns, NEW o \in Orders, NEW q \in [Items -> Nat],
         BeginReturn(c, r, o, q)
  PROVE  IInv'
<1> DEFINE t == [op |-> "return", rows |-> {o}, return |-> r, order |-> o, quantity |-> q]
<1>1. t \in Transaction
  BY DEF Transaction, ReturnTx
<1>2. Open(c, t) /\ Free(t.rows) /\ t.op = "return"
  BY DEF BeginReturn
<1> QED
  BY <1>1, <1>2, BeginIInv

LEMMA BeginCancellationIInv ==
  ASSUME IInv, None \notin Transaction,
         NEW c \in Clerks, NEW o \in Orders, BeginCancellation(c, o)
  PROVE  IInv'
<1> DEFINE t == [op |-> "cancel", rows |-> {o}, order |-> o, left |-> HasLeft(o)]
<1>0. HasLeft(o) \in BOOLEAN
  BY DEF HasLeft
<1>1. t \in Transaction
  BY <1>0 DEF Transaction, CancelTx
<1>2. Open(c, t) /\ Free(t.rows) /\ t.op = "cancel"
  BY DEF BeginCancellation
<1>3. t.order \in t.rows /\ (t.left <=> HasLeft(t.order))
  OBVIOUS
<1> HIDE DEF t
<1> QED
  BY <1>1, <1>2, <1>3, OpenIInv

LEMMA BeginOnBatchIInv ==
  ASSUME IInv, None \notin Transaction,
         NEW c \in Clerks, NEW b \in Batches, NEW op \in {"ready", "outbound"},
         BeginOnBatch(c, b, op, IF op = "ready" THEN "draft" ELSE "ready"),
         op = "ready" => batch[b].members \subseteq Resolved
  PROVE  IInv'
<1> DEFINE rows == {b} \cup batch[b].members
           t == [op |-> op, rows |-> rows, batch |-> b]
<1>1. batch[b].members \subseteq Orders
  BY DEF IInv, Types, Batch
<1>2. t \in Transaction
  BY <1>1 DEF Transaction, BatchTx
<1>3. Open(c, t) /\ Free(rows)
  BY DEF BeginOnBatch
<1>4. /\ t.batch = b /\ t.op = op /\ t.rows = rows
      /\ \A o \in batch[b].members : ~IsCancelled(o)
      /\ batch[b].status = IF op = "ready" THEN "draft" ELSE "ready"
      /\ b \in rows /\ batch[b].members \subseteq rows
  BY DEF BeginOnBatch
<1> HIDE DEF t, rows
<1> QED
  BY <1>2, <1>3, <1>4, OpenIInv

----------------------------------------------------------------------------
(* The commits.  Who holds the rows of a batch or of an order keeps the others *)
(* from having read them.                                                    *)

LEMMA CommitCreateIInv ==
  ASSUME IInv, NEW c \in Clerks, CommitCreate(c)
  PROVE  IInv'
<1> DEFINE b == tx[c].batch
<1>1. /\ tx[c] # None /\ tx[c] \in CreateTx
      /\ tx' = [tx EXCEPT ![c] = None]
      /\ b \in Batches /\ tx[c].members \subseteq Orders
      /\ batch[b].status = "none"
      /\ batch' = [batch EXCEPT ![b] = [status |-> "draft", members |-> tx[c].members]]
      /\ UNCHANGED <<shipped, cancellation>>
  BY TransactionKinds DEF IInv, Types, CommitCreate, Committing, CreateTx
<1> HIDE DEF b
<1>2. b \notin shipped
  BY <1>1 DEF IInv, ShippedWasReady
<1>3. \A o : HasLeft(o)' <=> HasLeft(o)
  BY <1>1, <1>2 DEF HasLeft, IInv, Types
<1>4. Types'
  BY <1>1 DEF IInv, Types, Batch
<1>5. RowsAreExclusive'
  BY <1>1 DEF IInv, Types, RowsAreExclusive
<1>6. ReadsHold'
  <2> SUFFICES ASSUME NEW d \in Clerks, tx[d] # None, d # c
               PROVE  BatchReadHolds(d)' /\ OrderReadHolds(d)'
    BY <1>1 DEF ReadsHold, BatchReadHolds, OrderReadHolds, IInv, Types
  <2>1. BatchReadHolds(d)'
    BY <1>1 DEF IInv, Types, ReadsHold, BatchReadHolds, IsCancelled
  <2>2. OrderReadHolds(d)'
    BY <1>1, <1>3 DEF IInv, Types, ReadsHold, OrderReadHolds
  <2> QED
    BY <2>1, <2>2
<1>7. ShippedWasReady'
  BY <1>1, <1>2 DEF IInv, ShippedWasReady, Types
<1>8. CancellationKnowsOutbound'
  BY <1>1, <1>3 DEF IInv, CancellationKnowsOutbound, IsCancelled
<1> QED
  BY <1>4, <1>5, <1>6, <1>7, <1>8 DEF IInv

LEMMA CommitReadyIInv ==
  ASSUME IInv, NEW c \in Clerks, CommitReady(c)
  PROVE  IInv'
<1> DEFINE b == tx[c].batch
<1>1. /\ tx[c] # None /\ tx[c].op = "ready" /\ tx[c] \in BatchTx
      /\ tx' = [tx EXCEPT ![c] = None]
      /\ b \in Batches /\ b \in tx[c].rows
      /\ batch[b].status = "draft"
      /\ batch' = [batch EXCEPT ![b].status = "ready"]
      /\ UNCHANGED <<shipped, cancellation>>
  BY TransactionKinds
     DEF IInv, Types, ReadsHold, BatchReadHolds, CommitReady, Committing, BatchTx
<1> HIDE DEF b
<1>2. \A x \in Batches : batch'[x].members = batch[x].members
  BY <1>1 DEF IInv, Types, Batch
<1>3. \A o : HasLeft(o)' <=> HasLeft(o)
  BY <1>1, <1>2 DEF HasLeft, IInv, Types
<1>4. Types'
  BY <1>1 DEF IInv, Types, Batch
<1>5. RowsAreExclusive'
  BY <1>1 DEF IInv, Types, RowsAreExclusive
<1>6. ReadsHold'
  <2> SUFFICES ASSUME NEW d \in Clerks, tx[d] # None, d # c
               PROVE  BatchReadHolds(d)' /\ OrderReadHolds(d)'
    BY <1>1 DEF ReadsHold, BatchReadHolds, OrderReadHolds, IInv, Types
  <2>1. ASSUME tx[d].op \in {"ready", "outbound"}
        PROVE  tx[d].batch \in Batches /\ tx[d].batch # b
    <3>1. tx[d] \in BatchTx
      BY <2>1, TransactionKinds DEF IInv, Types
    <3>2. tx[d].batch \in tx[d].rows
      BY <2>1 DEF IInv, ReadsHold, BatchReadHolds
    <3> QED
      BY <1>1, <3>1, <3>2 DEF IInv, RowsAreExclusive, BatchTx
  <2>2. BatchReadHolds(d)'
    BY <1>1, <2>1 DEF IInv, Types, ReadsHold, BatchReadHolds, IsCancelled
  <2>3. OrderReadHolds(d)'
    BY <1>1, <1>3 DEF IInv, Types, ReadsHold, OrderReadHolds
  <2> QED
    BY <2>2, <2>3
<1>7. ShippedWasReady'
  BY <1>1 DEF IInv, ShippedWasReady, Types, Batch
<1>8. CancellationKnowsOutbound'
  BY <1>1, <1>3 DEF IInv, CancellationKnowsOutbound, IsCancelled
<1> QED
  BY <1>4, <1>5, <1>6, <1>7, <1>8 DEF IInv

LEMMA CancelBatchIInv ==
  ASSUME IInv, NEW b \in Batches, CancelBatch(b)
  PROVE  IInv'
<1>1. /\ batch[b].status = "draft"
      /\ batch' = [batch EXCEPT ![b].status = "cancelled"]
      /\ UNCHANGED <<shipped, cancellation, tx>>
  BY DEF CancelBatch
<1>2. \A x \in Batches : batch'[x].members = batch[x].members
  BY <1>1 DEF IInv, Types, Batch
<1>3. \A o : HasLeft(o)' <=> HasLeft(o)
  BY <1>1, <1>2 DEF HasLeft, IInv, Types
<1>4. Types'
  BY <1>1 DEF IInv, Types, Batch
<1>5. RowsAreExclusive'
  BY <1>1 DEF IInv, RowsAreExclusive
<1>6. ReadsHold'
  <2> SUFFICES ASSUME NEW d \in Clerks, tx[d] # None
               PROVE  BatchReadHolds(d)' /\ OrderReadHolds(d)'
    BY <1>1 DEF ReadsHold, BatchReadHolds, OrderReadHolds
  <2>1. ASSUME tx[d].op \in {"ready", "outbound"}
        PROVE  tx[d].batch \in Batches /\ tx[d].batch # b
    <3>1. tx[d] \in BatchTx
      BY <2>1, TransactionKinds DEF IInv, Types
    <3>2. tx[d].batch \in tx[d].rows
      BY <2>1 DEF IInv, ReadsHold, BatchReadHolds
    <3> QED
      BY <3>1, <3>2 DEF BatchTx, CancelBatch, Free
  <2>2. BatchReadHolds(d)'
    BY <1>1, <2>1 DEF IInv, Types, ReadsHold, BatchReadHolds, IsCancelled
  <2>3. OrderReadHolds(d)'
    BY <1>1, <1>3 DEF IInv, ReadsHold, OrderReadHolds
  <2> QED
    BY <2>2, <2>3
<1>7. ShippedWasReady'
  BY <1>1 DEF IInv, ShippedWasReady, Types, Batch
<1>8. CancellationKnowsOutbound'
  BY <1>1, <1>3 DEF IInv, CancellationKnowsOutbound, IsCancelled
<1> QED
  BY <1>4, <1>5, <1>6, <1>7, <1>8 DEF IInv

LEMMA CommitOutboundIInv ==
  ASSUME IInv, NEW c \in Clerks, CommitOutbound(c)
  PROVE  IInv'
<1> DEFINE b == tx[c].batch
<1>1. /\ tx[c] # None /\ tx[c] \in BatchTx
      /\ tx' = [tx EXCEPT ![c] = None]
      /\ b \in Batches /\ batch[b].members \subseteq tx[c].rows
      /\ \A o \in batch[b].members : ~IsCancelled(o)
      /\ batch[b].status = "ready"
      /\ shipped' = shipped \cup {b}
      /\ UNCHANGED <<batch, cancellation>>
  BY TransactionKinds
     DEF IInv, Types, ReadsHold, BatchReadHolds, CommitOutbound, Committing, BatchTx
<1> HIDE DEF b
<1>2. \A o : o \notin batch[b].members => (HasLeft(o)' <=> HasLeft(o))
  BY <1>1 DEF HasLeft
<1>3. Types'
  BY <1>1 DEF IInv, Types
<1>4. RowsAreExclusive'
  BY <1>1 DEF IInv, Types, RowsAreExclusive
<1>5. ReadsHold'
  <2> SUFFICES ASSUME NEW d \in Clerks, tx[d] # None, d # c
               PROVE  BatchReadHolds(d)' /\ OrderReadHolds(d)'
    BY <1>1 DEF ReadsHold, BatchReadHolds, OrderReadHolds, IInv, Types
  <2>1. BatchReadHolds(d)'
    BY <1>1 DEF IInv, Types, ReadsHold, BatchReadHolds, IsCancelled
  <2>2. ASSUME tx[d].op = "cancel"
        PROVE  tx[d].order \notin batch[b].members
    <3>1. tx[d].order \in tx[d].rows
      BY <2>2 DEF IInv, ReadsHold, OrderReadHolds
    <3> QED
      BY <1>1, <3>1 DEF IInv, RowsAreExclusive
  <2>3. OrderReadHolds(d)'
    BY <1>1, <1>2, <2>2 DEF IInv, Types, ReadsHold, OrderReadHolds
  <2> QED
    BY <2>1, <2>3
<1>6. ShippedWasReady'
  BY <1>1 DEF IInv, ShippedWasReady
<1>7. CancellationKnowsOutbound'
  BY <1>1, <1>2 DEF IInv, CancellationKnowsOutbound, IsCancelled
<1> QED
  BY <1>3, <1>4, <1>5, <1>6, <1>7 DEF IInv

LEMMA CommitCancellationIInv ==
  ASSUME IInv, NEW c \in Clerks, CommitCancellation(c)
  PROVE  IInv'
<1> DEFINE o == tx[c].order
<1>1. /\ tx[c] # None /\ tx[c] \in CancelTx
      /\ tx' = [tx EXCEPT ![c] = None]
      /\ o \in Orders /\ o \in tx[c].rows
      /\ tx[c].left <=> HasLeft(o)
      /\ cancellation' = [cancellation EXCEPT ![o] = [status |-> "recorded", outbound |->
           IF tx[c].left THEN "outbound_confirmed" ELSE "not_outbound"]]
      /\ UNCHANGED <<batch, shipped>>
  BY TransactionKinds
     DEF IInv, Types, ReadsHold, OrderReadHolds, CommitCancellation, Committing, CancelTx
<1> HIDE DEF o
<1>2. \A x : HasLeft(x)' <=> HasLeft(x)
  BY <1>1 DEF HasLeft
<1>3. Types'
  BY <1>1 DEF IInv, Types, Cancellation
<1>4. RowsAreExclusive'
  BY <1>1 DEF IInv, Types, RowsAreExclusive
<1>5. ReadsHold'
  <2> SUFFICES ASSUME NEW d \in Clerks, tx[d] # None, d # c
               PROVE  BatchReadHolds(d)' /\ OrderReadHolds(d)'
    BY <1>1 DEF ReadsHold, BatchReadHolds, OrderReadHolds, IInv, Types
  <2>1. ASSUME tx[d].op \in {"ready", "outbound"}
        PROVE  o \notin batch[tx[d].batch].members
    <3>1. batch[tx[d].batch].members \subseteq tx[d].rows
      BY <2>1 DEF IInv, ReadsHold, BatchReadHolds
    <3> QED
      BY <1>1, <3>1 DEF IInv, RowsAreExclusive
  <2>2. BatchReadHolds(d)'
    BY <1>1, <2>1 DEF IInv, Types, ReadsHold, BatchReadHolds, IsCancelled
  <2>3. OrderReadHolds(d)'
    BY <1>1, <1>2 DEF IInv, Types, ReadsHold, OrderReadHolds
  <2> QED
    BY <2>2, <2>3
<1>6. ShippedWasReady'
  BY <1>1 DEF IInv, ShippedWasReady
<1>7. CancellationKnowsOutbound'
  BY <1>1, <1>2 DEF IInv, Types, CancellationKnowsOutbound, IsCancelled
<1> QED
  BY <1>3, <1>4, <1>5, <1>6, <1>7 DEF IInv

LEMMA CommitReturnIInv ==
  ASSUME IInv, NEW c \in Clerks, CommitReturn(c)
  PROVE  IInv'
<1>1. tx' = [tx EXCEPT ![c] = None] /\ UNCHANGED <<batch, shipped, cancellation>>
  BY DEF CommitReturn, Committing
<1>2. \A x : HasLeft(x)' <=> HasLeft(x)
  BY <1>1 DEF HasLeft
<1>3. Types' /\ RowsAreExclusive'
  BY <1>1 DEF IInv, Types, RowsAreExclusive
<1>4. ReadsHold'
  BY <1>1, <1>2 DEF IInv, Types, ReadsHold, BatchReadHolds, OrderReadHolds, IsCancelled
<1>5. ShippedWasReady' /\ CancellationKnowsOutbound'
  BY <1>1, <1>2 DEF IInv, ShippedWasReady, CancellationKnowsOutbound, IsCancelled
<1> QED
  BY <1>3, <1>4, <1>5 DEF IInv

LEMMA CloseCancellationIInv ==
  ASSUME IInv, NEW o \in Orders, CloseCancellation(o)
  PROVE  IInv'
<1>1. /\ cancellation[o].status = "recorded"
      /\ cancellation' = [cancellation EXCEPT ![o].status = "closed"]
      /\ UNCHANGED <<batch, shipped, tx>>
  BY DEF CloseCancellation
<1>2. \A x \in Orders : /\ IsCancelled(x)' <=> IsCancelled(x)
                        /\ cancellation'[x].outbound = cancellation[x].outbound
                        /\ HasLeft(x)' <=> HasLeft(x)
  BY <1>1 DEF IInv, Types, Cancellation, IsCancelled, HasLeft
<1>3. Types' /\ RowsAreExclusive'
  BY <1>1 DEF IInv, Types, RowsAreExclusive, Cancellation
<1>4. ReadsHold'
  <2> SUFFICES ASSUME NEW d \in Clerks
               PROVE  BatchReadHolds(d)' /\ OrderReadHolds(d)'
    BY DEF ReadsHold
  <2>1. BatchReadHolds(d)'
    <3> SUFFICES ASSUME tx[d] # None, tx[d].op \in {"ready", "outbound"}
                 PROVE  BatchReadHolds(d)'
      BY <1>1 DEF BatchReadHolds
    <3>1. tx[d] \in BatchTx
      BY TransactionKinds DEF IInv, Types
    <3>2. batch[tx[d].batch].members \subseteq Orders
      BY <3>1 DEF IInv, Types, Batch, BatchTx
    <3> QED
      BY <1>1, <1>2, <3>2 DEF IInv, ReadsHold, BatchReadHolds
  <2>2. OrderReadHolds(d)'
    BY <1>1 DEF IInv, ReadsHold, OrderReadHolds, HasLeft
  <2> QED
    BY <2>1, <2>2
<1>5. ShippedWasReady' /\ CancellationKnowsOutbound'
  BY <1>1, <1>2 DEF IInv, ShippedWasReady, CancellationKnowsOutbound
<1> QED
  BY <1>3, <1>4, <1>5 DEF IInv

----------------------------------------------------------------------------
LEMMA NextIInv == IInv /\ [Next]_vars => IInv'
<1> SUFFICES ASSUME IInv, [Next]_vars PROVE IInv'
  OBVIOUS
<1> USE NoneAssumption
<1>1. CASE Batching
  <2> PICK c \in Clerks :
        \/ \E b \in Batches :
             \/ \E O \in SUBSET Orders : BeginCreate(c, b, O)
             \/ BeginReady(c, b) \/ BeginOutbound(c, b)
        \/ CommitCreate(c) \/ CommitReady(c) \/ CommitOutbound(c)
    BY <1>1 DEF Batching
  <2>1. ASSUME NEW b \in Batches, NEW O \in SUBSET Orders, BeginCreate(c, b, O) PROVE IInv'
    BY <2>1, BeginCreateIInv
  <2>2. ASSUME NEW b \in Batches, BeginReady(c, b) PROVE IInv'
    BY <2>2, BeginOnBatchIInv DEF BeginReady
  <2>3. ASSUME NEW b \in Batches, BeginOutbound(c, b) PROVE IInv'
    BY <2>3, BeginOnBatchIInv DEF BeginOutbound
  <2> QED
    BY <2>1, <2>2, <2>3, CommitCreateIInv, CommitReadyIInv, CommitOutboundIInv
<1>2. CASE Cancelling
  BY <1>2, CommitCancellationIInv, BeginCancellationIInv, CloseCancellationIInv, CancelBatchIInv
     DEF Cancelling
<1>3. CASE Returning
  <2>1. ASSUME NEW c \in Clerks, NEW r \in Returns, NEW o \in Orders, NEW q \in Quantities,
               BeginReturn(c, r, o, q)
        PROVE  IInv'
    <3>1. q \in [Items -> Nat]
      BY StockAssumption DEF Quantities
    <3> QED
      BY <2>1, <3>1, BeginReturnIInv
  <2>2. ASSUME NEW r \in Returns,
               \/ \E q \in Quantities : ReceiveReturn(r, q) \/ CorrectRestock(r, q)
               \/ \E d \in [Items -> Disposition] : InspectReturn(r, d)
               \/ RestockReturn(r) \/ CloseReturn(r)
        PROVE  IInv'
    <3>1. UNCHANGED dispatchVars
      BY <2>2 DEF ReceiveReturn, CorrectRestock, InspectReturn, RestockReturn, CloseReturn,
                  Proceed, dispatchVars
    <3> QED
      BY <3>1, StutterIInv
  <2> QED
    BY <1>3, <2>1, <2>2, CommitReturnIInv DEF Returning
<1>4. CASE \E c \in Clerks : Rollback(c)
  BY <1>4, RollbackIInv
<1>5. CASE UNCHANGED fulfilmentVars
  BY <1>5, StutterIInv DEF fulfilmentVars, dispatchVars
<1> QED
  BY <1>1, <1>2, <1>3, <1>4, <1>5 DEF Next, vars

(* The locks of the commands on orders and batches make their reads hold until  *)
(* they commit.                                                              *)
THEOREM Serialized == Spec => []IInv
BY InitIInv, NextIInv, PTL DEF Spec

(* CANCELLATION-001 for any number of orders, batches and clerks: a            *)
(* cancellation says "outbound_confirmed" exactly if the order has left.       *)
THEOREM CancellationIsSerialized == Spec => []CancellationKnowsOutbound
<1>1. IInv => CancellationKnowsOutbound
  BY DEF IInv
<1> QED
  BY <1>1, Serialized, PTL

(* A batch never becomes ready with an order that is cancelled or unresolved.   *)
THEOREM ReadyBatchesAreClean == Spec => ReadyIsClean
<1> DEFINE A == \A b \in Batches :
                  batch[b].status # "ready" /\ batch'[b].status = "ready" =>
                    \A o \in batch'[b].members : o \in Resolved /\ ~IsCancelled(o)
<1>1. IInv /\ [Next]_vars => [A]_vars
  <2> SUFFICES ASSUME IInv, Next,
                      NEW b \in Batches, batch[b].status # "ready", batch'[b].status = "ready",
                      NEW o \in batch'[b].members
               PROVE  o \in Resolved /\ ~IsCancelled(o)
    OBVIOUS
  <2>1. batch' # batch
    OBVIOUS
  <2>2. ASSUME NEW c \in Clerks, CommitReady(c)
        PROVE  o \in Resolved /\ ~IsCancelled(o)
    <3>1. /\ tx[c] # None /\ tx[c].op = "ready"
          /\ batch' = [batch EXCEPT ![tx[c].batch].status = "ready"]
      BY <2>2 DEF CommitReady, Committing
    <3>2. b = tx[c].batch
      BY <3>1 DEF IInv, Types
    <3>3. batch'[b].members = batch[b].members
      BY <3>1, <3>2 DEF IInv, Types, Batch
    <3> QED
      BY <3>1, <3>2, <3>3 DEF IInv, ReadsHold, BatchReadHolds
  <2>3. ASSUME NEW c \in Clerks, CommitCreate(c) PROVE FALSE
    BY <2>3 DEF CommitCreate, IInv, Types
  <2>4. ASSUME NEW x \in Batches, CancelBatch(x) PROVE FALSE
    BY <2>4 DEF CancelBatch, IInv, Types, Batch
  <2>5. \/ \E c \in Clerks : CommitReady(c) \/ CommitCreate(c)
        \/ \E x \in Batches : CancelBatch(x)
    <3> USE <2>1
    <3>1. ASSUME Batching PROVE \E c \in Clerks : CommitReady(c) \/ CommitCreate(c)
      BY <3>1 DEF Batching, BeginCreate, BeginReady, BeginOutbound, BeginOnBatch, Open,
                  CommitOutbound
    <3>2. ASSUME Cancelling PROVE \E x \in Batches : CancelBatch(x)
      BY <3>2 DEF Cancelling, BeginCancellation, Open, CommitCancellation, CloseCancellation
    <3>3. ~Returning
      BY DEF Returning, BeginReturn, Open, CommitReturn, ReceiveReturn, CorrectRestock,
             InspectReturn, RestockReturn, CloseReturn, Proceed
    <3> QED
      BY <3>1, <3>2, <3>3 DEF Next, Rollback, fulfilmentVars
  <2> QED
    BY <2>2, <2>3, <2>4, <2>5
<1> QED
  BY <1>1, Serialized, PTL DEF Spec, ReadyIsClean

----------------------------------------------------------------------------
(* Units of products. *)

OfProduct(I, p) == {i \in I : OrderItem[i].product = p}

LEMMA PerProductValues ==
  ASSUME NEW I \in SUBSET Items, NEW units, \A i \in I : units[i] \in Int
  PROVE  /\ DOMAIN PerProduct(units, I) \subseteq Products
         /\ \A p \in DOMAIN PerProduct(units, I) : PerProduct(units, I)[p] \in Int
         /\ \A p : Units(PerProduct(units, I), p) = SumFunctionOnSet(units, OfProduct(I, p))
<1>1. DOMAIN PerProduct(units, I) = {OrderItem[i].product : i \in I}
  BY DEF PerProduct
<1>2. \A i \in I : OrderItem[i].product \in Products
  BY FulfilmentAssumption
<1>3. ASSUME NEW p \in DOMAIN PerProduct(units, I)
      PROVE  PerProduct(units, I)[p] = SumFunctionOnSet(units, OfProduct(I, p))
  BY <1>1 DEF PerProduct, OfProduct
<1>4. ASSUME NEW p PROVE SumFunctionOnSet(units, OfProduct(I, p)) \in Int
  <2>1. OfProduct(I, p) \subseteq I /\ IsFiniteSet(OfProduct(I, p))
    BY FS_Subset, FulfilmentAssumption DEF OfProduct
  <2> QED
    BY <2>1, SumIsInt
<1>5. ASSUME NEW p
      PROVE  Units(PerProduct(units, I), p) = SumFunctionOnSet(units, OfProduct(I, p))
  <2>1. CASE p \in DOMAIN PerProduct(units, I)
    BY <1>3, <2>1 DEF Units
  <2>2. CASE p \notin DOMAIN PerProduct(units, I)
    <3>1. OfProduct(I, p) = {}
      BY <1>1, <2>2 DEF OfProduct
    <3> QED
      BY <2>2, <3>1, SumOfNone DEF Units
  <2> QED
    BY <2>1, <2>2
<1>6. \A p \in DOMAIN PerProduct(units, I) : PerProduct(units, I)[p] \in Int
  BY <1>3, <1>4
<1> QED
  BY <1>1, <1>2, <1>5, <1>6

(* The other way round. *)
LEMMA NegatedUnits ==
  ASSUME NEW totals, \A p \in DOMAIN totals : totals[p] \in Int
  PROVE  \A p : Units([x \in DOMAIN totals |-> -totals[x]], p) = -Units(totals, p)
BY DEF Units

(* A movement counts for what it names and for nothing else. *)
LEMMA MovedByPost ==
  ASSUME StockTypeOK, NEW kind, NEW ref, NEW delta, Post(kind, ref, delta),
         NEW p \in Products, p \in DOMAIN delta => delta[p] \in Int
  PROVE  \A x : /\ Moved(x, p) \in Int
                /\ x # ref => Moved(x, p)' = Moved(x, p)
                /\ x = ref => Moved(x, p)' = Moved(x, p) + Units(delta, p)
<1> SUFFICES ASSUME NEW x
             PROVE  /\ Moved(x, p) \in Int
                    /\ x # ref => Moved(x, p)' = Moved(x, p)
                    /\ x = ref => Moved(x, p)' = Moved(x, p) + Units(delta, p)
  OBVIOUS
<1> DEFINE N == Len(ledger[p])
           Named == {n \in DOMAIN ledger[p] : ledger[p][n].ref = x}
           deltas == [n \in Named |-> ledger[p][n].delta]
           NamedAfter == {n \in DOMAIN ledger'[p] : ledger'[p][n].ref = x}
           deltasAfter == [n \in NamedAfter |-> ledger'[p][n].delta]
<1>1. ledger[p] \in Seq(Row) /\ N \in Nat /\ DOMAIN ledger[p] = 1..N
  BY DEF StockTypeOK
<1>2. \A n \in DOMAIN ledger[p] : ledger[p][n] \in Row
  BY <1>1
<1>3. \A n \in Named : deltas[n] \in Int
  BY <1>2 DEF Row
<1>4. Named \subseteq 1..N /\ IsFiniteSet(Named)
  <2>1. Named \subseteq 1..N
    BY <1>1
  <2>2. IsFiniteSet(1..N)
    <3> HIDE DEF N
    <3> QED
      BY <1>1, FS_Interval
  <2> HIDE DEF Named, N
  <2> QED
    BY <2>1, <2>2, FS_Subset
<1>5. /\ Moved(x, p) = SumFunctionOnSet(deltas, Named)
      /\ Moved(x, p)' = SumFunctionOnSet(deltasAfter, NamedAfter)
  BY DEF Moved, SumFunction
<1>6. Moved(x, p) \in Int
  <2> HIDE DEF Named, deltas
  <2> QED
    BY <1>3, <1>4, <1>5, SumIsInt
<1>7. CASE p \notin DOMAIN delta
  <2>1. ledger'[p] = ledger[p]
    BY <1>7 DEF Post
  <2>2. Moved(x, p)' = Moved(x, p)
    BY <2>1 DEF Moved
  <2> QED
    BY <1>6, <1>7, <2>2 DEF Units
<1>8. CASE p \in DOMAIN delta
  <2> DEFINE row == [kind |-> kind, ref |-> ref, delta |-> delta[p],
                     previous |-> onHand[p], result |-> onHand[p] + delta[p]]
  <2>1. ledger'[p] = Append(ledger[p], row)
    BY <1>8 DEF Post
  <2>2. row.ref = ref /\ row.delta = delta[p]
    OBVIOUS
  <2> HIDE DEF row
  <2>3. /\ DOMAIN ledger'[p] = (1..N) \cup {N + 1}
        /\ \A n \in 1..N : ledger'[p][n] = ledger[p][n]
        /\ ledger'[p][N + 1] = row
    BY <1>1, <2>1
  <2> HIDE DEF N
  <2>4. \A n \in Named : n \in NamedAfter /\ deltasAfter[n] = deltas[n]
    BY <1>1, <2>3
  <2>5. N + 1 \notin Named
    BY <1>1
  <2>6. SumFunctionOnSet(deltasAfter, Named) = SumFunctionOnSet(deltas, Named)
    <3> HIDE DEF Named, deltas, deltasAfter, NamedAfter
    <3> QED
      BY <1>4, <2>4, SumOfSame
  <2>7. CASE x # ref
    <3>1. NamedAfter = Named
      BY <1>1, <2>2, <2>3, <2>7
    <3> QED
      BY <1>5, <1>6, <2>6, <2>7, <3>1
  <2>8. CASE x = ref
    <3>1. NamedAfter = Named \cup {N + 1}
      BY <1>1, <2>2, <2>3, <2>8
    <3>2. deltasAfter[N + 1] = delta[p]
      BY <2>2, <2>3, <3>1
    <3>3. \A n \in Named \cup {N + 1} : deltasAfter[n] \in Int
      BY <1>3, <1>8, <2>4, <3>2
    <3>4. SumFunctionOnSet(deltasAfter, Named \cup {N + 1}) =
            deltasAfter[N + 1] + SumFunctionOnSet(deltasAfter, Named)
      <4> HIDE DEF Named, deltas, deltasAfter, NamedAfter
      <4> QED
        BY <1>4, <2>5, <3>3, SumAdding
    <3>5. Moved(x, p)' = delta[p] + Moved(x, p)
      BY <1>5, <2>6, <3>1, <3>2, <3>4
    <3> QED
      BY <1>6, <1>8, <2>8, <3>5 DEF Units
  <2> QED
    BY <2>7, <2>8
<1> QED
  BY <1>7, <1>8

LEMMA MovedUntouched ==
  ASSUME UNCHANGED ledger
  PROVE  \A x, p : Moved(x, p)' = Moved(x, p)
BY DEF Moved

(* The endpoints of the inventory module move nothing in the name of a batch or  *)
(* of a return.                                                              *)
LEMMA MovedByEndpoints ==
  ASSUME StockTypeOK, StockCommand, NEW x \in References, NEW p \in Products
  PROVE  Moved(x, p)' = Moved(x, p)
<1>1. CASE UNCHANGED ledger
  BY <1>1, MovedUntouched
<1>2. ASSUME NEW k \in Keys, NEW kind \in ManualKinds, NEW y \in Products,
             NEW q \in (-MaxQuantity)..MaxQuantity, Mutate(k, kind, y, q)
      PROVE  Moved(x, p)' = Moved(x, p)
  <2> DEFINE delta == [z \in {y} |-> q]
  <2>1. /\ Post(kind, k, delta) /\ \A z \in DOMAIN delta : delta[z] \in Int
        /\ x # k
    BY <1>2, StockAssumption DEF Mutate
  <2> HIDE DEF delta
  <2> QED
    BY <2>1, MovedByPost
<1> QED
  BY <1>1, <1>2 DEF StockCommand, Reserve, Hold, ReleaseReservation

----------------------------------------------------------------------------
(* The inductive invariant of the whole module: that of the inventory, that of   *)
(* the locks, and what the cases, their transactions and the ledger agree on.   *)

ReturnsType == returnCase \in [Returns -> ReturnCase]

(* Of an item no more is corrected than was restocked, restocked than came, or  *)
(* came than was expected; only items of the case's order are expected; nothing *)
(* is restocked before RestockReturn, which leaves no accepted unit behind.     *)
ItemIsSound(r, i) ==
  LET x == returnCase[r].item[i]
  IN  /\ x.corrected <= x.restocked /\ x.restocked <= x.received /\ x.received <= x.expected
      /\ x.expected > 0 => /\ returnCase[r].status # "none"
                           /\ OrderItem[i].order = returnCase[r].order
      /\ returnCase[r].status \in {"none", "expected", "received", "inspected"} => x.restocked = 0
      /\ returnCase[r].status \in {"damaged", "rejected", "restocked", "restock_corrected", "closed"}
         /\ i \in Restockable(r) => x.restocked = x.received

ReturnsAreSound ==
  \A r \in Returns : /\ returnCase[r].status # "none" => returnCase[r].order \in Orders
                     /\ \A i \in Items : ItemIsSound(r, i)

(* What c read of the items that it expects back is still so. *)
ReturnReadHolds(c) ==
  tx[c] # None /\ tx[c].op = "return" =>
    /\ tx[c].order \in tx[c].rows
    /\ \A i \in Items : tx[c].quantity[i] > 0 =>
         /\ OrderItem[i].order = tx[c].order
         /\ AlreadyExpected(i) + tx[c].quantity[i] <= OrderItem[i].quantity

ReturnReadsHold == \A c \in Clerks : ReturnReadHolds(c)

(* UNIQUE(company_id, marketplace_order_id). *)
MembersAreDisjoint ==
  \A a, b \in Batches : a # b => batch[a].members \cap batch[b].members = {}

OfProductItems(p) == OfProduct(Items, p)

(* RestocksAreInLedger, over all items instead of those of the case. *)
KeptOf(r) == [i \in Items |-> Kept(r, i)]

LedgerHasKept ==
  \A r \in Returns, p \in Products : Moved(r, p) = SumFunctionOnSet(KeptOf(r), OfProductItems(p))

FulfilmentInv == /\ StockInv
                 /\ IInv
                 /\ ReturnsType
                 /\ ReturnsAreSound
                 /\ ReturnReadsHold
                 /\ MembersAreDisjoint
                 /\ ShipmentsAreInLedger
                 /\ LedgerHasKept
                 /\ ExpectedIsBounded

(* Every step, by the tables that it writes. *)
ReturnCommand(r) ==
  \/ \E q \in Quantities : ReceiveReturn(r, q) \/ CorrectRestock(r, q)
  \/ \E d \in [Items -> Disposition] : InspectReturn(r, d)
  \/ RestockReturn(r) \/ CloseReturn(r)

LEMMA FulfilmentCases ==
  ASSUME [Next]_vars
  PROVE  \/ UNCHANGED <<stockVars, batch, shipped, cancellation, returnCase>>
         \/ StockCommand /\ UNCHANGED fulfilmentVars
         \/ \E c \in Clerks : \/ CommitCreate(c) \/ CommitReady(c) \/ CommitOutbound(c)
                              \/ CommitCancellation(c) \/ CommitReturn(c)
         \/ \E o \in Orders : CloseCancellation(o)
         \/ \E b \in Batches : CancelBatch(b)
         \/ \E r \in Returns : ReturnCommand(r)
<1>1. CASE Batching
  BY <1>1 DEF Batching, BeginCreate, BeginReady, BeginOutbound, BeginOnBatch, Open
<1>2. CASE Cancelling
  BY <1>2 DEF Cancelling, BeginCancellation, Open
<1>3. CASE Returning
  BY <1>3 DEF Returning, BeginReturn, Open, ReturnCommand
<1> QED
  BY <1>1, <1>2, <1>3 DEF Next, vars, fulfilmentVars, Rollback

(* One record of return_cases is written, from a status to a status. *)
ReturnEffect(r) ==
  /\ UNCHANGED <<batch, shipped, cancellation, tx>>
  /\ returnCase' \in [Returns -> ReturnCase]
  /\ \A x \in Returns \ {r} : returnCase'[x] = returnCase[x]
  /\ returnCase[r].status # "none" /\ returnCase'[r].status # "none"
  /\ returnCase'[r].order = returnCase[r].order
  /\ \A i \in Items : /\ returnCase'[r].item[i].expected = returnCase[r].item[i].expected
                      /\ ItemIsSound(r, i)'

KeptStays(r) == \A i \in Items : Kept(r, i)' = Kept(r, i)

LEMMA ItemValues ==
  ASSUME ReturnsType, NEW r \in Returns, NEW i \in Items
  PROVE  LET x == returnCase[r].item[i]
         IN  /\ x \in ReturnItem
             /\ x = [expected |-> x.expected, received |-> x.received, disposition |-> x.disposition,
                     restocked |-> x.restocked, corrected |-> x.corrected]
             /\ x.expected \in Nat /\ x.received \in Nat
             /\ x.restocked \in Nat /\ x.corrected \in Nat /\ x.disposition \in Disposition
<1>1. returnCase[r] \in ReturnCase
  BY DEF ReturnsType
<1>2. returnCase[r].item[i] \in ReturnItem
  BY <1>1 DEF ReturnCase
<1> QED
  BY <1>2 DEF ReturnItem

LEMMA ProceedWrites ==
  ASSUME ReturnsType, NEW r \in Returns, NEW from, NEW to, NEW item, Proceed(r, from, to, item),
         "none" \notin from, to # "none",
         to \in {"received", "inspected", "restocked", "restock_corrected", "damaged",
                 "rejected", "closed"},
         item = [i \in Items |-> item[i]], \A i \in Items : item[i] \in ReturnItem
  PROVE  /\ UNCHANGED <<batch, shipped, cancellation, tx>>
         /\ returnCase' \in [Returns -> ReturnCase]
         /\ \A x \in Returns \ {r} : returnCase'[x] = returnCase[x]
         /\ returnCase[r].status \in from /\ returnCase[r].status # "none"
         /\ returnCase'[r].status = to
         /\ returnCase'[r].order = returnCase[r].order
         /\ returnCase'[r].item = item
<1>1. /\ returnCase[r].status \in from /\ UNCHANGED <<batch, shipped, cancellation, tx>>
      /\ returnCase' = [returnCase EXCEPT ![r] =
           [status |-> to, order |-> returnCase[r].order, item |-> item]]
  BY DEF Proceed, ReturnsType
<1>2. returnCase'[r] = [status |-> to, order |-> returnCase[r].order, item |-> item]
  BY <1>1 DEF ReturnsType
<1>3. returnCase[r] \in ReturnCase
  BY DEF ReturnsType
<1>4. item \in [Items -> ReturnItem]
  OBVIOUS
<1>5. returnCase'[r] \in ReturnCase
  BY <1>2, <1>3, <1>4 DEF ReturnCase
<1>6. returnCase' \in [Returns -> ReturnCase]
  BY <1>1, <1>2, <1>5 DEF ReturnsType
<1>7. \A x \in Returns \ {r} : returnCase'[x] = returnCase[x]
  BY <1>1 DEF ReturnsType
<1>8. /\ returnCase'[r].status = to /\ returnCase'[r].order = returnCase[r].order
      /\ returnCase'[r].item = item
  BY <1>2
<1> QED
  BY <1>1, <1>6, <1>7, <1>8

LEMMA ReceiveEffect ==
  ASSUME ReturnsType, ReturnsAreSound, NEW r \in Returns, NEW q \in [Items -> Nat],
         ReceiveReturn(r, q)
  PROVE  ReturnEffect(r) /\ KeptStays(r) /\ UNCHANGED stockVars
<1> DEFINE item == [i \in Items |-> [returnCase[r].item[i] EXCEPT !.received = q[i]]]
<1>1. /\ Proceed(r, {"expected"}, "received", item) /\ UNCHANGED stockVars
      /\ \A i \in Items : q[i] <= returnCase[r].item[i].expected
  BY DEF ReceiveReturn
<1>2. \A i \in Items :
        /\ item[i] \in ReturnItem /\ item[i].received = q[i]
        /\ item[i].expected = returnCase[r].item[i].expected
        /\ item[i].restocked = returnCase[r].item[i].restocked
        /\ item[i].corrected = returnCase[r].item[i].corrected
  <2> SUFFICES ASSUME NEW i \in Items
        PROVE  /\ item[i] \in ReturnItem /\ item[i].received = q[i]
               /\ item[i].expected = returnCase[r].item[i].expected
               /\ item[i].restocked = returnCase[r].item[i].restocked
               /\ item[i].corrected = returnCase[r].item[i].corrected
    OBVIOUS
  <2>1. item[i] = [returnCase[r].item[i] EXCEPT !.received = q[i]]
    OBVIOUS
  <2>2. q[i] \in Nat
    OBVIOUS
  <2> HIDE DEF item
  <2> QED
    BY <2>1, <2>2, ItemValues DEF ReturnItem
<1>3. item = [i \in Items |-> item[i]]
  OBVIOUS
<1> HIDE DEF item
<1>4. /\ UNCHANGED <<batch, shipped, cancellation, tx>>
      /\ returnCase' \in [Returns -> ReturnCase]
      /\ \A x \in Returns \ {r} : returnCase'[x] = returnCase[x]
      /\ returnCase[r].status = "expected" /\ returnCase'[r].status = "received"
      /\ returnCase'[r].order = returnCase[r].order
      /\ returnCase'[r].item = item
  BY <1>1, <1>2, <1>3, ProceedWrites
<1>5. ASSUME NEW i \in Items PROVE ItemIsSound(r, i)'
  <2>1. ItemIsSound(r, i) /\ q[i] \in Nat /\ q[i] <= returnCase[r].item[i].expected
    BY <1>1 DEF ReturnsAreSound
  <2> QED
    BY <1>2, <1>4, <2>1, ItemValues DEF ItemIsSound
<1> QED
  BY <1>1, <1>2, <1>4, <1>5 DEF ReturnEffect, KeptStays, Kept

LEMMA InspectEffect ==
  ASSUME ReturnsType, ReturnsAreSound, NEW r \in Returns, NEW d \in [Items -> Disposition],
         InspectReturn(r, d)
  PROVE  ReturnEffect(r) /\ KeptStays(r) /\ UNCHANGED stockVars
<1> DEFINE item == [i \in Items |-> [returnCase[r].item[i] EXCEPT !.disposition = d[i]]]
           to == IF \E i \in Items : d[i] = "restockable" THEN "inspected"
                 ELSE IF \E i \in Items : d[i] = "damaged" THEN "damaged"
                 ELSE "rejected"
<1>1. Proceed(r, {"received"}, to, item) /\ UNCHANGED stockVars
  BY DEF InspectReturn
<1>2. \A i \in Items :
        /\ item[i] \in ReturnItem /\ item[i].disposition = d[i]
        /\ item[i].expected = returnCase[r].item[i].expected
        /\ item[i].received = returnCase[r].item[i].received
        /\ item[i].restocked = returnCase[r].item[i].restocked
        /\ item[i].corrected = returnCase[r].item[i].corrected
  <2> SUFFICES ASSUME NEW i \in Items
        PROVE  /\ item[i] \in ReturnItem /\ item[i].disposition = d[i]
               /\ item[i].expected = returnCase[r].item[i].expected
               /\ item[i].received = returnCase[r].item[i].received
               /\ item[i].restocked = returnCase[r].item[i].restocked
               /\ item[i].corrected = returnCase[r].item[i].corrected
    OBVIOUS
  <2>1. item[i] = [returnCase[r].item[i] EXCEPT !.disposition = d[i]]
    OBVIOUS
  <2>2. d[i] \in Disposition
    OBVIOUS
  <2> HIDE DEF item
  <2> QED
    BY <2>1, <2>2, ItemValues DEF ReturnItem
<1>3. item = [i \in Items |-> item[i]]
  OBVIOUS
<1>4. /\ to \in {"inspected", "damaged", "rejected"}
      /\ to # "inspected" => \A i \in Items : d[i] # "restockable"
  OBVIOUS
<1> HIDE DEF item, to
<1>5. /\ UNCHANGED <<batch, shipped, cancellation, tx>>
      /\ returnCase' \in [Returns -> ReturnCase]
      /\ \A x \in Returns \ {r} : returnCase'[x] = returnCase[x]
      /\ returnCase[r].status = "received" /\ returnCase'[r].status = to
      /\ returnCase'[r].order = returnCase[r].order
      /\ returnCase'[r].item = item
  BY <1>1, <1>2, <1>3, <1>4, ProceedWrites
<1>6. ASSUME NEW i \in Items PROVE ItemIsSound(r, i)'
  <2>1. ItemIsSound(r, i)
    BY DEF ReturnsAreSound
  <2>2. i \in Restockable(r)' => d[i] = "restockable"
    BY <1>2, <1>5 DEF Restockable
  <2> QED
    BY <1>2, <1>4, <1>5, <2>1, <2>2, ItemValues DEF ItemIsSound
<1> QED
  BY <1>1, <1>2, <1>4, <1>5, <1>6 DEF ReturnEffect, KeptStays, Kept

LEMMA CloseEffect ==
  ASSUME ReturnsType, ReturnsAreSound, NEW r \in Returns, CloseReturn(r)
  PROVE  ReturnEffect(r) /\ KeptStays(r) /\ UNCHANGED stockVars
<1> DEFINE from == {"restocked", "restock_corrected", "damaged", "rejected"}
<1>1. Proceed(r, from, "closed", returnCase[r].item) /\ UNCHANGED stockVars
  BY DEF CloseReturn
<1>2. \A i \in Items : returnCase[r].item[i] \in ReturnItem
  BY ItemValues
<1>3. returnCase[r].item = [i \in Items |-> returnCase[r].item[i]]
  <2>1. returnCase[r] \in ReturnCase
    BY DEF ReturnsType
  <2> QED
    BY <2>1 DEF ReturnCase
<1>4. /\ UNCHANGED <<batch, shipped, cancellation, tx>>
      /\ returnCase' \in [Returns -> ReturnCase]
      /\ \A x \in Returns \ {r} : returnCase'[x] = returnCase[x]
      /\ returnCase[r].status \in from /\ returnCase'[r].status = "closed"
      /\ returnCase'[r].order = returnCase[r].order
      /\ returnCase'[r].item = returnCase[r].item
  BY <1>1, <1>2, <1>3, ProceedWrites
<1>5. ASSUME NEW i \in Items PROVE ItemIsSound(r, i)'
  <2>1. ItemIsSound(r, i)
    BY DEF ReturnsAreSound
  <2>2. i \in Restockable(r)' => i \in Restockable(r)
    BY <1>4 DEF Restockable
  <2> QED
    BY <1>4, <2>1, <2>2 DEF ItemIsSound
<1> QED
  BY <1>1, <1>4, <1>5 DEF ReturnEffect, KeptStays, Kept

LEMMA RestockEffect ==
  ASSUME ReturnsType, ReturnsAreSound, NEW r \in Returns, RestockReturn(r)
  PROVE  /\ ReturnEffect(r)
         /\ \A i \in Items : Kept(r, i) = 0 /\ Kept(r, i)' = IF i \in Restockable(r)
                               THEN returnCase[r].item[i].received ELSE 0
<1> DEFINE item == [i \in Items |-> IF i \in Restockable(r)
                      THEN [returnCase[r].item[i] EXCEPT !.restocked = returnCase[r].item[i].received]
                      ELSE returnCase[r].item[i]]
<1>1. Proceed(r, {"inspected"}, "restocked", item)
  BY DEF RestockReturn
<1>2. \A i \in Items :
        /\ item[i] \in ReturnItem
        /\ item[i].expected = returnCase[r].item[i].expected
        /\ item[i].received = returnCase[r].item[i].received
        /\ item[i].corrected = returnCase[r].item[i].corrected
        /\ item[i].disposition = returnCase[r].item[i].disposition
        /\ item[i].restocked = IF i \in Restockable(r) THEN returnCase[r].item[i].received
                               ELSE returnCase[r].item[i].restocked
  <2> SUFFICES ASSUME NEW i \in Items
        PROVE  /\ item[i] \in ReturnItem
               /\ item[i].expected = returnCase[r].item[i].expected
               /\ item[i].received = returnCase[r].item[i].received
               /\ item[i].corrected = returnCase[r].item[i].corrected
               /\ item[i].disposition = returnCase[r].item[i].disposition
               /\ item[i].restocked = IF i \in Restockable(r) THEN returnCase[r].item[i].received
                                      ELSE returnCase[r].item[i].restocked
    OBVIOUS
  <2>1. /\ i \in Restockable(r) => item[i] =
             [returnCase[r].item[i] EXCEPT !.restocked = returnCase[r].item[i].received]
        /\ i \notin Restockable(r) => item[i] = returnCase[r].item[i]
    OBVIOUS
  <2>2. returnCase[r].item[i] \in ReturnItem /\ returnCase[r].item[i].received \in Nat
    BY ItemValues
  <2> HIDE DEF item
  <2>3. CASE i \in Restockable(r)
    BY <2>1, <2>2, <2>3 DEF ReturnItem
  <2>4. CASE i \notin Restockable(r)
    BY <2>1, <2>2, <2>4
  <2> QED
    BY <2>3, <2>4
<1>3. item = [i \in Items |-> item[i]]
  OBVIOUS
<1> HIDE DEF item
<1>4. /\ UNCHANGED <<batch, shipped, cancellation, tx>>
      /\ returnCase' \in [Returns -> ReturnCase]
      /\ \A x \in Returns \ {r} : returnCase'[x] = returnCase[x]
      /\ returnCase[r].status = "inspected" /\ returnCase'[r].status = "restocked"
      /\ returnCase'[r].order = returnCase[r].order
      /\ returnCase'[r].item = item
  BY <1>1, <1>2, <1>3, ProceedWrites
<1>5. ASSUME NEW i \in Items
      PROVE  /\ ItemIsSound(r, i)' /\ Kept(r, i) = 0
             /\ Kept(r, i)' = IF i \in Restockable(r)
                              THEN returnCase[r].item[i].received ELSE 0
  <2>1. ItemIsSound(r, i)
    BY DEF ReturnsAreSound
  <2> DEFINE x == returnCase[r].item[i]
             y == returnCase'[r].item[i]
  <2>2. /\ x.expected \in Nat /\ x.received \in Nat /\ x.restocked \in Nat /\ x.corrected \in Nat
        /\ x.corrected <= x.restocked /\ x.restocked <= x.received /\ x.received <= x.expected
        /\ x.restocked = 0
    BY <1>4, <2>1, ItemValues DEF ItemIsSound
  <2>3. /\ y.expected = x.expected /\ y.received = x.received /\ y.corrected = x.corrected
        /\ y.restocked = IF i \in Restockable(r) THEN x.received ELSE x.restocked
    BY <1>2, <1>4
  <2>4. i \in Restockable(r)' => i \in Restockable(r)
    BY <1>2, <1>4 DEF Restockable
  <2>5. y.expected > 0 => OrderItem[i].order = returnCase'[r].order
    BY <1>4, <2>1, <2>3 DEF ItemIsSound
  <2>6. Kept(r, i) = x.restocked - x.corrected /\ Kept(r, i)' = y.restocked - y.corrected
    BY DEF Kept
  <2> HIDE DEF x, y
  <2>7. y.corrected <= y.restocked /\ y.restocked <= y.received /\ y.received <= y.expected
    BY <2>2, <2>3
  <2>8. ItemIsSound(r, i)'
    BY <1>4, <2>3, <2>4, <2>5, <2>7 DEF ItemIsSound, y
  <2> QED
    BY <2>2, <2>3, <2>6, <2>8 DEF x
<1> QED
  BY <1>2, <1>4, <1>5 DEF ReturnEffect

LEMMA CorrectEffect ==
  ASSUME ReturnsType, ReturnsAreSound, NEW r \in Returns, NEW q \in [Items -> Nat],
         CorrectRestock(r, q)
  PROVE  /\ ReturnEffect(r)
         /\ \A i \in Items : q[i] <= Kept(r, i) /\ Kept(r, i)' = Kept(r, i) - q[i]
<1> DEFINE item == [i \in Items |-> [returnCase[r].item[i] EXCEPT !.corrected = @ + q[i]]]
<1>1. /\ Proceed(r, {"restocked", "restock_corrected"}, "restock_corrected", item)
      /\ \A i \in Items :
           q[i] <= returnCase[r].item[i].restocked - returnCase[r].item[i].corrected
  BY DEF CorrectRestock
<1>2. \A i \in Items :
        /\ item[i] \in ReturnItem
        /\ item[i].expected = returnCase[r].item[i].expected
        /\ item[i].received = returnCase[r].item[i].received
        /\ item[i].restocked = returnCase[r].item[i].restocked
        /\ item[i].disposition = returnCase[r].item[i].disposition
        /\ item[i].corrected = returnCase[r].item[i].corrected + q[i]
  <2> SUFFICES ASSUME NEW i \in Items
        PROVE  /\ item[i] \in ReturnItem
               /\ item[i].expected = returnCase[r].item[i].expected
               /\ item[i].received = returnCase[r].item[i].received
               /\ item[i].restocked = returnCase[r].item[i].restocked
               /\ item[i].disposition = returnCase[r].item[i].disposition
               /\ item[i].corrected = returnCase[r].item[i].corrected + q[i]
    OBVIOUS
  <2>1. item[i] = [returnCase[r].item[i] EXCEPT
                     !.corrected = returnCase[r].item[i].corrected + q[i]]
    OBVIOUS
  <2>2. returnCase[r].item[i] \in ReturnItem
    BY ItemValues
  <2>3. returnCase[r].item[i].corrected + q[i] \in Nat
    <3>1. q[i] \in Nat /\ returnCase[r].item[i].corrected \in Nat
      BY ItemValues
    <3> QED
      BY <3>1
  <2> HIDE DEF item
  <2> QED
    BY <2>1, <2>2, <2>3 DEF ReturnItem
<1>3. item = [i \in Items |-> item[i]]
  OBVIOUS
<1> HIDE DEF item
<1>4. /\ UNCHANGED <<batch, shipped, cancellation, tx>>
      /\ returnCase' \in [Returns -> ReturnCase]
      /\ \A x \in Returns \ {r} : returnCase'[x] = returnCase[x]
      /\ returnCase[r].status \in {"restocked", "restock_corrected"}
      /\ returnCase'[r].status = "restock_corrected"
      /\ returnCase'[r].order = returnCase[r].order
      /\ returnCase'[r].item = item
  BY <1>1, <1>2, <1>3, ProceedWrites
<1>5. ASSUME NEW i \in Items
      PROVE  ItemIsSound(r, i)' /\ q[i] <= Kept(r, i) /\ Kept(r, i)' = Kept(r, i) - q[i]
  <2>1. ItemIsSound(r, i) /\ q[i] \in Nat
    BY DEF ReturnsAreSound
  <2> DEFINE x == returnCase[r].item[i]
             y == returnCase'[r].item[i]
  <2>2. /\ x.expected \in Nat /\ x.received \in Nat /\ x.restocked \in Nat /\ x.corrected \in Nat
        /\ x.corrected <= x.restocked /\ x.restocked <= x.received /\ x.received <= x.expected
        /\ q[i] <= x.restocked - x.corrected
    BY <1>1, <2>1, ItemValues DEF ItemIsSound
  <2>3. /\ y.expected = x.expected /\ y.received = x.received /\ y.restocked = x.restocked
        /\ y.corrected = x.corrected + q[i]
    BY <1>2, <1>4
  <2>4. i \in Restockable(r)' => y.restocked = y.received
    <3>1. i \in Restockable(r)' => i \in Restockable(r)
      BY <1>2, <1>4 DEF Restockable
    <3> QED
      BY <1>4, <2>1, <2>3, <3>1 DEF ItemIsSound
  <2>5. y.expected > 0 => OrderItem[i].order = returnCase'[r].order
    BY <1>4, <2>1, <2>3 DEF ItemIsSound
  <2>6. Kept(r, i) = x.restocked - x.corrected /\ Kept(r, i)' = y.restocked - y.corrected
    BY DEF Kept
  <2> HIDE DEF x, y
  <2>7. y.corrected <= y.restocked /\ y.restocked <= y.received /\ y.received <= y.expected
    BY <2>1, <2>2, <2>3
  <2>8. ItemIsSound(r, i)'
    BY <1>4, <2>4, <2>5, <2>7 DEF ItemIsSound, y
  <2> QED
    BY <2>1, <2>2, <2>3, <2>6, <2>8
<1> QED
  BY <1>2, <1>4, <1>5 DEF ReturnEffect

(* All of them. *)
LEMMA EveryReturnCommand ==
  ASSUME ReturnsType, ReturnsAreSound, NEW r \in Returns, ReturnCommand(r)
  PROVE  /\ ReturnEffect(r)
         /\ \/ KeptStays(r) /\ UNCHANGED stockVars
            \/ RestockReturn(r)
            \/ \E q \in [Items -> Nat] : CorrectRestock(r, q)
<1>1. \A q \in Quantities : q \in [Items -> Nat]
  BY StockAssumption DEF Quantities
<1>2. ASSUME NEW q \in Quantities, ReceiveReturn(r, q)
      PROVE  ReturnEffect(r) /\ KeptStays(r) /\ UNCHANGED stockVars
  BY <1>1, <1>2, ReceiveEffect
<1>3. ASSUME NEW q \in Quantities, CorrectRestock(r, q)
      PROVE  ReturnEffect(r) /\ q \in [Items -> Nat]
  BY <1>1, <1>3, CorrectEffect
<1>4. ASSUME NEW d \in [Items -> Disposition], InspectReturn(r, d)
      PROVE  ReturnEffect(r) /\ KeptStays(r) /\ UNCHANGED stockVars
  BY <1>4, InspectEffect
<1> QED
  BY <1>2, <1>3, <1>4, RestockEffect, CloseEffect DEF ReturnCommand

----------------------------------------------------------------------------
(* What the steps do to the stock. *)

LEMMA ReceivedUnits ==
  ASSUME ReturnsType, NEW r \in Returns
  PROVE  /\ Restockable(r) \in SUBSET Items
         /\ \A i \in Restockable(r) : [j \in Items |-> returnCase[r].item[j].received][i] \in Int
<1>1. \A i \in Items : returnCase[r].item[i].received \in Nat
  BY ItemValues
<1> QED
  BY <1>1 DEF Restockable

LEMMA MovementsOfReturn ==
  ASSUME StockInv, NEW kind \in Kinds, NEW r \in Returns, NEW units,
         DOMAIN units \subseteq Products, \A p \in DOMAIN units : units[p] \in Int,
         ApplyReturnMovements(kind, r, units)
  PROVE  /\ StockInv'
         /\ \A p \in Products :
              /\ \A x : x # r => Moved(x, p)' = Moved(x, p)
              /\ Moved(r, p) \in Int
              /\ Moved(r, p)' = Moved(r, p) + Units(units, p)
<1>1. /\ Post(kind, r, units) /\ UNCHANGED <<reserved, reservation>>
      /\ \A p \in DOMAIN units : onHand[p] + units[p] >= reserved[p]
      /\ r \in References
  BY FulfilmentAssumption DEF ApplyReturnMovements
<1>2. StockInv'
  BY <1>1, MovementKeepsInv
<1>3. \A p \in Products : \A x :
        /\ x # r => Moved(x, p)' = Moved(x, p)
        /\ Moved(x, p) \in Int
        /\ x = r => Moved(x, p)' = Moved(x, p) + Units(units, p)
  BY <1>1, MovedByPost DEF StockInv
<1> QED
  BY <1>2, <1>3

LEMMA RestockMoves ==
  ASSUME StockInv, ReturnsType, NEW r \in Returns, RestockReturn(r)
  PROVE  /\ StockInv'
         /\ \A p \in Products :
              /\ \A x : x # r => Moved(x, p)' = Moved(x, p)
              /\ Moved(r, p) \in Int
              /\ Moved(r, p)' = Moved(r, p) +
                   SumFunctionOnSet([j \in Items |-> returnCase[r].item[j].received],
                                    OfProduct(Restockable(r), p))
<1> DEFINE received == [j \in Items |-> returnCase[r].item[j].received]
           units == PerProduct(received, Restockable(r))
<1>1. ApplyReturnMovements("return_restock", r, units)
  BY DEF RestockReturn
<1>2. Restockable(r) \in SUBSET Items /\ \A i \in Restockable(r) : received[i] \in Int
  BY ReceivedUnits
<1> HIDE DEF received
<1>3. /\ DOMAIN units \subseteq Products /\ \A p \in DOMAIN units : units[p] \in Int
      /\ \A p : Units(units, p) = SumFunctionOnSet(received, OfProduct(Restockable(r), p))
  BY <1>2, PerProductValues
<1> HIDE DEF units
<1>4. /\ StockInv'
      /\ \A p \in Products :
           /\ \A x : x # r => Moved(x, p)' = Moved(x, p)
           /\ Moved(r, p) \in Int
           /\ Moved(r, p)' = Moved(r, p) + Units(units, p)
  BY <1>1, <1>3, MovementsOfReturn DEF Kinds
<1> QED
  BY <1>3, <1>4 DEF received

LEMMA CorrectMoves ==
  ASSUME StockInv, NEW r \in Returns, NEW q \in [Items -> Nat], CorrectRestock(r, q)
  PROVE  /\ StockInv'
         /\ \A p \in Products :
              /\ \A x : x # r => Moved(x, p)' = Moved(x, p)
              /\ Moved(r, p) \in Int
              /\ Moved(r, p)' = Moved(r, p) -
                   SumFunctionOnSet(q, OfProduct({i \in Items : q[i] > 0}, p))
<1> DEFINE I == {i \in Items : q[i] > 0}
           units == PerProduct(q, I)
           back == [p \in DOMAIN units |-> -units[p]]
<1>1. ApplyReturnMovements("correction", r, back)
  BY DEF CorrectRestock
<1>2. I \in SUBSET Items /\ \A i \in I : q[i] \in Int
  OBVIOUS
<1> HIDE DEF I
<1>3. /\ DOMAIN units \subseteq Products /\ \A p \in DOMAIN units : units[p] \in Int
      /\ \A p : Units(units, p) = SumFunctionOnSet(q, OfProduct(I, p))
  BY <1>2, PerProductValues
<1> HIDE DEF units
<1>4. \A p : Units(back, p) = -Units(units, p)
  BY <1>3, NegatedUnits
<1>5. DOMAIN back \subseteq Products /\ \A p \in DOMAIN back : back[p] \in Int
  BY <1>3
<1> HIDE DEF back
<1>6. /\ StockInv'
      /\ \A p \in Products :
           /\ \A x : x # r => Moved(x, p)' = Moved(x, p)
           /\ Moved(r, p) \in Int
           /\ Moved(r, p)' = Moved(r, p) + Units(back, p)
  BY <1>1, <1>5, MovementsOfReturn DEF Kinds, ManualKinds
<1>7. \A p : Units(units, p) \in Int
  BY <1>3 DEF Units
<1>8. \A p \in Products : Moved(r, p)' = Moved(r, p) - SumFunctionOnSet(q, OfProduct(I, p))
  BY <1>3, <1>4, <1>6, <1>7
<1> QED
  BY <1>6, <1>8 DEF I

LEMMA OutboundMoves ==
  ASSUME StockInv, IInv, NEW c \in Clerks, CommitOutbound(c),
         NEW b, b = tx[c].batch
  PROVE  /\ StockInv'
         /\ b \in Batches /\ b \notin shipped /\ shipped' = shipped \cup {b}
         /\ \A o \in batch[b].members : ~IsCancelled(o)
         /\ UNCHANGED <<batch, cancellation, returnCase>>
         /\ \A p \in Products :
              /\ \A x : x # b => Moved(x, p)' = Moved(x, p)
              /\ Moved(b, p) \in Int
              /\ Moved(b, p)' = Moved(b, p) - Units(BatchTotals(b), p)
<1> DEFINE quantities == [i \in Items |-> OrderItem[i].quantity]
           totals == BatchTotals(b)
           delta == [p \in DOMAIN totals |-> -totals[p]]
<1>1. /\ tx[c] # None /\ tx[c] \in BatchTx /\ b \in Batches /\ b \notin shipped
      /\ shipped' = shipped \cup {b}
      /\ \A o \in batch[b].members : ~IsCancelled(o)
      /\ UNCHANGED <<batch, cancellation, returnCase>>
  BY TransactionKinds DEF IInv, Types, ReadsHold, BatchReadHolds, CommitOutbound, Committing, BatchTx
<1>2. /\ \A p \in DOMAIN totals : onHand[p] - totals[p] >= reserved[p]
      /\ Post("ecommerce_out", b, delta) /\ UNCHANGED <<reserved, reservation>>
  BY DEF CommitOutbound
<1>3. /\ DOMAIN totals \subseteq Products /\ \A p \in DOMAIN totals : totals[p] \in Int
  <2>1. totals = PerProduct(quantities, ItemsOf(batch[b].members))
    BY DEF BatchTotals
  <2>2. /\ ItemsOf(batch[b].members) \in SUBSET Items
        /\ \A i \in ItemsOf(batch[b].members) : quantities[i] \in Int
    BY FulfilmentAssumption DEF ItemsOf
  <2> HIDE DEF quantities, totals
  <2> QED
    BY <2>1, <2>2, PerProductValues
<1> HIDE DEF totals
<1>4. \A p : Units(delta, p) = -Units(totals, p) /\ Units(totals, p) \in Int
  BY <1>3, NegatedUnits DEF Units
<1>5. /\ DOMAIN delta = DOMAIN totals
      /\ \A p \in DOMAIN delta : delta[p] = -totals[p]
  OBVIOUS
<1> HIDE DEF delta
<1>6. DOMAIN delta \subseteq Products /\ \A p \in DOMAIN delta : delta[p] \in Int
  BY <1>3, <1>5
<1>7. \A p \in DOMAIN delta : onHand[p] + delta[p] >= reserved[p]
  BY <1>2, <1>3, <1>5 DEF StockInv, StockTypeOK
<1>8. b \in References /\ "ecommerce_out" \in Kinds
  BY <1>1, FulfilmentAssumption DEF Kinds
<1>9. StockInv'
  BY <1>2, <1>6, <1>7, <1>8, MovementKeepsInv
<1>10. \A p \in Products : \A x :
         /\ x # b => Moved(x, p)' = Moved(x, p)
         /\ Moved(x, p) \in Int
         /\ x = b => Moved(x, p)' = Moved(x, p) + Units(delta, p)
  BY <1>2, <1>6, MovedByPost DEF StockInv
<1>11. ASSUME NEW p \in Products PROVE Moved(b, p)' = Moved(b, p) - Units(totals, p)
  <2>1. Moved(b, p) \in Int /\ Moved(b, p)' = Moved(b, p) + Units(delta, p)
    BY <1>10
  <2>2. Units(delta, p) = -Units(totals, p) /\ Units(totals, p) \in Int
    BY <1>4
  <2> QED
    BY <2>1, <2>2
<1> QED
  BY <1>1, <1>9, <1>10, <1>11 DEF totals

LEMMA StockStep == FulfilmentInv /\ [Next]_vars => StockInv'
<1> SUFFICES ASSUME FulfilmentInv, [Next]_vars PROVE StockInv'
  OBVIOUS
<1>1. StockInv /\ IInv /\ ReturnsType /\ ReturnsAreSound
  BY DEF FulfilmentInv
<1>2. CASE UNCHANGED stockVars
  BY <1>1, <1>2, StockStutters
<1>3. CASE StockCommand
  BY <1>1, <1>3, StockCommandKeepsInv
<1>4. ASSUME NEW c \in Clerks, CommitOutbound(c) PROVE StockInv'
  <2>1. PICK b : b = tx[c].batch
    OBVIOUS
  <2> QED
    BY <1>1, <1>4, <2>1, OutboundMoves
<1>5. ASSUME NEW r \in Returns, ReturnCommand(r) PROVE StockInv'
  <2>1. \/ UNCHANGED stockVars
        \/ RestockReturn(r)
        \/ \E q \in [Items -> Nat] : CorrectRestock(r, q)
    BY <1>1, <1>5, EveryReturnCommand
  <2> QED
    BY <1>1, <1>2, <2>1, RestockMoves, CorrectMoves
<1> QED
  BY <1>2, <1>3, <1>4, <1>5, FulfilmentCases
     DEF CommitCreate, CommitReady, CommitCancellation, CommitReturn, CloseCancellation, CancelBatch

----------------------------------------------------------------------------
(* The cases. *)

LEMMA CommitReturnEffect ==
  ASSUME FulfilmentInv, NEW c \in Clerks, CommitReturn(c),
         NEW r, r = tx[c].return, NEW q, q = tx[c].quantity
  PROVE  /\ tx[c] # None /\ tx[c].op = "return" /\ tx' = [tx EXCEPT ![c] = None]
         /\ UNCHANGED <<stockVars, batch, shipped, cancellation>>
         /\ r \in Returns /\ q \in [Items -> Nat]
         /\ returnCase' \in [Returns -> ReturnCase]
         /\ \A x \in Returns \ {r} : returnCase'[x] = returnCase[x]
         /\ returnCase'[r].order \in Orders
         /\ \A i \in Items : /\ returnCase[r].item[i].expected = 0
                             /\ returnCase'[r].item[i].expected = q[i]
                             /\ Kept(r, i) = 0 /\ Kept(r, i)' = 0
                             /\ ItemIsSound(r, i)'
<1> USE DEF FulfilmentInv
<1>1. /\ tx[c] # None /\ tx[c].op = "return" /\ tx' = [tx EXCEPT ![c] = None]
      /\ returnCase[r].status = "none"
      /\ returnCase' = [returnCase EXCEPT ![r] =
           [status |-> "expected", order |-> tx[c].order,
            item |-> [i \in Items |-> Expecting(q[i])]]]
      /\ UNCHANGED <<stockVars, batch, shipped, cancellation>>
  BY DEF CommitReturn, Committing
<1>2. tx[c] \in ReturnTx
  BY <1>1 DEF IInv, Types, Transaction, CreateTx, BatchTx, CancelTx
<1>3. r \in Returns /\ tx[c].order \in Orders /\ q \in [Items -> Nat]
  BY <1>2 DEF ReturnTx
<1>4. returnCase'[r] = [status |-> "expected", order |-> tx[c].order,
                        item |-> [i \in Items |-> Expecting(q[i])]]
  BY <1>1, <1>3 DEF ReturnsType
<1>5. /\ returnCase'[r].status = "expected" /\ returnCase'[r].order = tx[c].order
      /\ returnCase'[r].item = [i \in Items |-> Expecting(q[i])]
  BY <1>4
<1>6. \A x \in Returns \ {r} : returnCase'[x] = returnCase[x]
  BY <1>1 DEF ReturnsType
<1>7. ASSUME NEW i \in Items
      PROVE  /\ returnCase'[r].item[i] \in ReturnItem
             /\ returnCase'[r].item[i].expected = q[i] /\ returnCase'[r].item[i].received = 0
             /\ returnCase'[r].item[i].restocked = 0 /\ returnCase'[r].item[i].corrected = 0
  <2>1. q[i] \in Nat /\ returnCase'[r].item[i] = Expecting(q[i])
    BY <1>3, <1>5
  <2> QED
    BY <2>1 DEF Expecting, ReturnItem, Disposition
<1>8. returnCase' \in [Returns -> ReturnCase]
  <2>1. returnCase'[r].item \in [Items -> ReturnItem]
    BY <1>5, <1>7
  <2>2. returnCase'[r] \in ReturnCase
    BY <1>3, <1>4, <1>5, <2>1 DEF ReturnCase
  <2> QED
    BY <1>1, <1>3, <1>6, <2>2 DEF ReturnsType
<1>9. ASSUME NEW i \in Items
      PROVE  /\ returnCase[r].item[i].expected = 0
             /\ Kept(r, i) = 0 /\ Kept(r, i)' = 0
             /\ ItemIsSound(r, i)'
  <2>1. ItemIsSound(r, i)
    BY <1>3 DEF ReturnsAreSound
  <2> DEFINE x == returnCase[r].item[i]
  <2>2. /\ x.expected \in Nat /\ x.received \in Nat /\ x.restocked \in Nat /\ x.corrected \in Nat
        /\ x.corrected <= x.restocked /\ x.restocked <= x.received /\ x.received <= x.expected
        /\ x.expected > 0 => FALSE
    BY <1>1, <1>3, <2>1, ItemValues DEF ItemIsSound
  <2>3. Kept(r, i) = x.restocked - x.corrected
    BY DEF Kept
  <2>4. Kept(r, i)' = 0
    BY <1>7 DEF Kept
  <2>5. q[i] \in Nat /\ (q[i] > 0 => OrderItem[i].order = tx[c].order)
    BY <1>1, <1>3 DEF ReturnReadsHold, ReturnReadHolds
  <2>6. ItemIsSound(r, i)'
    BY <1>5, <1>7, <2>5 DEF ItemIsSound
  <2> HIDE DEF x
  <2>7. x.expected = 0 /\ Kept(r, i) = 0
    BY <2>2, <2>3
  <2> QED
    BY <2>4, <2>6, <2>7 DEF x
<1> QED
  BY <1>1, <1>3, <1>5, <1>6, <1>7, <1>8, <1>9

LEMMA ReturnsStep == FulfilmentInv /\ [Next]_vars => ReturnsType' /\ ReturnsAreSound'
<1> SUFFICES ASSUME FulfilmentInv, [Next]_vars PROVE ReturnsType' /\ ReturnsAreSound'
  OBVIOUS
<1>1. ReturnsType /\ ReturnsAreSound
  BY DEF FulfilmentInv
<1>2. CASE UNCHANGED returnCase
  <2>1. \A r \in Returns, i \in Items : ItemIsSound(r, i)' <=> ItemIsSound(r, i)
    BY <1>2 DEF ItemIsSound, Restockable
  <2> QED
    BY <1>1, <1>2, <2>1 DEF ReturnsType, ReturnsAreSound
<1>3. ASSUME NEW r \in Returns, returnCase' \in [Returns -> ReturnCase],
             \A x \in Returns \ {r} : returnCase'[x] = returnCase[x],
             returnCase'[r].order \in Orders, \A i \in Items : ItemIsSound(r, i)'
      PROVE  ReturnsType' /\ ReturnsAreSound'
  <2>1. \A x \in Returns \ {r}, i \in Items : ItemIsSound(x, i)' <=> ItemIsSound(x, i)
    BY <1>3 DEF ItemIsSound, Restockable
  <2>2. \A x \in Returns, i \in Items : ItemIsSound(x, i)'
    BY <1>1, <1>3, <2>1 DEF ReturnsAreSound
  <2> QED
    BY <1>1, <1>3, <2>2 DEF ReturnsType, ReturnsAreSound
<1>4. ASSUME NEW r \in Returns, ReturnCommand(r) PROVE ReturnsType' /\ ReturnsAreSound'
  <2>1. ReturnEffect(r)
    BY <1>1, <1>4, EveryReturnCommand
  <2>2. returnCase'[r].order \in Orders
    BY <1>1, <2>1 DEF ReturnEffect, ReturnsAreSound
  <2> QED
    BY <1>3, <2>1, <2>2 DEF ReturnEffect
<1>5. ASSUME NEW c \in Clerks, CommitReturn(c) PROVE ReturnsType' /\ ReturnsAreSound'
  <2>1. PICK r, q : r = tx[c].return /\ q = tx[c].quantity
    OBVIOUS
  <2>2. /\ r \in Returns /\ returnCase' \in [Returns -> ReturnCase]
        /\ \A x \in Returns \ {r} : returnCase'[x] = returnCase[x]
        /\ returnCase'[r].order \in Orders
        /\ \A i \in Items : ItemIsSound(r, i)'
    BY <1>5, <2>1, CommitReturnEffect
  <2> QED
    BY <1>3, <2>2
<1> QED
  BY <1>2, <1>4, <1>5, FulfilmentCases
     DEF CommitCreate, CommitReady, CommitOutbound, CommitCancellation, CloseCancellation,
         CancelBatch, fulfilmentVars

----------------------------------------------------------------------------
(* What is expected of an item. *)

ExpectedOf(i) == [r \in Returns |-> returnCase[r].item[i].expected]

LEMMA ExpectedValues ==
  ASSUME ReturnsType, NEW i \in Items
  PROVE  /\ AlreadyExpected(i) = SumFunctionOnSet(ExpectedOf(i), Returns)
         /\ \A r \in Returns : /\ ExpectedOf(i)[r] = returnCase[r].item[i].expected
                               /\ ExpectedOf(i)[r] \in Nat
         /\ AlreadyExpected(i) \in Nat
<1>1. AlreadyExpected(i) = SumFunctionOnSet(ExpectedOf(i), Returns)
  BY DEF AlreadyExpected, ExpectedOf, SumFunction
<1>2. \A r \in Returns : /\ ExpectedOf(i)[r] = returnCase[r].item[i].expected
                         /\ ExpectedOf(i)[r] \in Nat
  BY ItemValues DEF ExpectedOf
<1>3. AlreadyExpected(i) \in Nat
  BY <1>1, <1>2, SumIsNat, FulfilmentAssumption
<1> QED
  BY <1>1, <1>2, <1>3

LEMMA ExpectedKept ==
  ASSUME \A r \in Returns, i \in Items :
           returnCase'[r].item[i].expected = returnCase[r].item[i].expected
  PROVE  \A i \in Items : AlreadyExpected(i)' = AlreadyExpected(i)
BY DEF AlreadyExpected

LEMMA ExpectedAfterReturn ==
  ASSUME FulfilmentInv, NEW c \in Clerks, CommitReturn(c), NEW q, q = tx[c].quantity, NEW i \in Items
  PROVE  AlreadyExpected(i)' = AlreadyExpected(i) + q[i]
<1>1. PICK r : r = tx[c].return
  OBVIOUS
<1>2. /\ r \in Returns /\ returnCase' \in [Returns -> ReturnCase]
      /\ \A x \in Returns \ {r} : returnCase'[x] = returnCase[x]
      /\ returnCase[r].item[i].expected = 0
      /\ returnCase'[r].item[i].expected = q[i] /\ q[i] \in Nat
  BY <1>1, CommitReturnEffect
<1> DEFINE before == ExpectedOf(i)
           after == [x \in Returns |-> returnCase'[x].item[i].expected]
<1>3. /\ AlreadyExpected(i) = SumFunctionOnSet(before, Returns)
      /\ \A x \in Returns : before[x] = returnCase[x].item[i].expected /\ before[x] \in Nat
      /\ AlreadyExpected(i) \in Nat
  BY ExpectedValues DEF FulfilmentInv
<1>4. AlreadyExpected(i)' = SumFunctionOnSet(after, Returns)
  BY DEF AlreadyExpected, SumFunction
<1>5. \A x \in Returns : after[x] = IF x = r THEN q[i] ELSE before[x]
  BY <1>2, <1>3
<1> HIDE DEF before, after
<1>6. SumFunctionOnSet(after, Returns) = SumFunctionOnSet(before, Returns) + after[r] - before[r]
  <2>1. \A x \in Returns : before[x] \in Int /\ after[x] \in Int
    BY <1>2, <1>3, <1>5
  <2>2. \A x \in Returns : x # r => after[x] = before[x]
    BY <1>5
  <2> QED
    BY <1>2, <2>1, <2>2, SumChange, FulfilmentAssumption
<1>7. after[r] = q[i] /\ before[r] = 0
  BY <1>2, <1>3, <1>5
<1> QED
  BY <1>2, <1>3, <1>4, <1>6, <1>7

(* Only CommitReturn makes more of an item expected. *)
LEMMA ExpectedSteps ==
  ASSUME FulfilmentInv, [Next]_vars
  PROVE  \/ \A i \in Items : AlreadyExpected(i)' = AlreadyExpected(i)
         \/ \E c \in Clerks : CommitReturn(c)
<1>1. CASE UNCHANGED returnCase
  BY <1>1, ExpectedKept
<1>2. ASSUME NEW r \in Returns, ReturnCommand(r)
      PROVE  \A i \in Items : AlreadyExpected(i)' = AlreadyExpected(i)
  <2>1. ReturnEffect(r)
    BY <1>2, EveryReturnCommand DEF FulfilmentInv
  <2> QED
    BY <2>1, ExpectedKept DEF ReturnEffect
<1> QED
  BY <1>1, <1>2, FulfilmentCases
     DEF CommitCreate, CommitReady, CommitOutbound, CommitCancellation, CloseCancellation,
         CancelBatch, fulfilmentVars

LEMMA BoundStep == FulfilmentInv /\ [Next]_vars => ExpectedIsBounded'
<1> SUFFICES ASSUME FulfilmentInv, [Next]_vars, NEW i \in Items
             PROVE  AlreadyExpected(i)' <= OrderItem[i].quantity
  BY DEF ExpectedIsBounded
<1>1. AlreadyExpected(i) <= OrderItem[i].quantity /\ AlreadyExpected(i) \in Nat
  BY ExpectedValues DEF FulfilmentInv, ExpectedIsBounded
<1>2. ASSUME NEW c \in Clerks, CommitReturn(c)
      PROVE  AlreadyExpected(i)' <= OrderItem[i].quantity
  <2>1. PICK r, q : r = tx[c].return /\ q = tx[c].quantity
    OBVIOUS
  <2>2. AlreadyExpected(i)' = AlreadyExpected(i) + q[i]
    BY <1>2, <2>1, ExpectedAfterReturn
  <2>3. q[i] \in Nat /\ tx[c] # None /\ tx[c].op = "return"
    BY <1>2, <2>1, CommitReturnEffect
  <2>4. q[i] > 0 => AlreadyExpected(i) + q[i] <= OrderItem[i].quantity
    BY <2>1, <2>3 DEF FulfilmentInv, ReturnReadsHold, ReturnReadHolds
  <2> QED
    BY <1>1, <2>2, <2>3, <2>4
<1> QED
  BY <1>1, <1>2, ExpectedSteps

(* A transaction that opens a case was open before, or opens now. *)
LEMMA ReturnTransactions ==
  ASSUME IInv, [Next]_vars, NEW d \in Clerks, tx'[d] # None, tx'[d].op = "return"
  PROVE  \/ tx'[d] = tx[d] /\ ~ CommitReturn(d)
         \/ \E r \in Returns, o \in Orders, q \in Quantities : BeginReturn(d, r, o, q)
<1>0. tx \in [Clerks -> Transaction \cup {None}]
  BY DEF IInv, Types
<1>1. ~ CommitReturn(d)
  BY <1>0 DEF CommitReturn, Committing
<1>2. ASSUME NEW c \in Clerks, NEW t, Open(c, t), t.op # "return"
      PROVE  tx'[d] = tx[d]
  BY <1>0, <1>2 DEF Open
<1>3. ASSUME NEW c \in Clerks, tx' = [tx EXCEPT ![c] = None]
      PROVE  tx'[d] = tx[d]
  BY <1>0, <1>3
<1>4. CASE Batching
  <2> PICK c \in Clerks :
        \/ \E b \in Batches :
             \/ \E O \in SUBSET Orders : BeginCreate(c, b, O)
             \/ BeginReady(c, b) \/ BeginOutbound(c, b)
        \/ CommitCreate(c) \/ CommitReady(c) \/ CommitOutbound(c)
    BY <1>4 DEF Batching
  <2>1. ASSUME NEW b \in Batches, NEW O \in SUBSET Orders, BeginCreate(c, b, O)
        PROVE  tx'[d] = tx[d]
    <3>1. PICK t : t = [op |-> "create", rows |-> {}, batch |-> b, members |-> O]
      OBVIOUS
    <3>2. Open(c, t) /\ t.op # "return"
      BY <2>1, <3>1 DEF BeginCreate
    <3> QED
      BY <1>2, <3>2
  <2>2. ASSUME NEW b \in Batches, NEW op \in {"ready", "outbound"}, NEW from,
               BeginOnBatch(c, b, op, from)
        PROVE  tx'[d] = tx[d]
    <3>1. PICK t : t = [op |-> op, rows |-> {b} \cup batch[b].members, batch |-> b]
      OBVIOUS
    <3>2. Open(c, t) /\ t.op # "return"
      BY <2>2, <3>1 DEF BeginOnBatch
    <3> QED
      BY <1>2, <3>2
  <2>3. ASSUME CommitCreate(c) \/ CommitReady(c) \/ CommitOutbound(c)
        PROVE  tx'[d] = tx[d]
    BY <1>3, <2>3 DEF CommitCreate, CommitReady, CommitOutbound, Committing
  <2> QED
    BY <1>1, <2>1, <2>2, <2>3 DEF BeginReady, BeginOutbound
<1>5. CASE Cancelling
  <2>1. ASSUME NEW c \in Clerks, NEW o \in Orders, BeginCancellation(c, o)
        PROVE  tx'[d] = tx[d]
    <3>1. PICK t : t = [op |-> "cancel", rows |-> {o}, order |-> o, left |-> HasLeft(o)]
      OBVIOUS
    <3>2. Open(c, t) /\ t.op # "return"
      BY <2>1, <3>1 DEF BeginCancellation
    <3> QED
      BY <1>2, <3>2
  <2>2. ASSUME NEW c \in Clerks, CommitCancellation(c) PROVE tx'[d] = tx[d]
    BY <1>3, <2>2 DEF CommitCancellation, Committing
  <2>3. (\E o \in Orders : CloseCancellation(o)) \/ (\E b \in Batches : CancelBatch(b))
          => tx'[d] = tx[d]
    BY DEF CloseCancellation, CancelBatch
  <2> QED
    BY <1>1, <1>5, <2>1, <2>2, <2>3 DEF Cancelling
<1>6. CASE Returning
  <2>1. ASSUME NEW c \in Clerks, NEW r \in Returns, NEW o \in Orders, NEW q \in Quantities,
               BeginReturn(c, r, o, q), c # d
        PROVE  tx'[d] = tx[d]
    BY <1>0, <2>1 DEF BeginReturn, Open
  <2>2. ASSUME NEW c \in Clerks, CommitReturn(c) PROVE tx'[d] = tx[d]
    BY <1>3, <2>2 DEF CommitReturn, Committing
  <2>3. ASSUME NEW r \in Returns, ReturnCommand(r) PROVE tx'[d] = tx[d]
    BY <2>3 DEF ReturnCommand, ReceiveReturn, InspectReturn, RestockReturn, CorrectRestock,
                CloseReturn, Proceed
  <2>4. \/ \E c \in Clerks : \/ \E r \in Returns, o \in Orders, q \in Quantities : BeginReturn(c, r, o, q)
                             \/ CommitReturn(c)
        \/ \E r \in Returns : ReturnCommand(r)
    BY <1>6 DEF Returning, ReturnCommand
  <2> QED
    BY <1>1, <2>1, <2>2, <2>3, <2>4
<1>7. CASE \E c \in Clerks : Rollback(c)
  BY <1>1, <1>3, <1>7 DEF Rollback
<1>8. CASE UNCHANGED fulfilmentVars
  BY <1>1, <1>8 DEF fulfilmentVars
<1> QED
  BY <1>4, <1>5, <1>6, <1>7, <1>8 DEF Next, vars

LEMMA ReturnReadsStep == FulfilmentInv /\ [Next]_vars => ReturnReadsHold'
<1> SUFFICES ASSUME FulfilmentInv, [Next]_vars, NEW d \in Clerks, tx'[d] # None, tx'[d].op = "return"
             PROVE  ReturnReadHolds(d)'
  BY DEF ReturnReadsHold, ReturnReadHolds
<1>0. tx \in [Clerks -> Transaction \cup {None}] /\ IInv
  BY DEF FulfilmentInv, IInv, Types
<1>1. ASSUME NEW r \in Returns, NEW o \in Orders, NEW q \in Quantities, BeginReturn(d, r, o, q)
      PROVE  ReturnReadHolds(d)'
  <2>1. tx'[d] = [op |-> "return", rows |-> {o}, return |-> r, order |-> o, quantity |-> q]
    BY <1>0, <1>1 DEF BeginReturn, Open
  <2>2. /\ tx'[d].rows = {o} /\ tx'[d].order = o /\ tx'[d].quantity = q
    BY <2>1
  <2>3. \A i \in Items : AlreadyExpected(i)' = AlreadyExpected(i)
    BY <1>1, ExpectedKept DEF BeginReturn, Open
  <2>4. \A i \in Items : q[i] > 0 =>
          OrderItem[i].order = o /\ AlreadyExpected(i) + q[i] <= OrderItem[i].quantity
    BY <1>1 DEF BeginReturn
  <2> QED
    BY <2>2, <2>3, <2>4 DEF ReturnReadHolds
<1>2. CASE tx'[d] = tx[d] /\ ~ CommitReturn(d)
  <2>1. /\ tx[d].order \in tx[d].rows
        /\ \A i \in Items : tx[d].quantity[i] > 0 =>
             /\ OrderItem[i].order = tx[d].order
             /\ AlreadyExpected(i) + tx[d].quantity[i] <= OrderItem[i].quantity
    BY <1>2 DEF FulfilmentInv, ReturnReadsHold, ReturnReadHolds
  <2>2. ASSUME NEW i \in Items, tx[d].quantity[i] > 0
        PROVE  AlreadyExpected(i)' = AlreadyExpected(i)
    <3>1. ASSUME NEW c \in Clerks, CommitReturn(c)
          PROVE  AlreadyExpected(i)' = AlreadyExpected(i)
      <4>1. PICK r, q : r = tx[c].return /\ q = tx[c].quantity
        OBVIOUS
      <4>2. AlreadyExpected(i)' = AlreadyExpected(i) + q[i]
        BY <3>1, <4>1, ExpectedAfterReturn
      <4>3. q[i] \in Nat /\ tx[c] # None /\ tx[c].op = "return"
        BY <3>1, <4>1, CommitReturnEffect
      <4>4. c # d /\ tx[d] # None
        BY <1>2, <3>1
      <4>5. tx[c].rows \cap tx[d].rows = {}
        BY <1>0, <4>3, <4>4 DEF IInv, RowsAreExclusive
      <4>6. tx[c].order \in tx[c].rows /\ (q[i] > 0 => OrderItem[i].order = tx[c].order)
        BY <4>1, <4>3 DEF FulfilmentInv, ReturnReadsHold, ReturnReadHolds
      <4>7. ~ (q[i] > 0)
        BY <2>1, <2>2, <4>5, <4>6
      <4>8. AlreadyExpected(i) \in Nat
        BY ExpectedValues DEF FulfilmentInv
      <4> QED
        BY <4>2, <4>3, <4>7, <4>8
    <3> QED
      BY <3>1, ExpectedSteps
  <2> QED
    BY <1>2, <2>1, <2>2 DEF ReturnReadHolds
<1> QED
  BY <1>0, <1>1, <1>2, ReturnTransactions

----------------------------------------------------------------------------
(* The batches. *)

(* Only CommitCreate gives a batch members, and that only once. *)
LEMMA MembersSteps ==
  ASSUME IInv, [Next]_vars
  PROVE  \/ \A b \in Batches : batch'[b].members = batch[b].members
         \/ \E c \in Clerks, b \in Batches, O \in SUBSET Orders :
              /\ CommitCreate(c) /\ b = tx[c].batch /\ batch[b].status = "none"
              /\ batch'[b].members = O
              /\ \A x \in Batches \ {b} : batch'[x] = batch[x]
              /\ \A x \in Batches : batch[x].members \cap O = {}
<1>0. batch \in [Batches -> Batch]
  BY DEF IInv, Types
<1>1. ASSUME NEW c \in Clerks, CommitReady(c)
      PROVE  \A b \in Batches : batch'[b].members = batch[b].members
  BY <1>0, <1>1 DEF CommitReady, Batch
<1>2. ASSUME NEW x \in Batches, CancelBatch(x)
      PROVE  \A b \in Batches : batch'[b].members = batch[b].members
  BY <1>0, <1>2 DEF CancelBatch, Batch
<1>3. ASSUME NEW c \in Clerks, CommitCreate(c)
      PROVE  \E b \in Batches, O \in SUBSET Orders :
               /\ b = tx[c].batch /\ batch[b].status = "none"
               /\ batch'[b].members = O
               /\ \A x \in Batches \ {b} : batch'[x] = batch[x]
               /\ \A x \in Batches : batch[x].members \cap O = {}
  <2>1. PICK b, O : b = tx[c].batch /\ O = tx[c].members
    OBVIOUS
  <2>2. tx[c] \in CreateTx
    BY <1>3, TransactionKinds DEF CommitCreate, Committing, IInv, Types
  <2>3. b \in Batches /\ O \in SUBSET Orders
    BY <2>1, <2>2 DEF CreateTx
  <2>4. /\ batch[b].status = "none" /\ \A x \in Batches : batch[x].members \cap O = {}
        /\ batch' = [batch EXCEPT ![b] = [status |-> "draft", members |-> O]]
    BY <1>3, <2>1 DEF CommitCreate
  <2>5. batch'[b] = [status |-> "draft", members |-> O]
    BY <1>0, <2>3, <2>4
  <2>6. batch'[b].members = O /\ \A x \in Batches \ {b} : batch'[x] = batch[x]
    BY <1>0, <2>3, <2>4, <2>5
  <2> QED
    BY <2>1, <2>3, <2>4, <2>6
<1>4. ASSUME NEW r \in Returns, ReturnCommand(r) PROVE UNCHANGED batch
  BY <1>4 DEF ReturnCommand, ReceiveReturn, InspectReturn, RestockReturn, CorrectRestock,
              CloseReturn, Proceed
<1> QED
  BY <1>1, <1>2, <1>3, <1>4, FulfilmentCases
     DEF CommitOutbound, CommitCancellation, CommitReturn, CloseCancellation, fulfilmentVars

LEMMA DisjointStep == FulfilmentInv /\ [Next]_vars => MembersAreDisjoint'
<1> SUFFICES ASSUME FulfilmentInv, [Next]_vars PROVE MembersAreDisjoint'
  OBVIOUS
<1>1. IInv /\ MembersAreDisjoint
  BY DEF FulfilmentInv
<1>2. CASE \A b \in Batches : batch'[b].members = batch[b].members
  BY <1>1, <1>2 DEF MembersAreDisjoint
<1>3. ASSUME NEW b \in Batches, NEW O, batch'[b].members = O,
             \A x \in Batches \ {b} : batch'[x] = batch[x],
             \A x \in Batches : batch[x].members \cap O = {}
      PROVE  MembersAreDisjoint'
  <2> SUFFICES ASSUME NEW x \in Batches, NEW y \in Batches, x # y
               PROVE  batch'[x].members \cap batch'[y].members = {}
    BY DEF MembersAreDisjoint
  <2>1. CASE x # b /\ y # b
    BY <1>1, <1>3, <2>1 DEF MembersAreDisjoint
  <2>2. CASE x = b
    BY <1>3, <2>2
  <2>3. CASE y = b
    BY <1>3, <2>3
  <2> QED
    BY <2>1, <2>2, <2>3
<1> QED
  BY <1>1, <1>2, <1>3, MembersSteps

(* What has left keeps its members. *)
LEMMA ShippedStays ==
  ASSUME IInv, [Next]_vars, NEW b \in shipped
  PROVE  b \in Batches /\ batch'[b].members = batch[b].members /\ BatchTotals(b)' = BatchTotals(b)
<1>1. b \in Batches /\ batch[b].status = "ready"
  BY DEF IInv, Types, ShippedWasReady
<1>2. batch'[b].members = batch[b].members
  BY <1>1, MembersSteps
<1> QED
  BY <1>1, <1>2 DEF BatchTotals

(* Only CommitOutbound adds to the shipped batches. *)
LEMMA ShippedSteps ==
  ASSUME [Next]_vars
  PROVE  UNCHANGED shipped \/ \E c \in Clerks : CommitOutbound(c)
<1>1. ASSUME NEW r \in Returns, ReturnCommand(r) PROVE UNCHANGED shipped
  BY <1>1 DEF ReturnCommand, ReceiveReturn, InspectReturn, RestockReturn, CorrectRestock,
              CloseReturn, Proceed
<1> QED
  BY <1>1, FulfilmentCases DEF CommitCreate, CommitReady, CommitCancellation, CommitReturn,
                               CloseCancellation, CancelBatch, fulfilmentVars

----------------------------------------------------------------------------
(* The ledger. *)

(* Of a batch only its outbound moves anything, of a return only the restock and *)
(* its corrections.                                                          *)
LEMMA MovedSteps ==
  ASSUME FulfilmentInv, [Next]_vars, NEW p \in Products
  PROVE  /\ \A b \in Batches : \/ Moved(b, p)' = Moved(b, p)
                               \/ \E c \in Clerks : CommitOutbound(c) /\ b = tx[c].batch
         /\ \A r \in Returns : \/ Moved(r, p)' = Moved(r, p)
                               \/ RestockReturn(r)
                               \/ \E q \in [Items -> Nat] : CorrectRestock(r, q)
<1>0. /\ StockInv /\ StockTypeOK /\ IInv /\ ReturnsType /\ ReturnsAreSound
      /\ Batches \cup Returns \subseteq References /\ Batches \cap Returns = {}
  BY FulfilmentAssumption DEF FulfilmentInv, StockInv
<1>1. CASE UNCHANGED ledger
  BY <1>1, MovedUntouched
<1>2. CASE StockCommand
  BY <1>0, <1>2, MovedByEndpoints
<1>3. ASSUME NEW c \in Clerks, CommitOutbound(c)
      PROVE  /\ \A b \in Batches : Moved(b, p)' = Moved(b, p) \/ b = tx[c].batch
             /\ \A r \in Returns : Moved(r, p)' = Moved(r, p)
  <2>1. PICK b : b = tx[c].batch
    OBVIOUS
  <2>2. b \in Batches /\ \A x : x # b => Moved(x, p)' = Moved(x, p)
    BY <1>0, <1>3, <2>1, OutboundMoves
  <2>3. \A x \in Batches : x # b => Moved(x, p)' = Moved(x, p)
    BY <2>2
  <2>4. \A r \in Returns : Moved(r, p)' = Moved(r, p)
    BY <1>0, <2>2
  <2> QED
    BY <2>1, <2>3, <2>4
<1>4. ASSUME NEW r \in Returns, ReturnCommand(r)
      PROVE  /\ \A b \in Batches : Moved(b, p)' = Moved(b, p)
             /\ \A x \in Returns : \/ Moved(x, p)' = Moved(x, p)
                                   \/ x = r /\ RestockReturn(r)
                                   \/ x = r /\ \E q \in [Items -> Nat] : CorrectRestock(r, q)
  <2>1. ASSUME \A x : x # r => Moved(x, p)' = Moved(x, p)
        PROVE  /\ \A b \in Batches : Moved(b, p)' = Moved(b, p)
               /\ \A x \in Returns : x # r => Moved(x, p)' = Moved(x, p)
    BY <1>0, <2>1
  <2>2. CASE UNCHANGED stockVars
    BY <2>2, MovedUntouched DEF stockVars
  <2>3. CASE RestockReturn(r)
    <3>1. \A x : x # r => Moved(x, p)' = Moved(x, p)
      BY <1>0, <2>3, RestockMoves
    <3> QED
      BY <2>1, <2>3, <3>1
  <2>4. ASSUME NEW q \in [Items -> Nat], CorrectRestock(r, q)
        PROVE  \A x : x # r => Moved(x, p)' = Moved(x, p)
    BY <1>0, <2>4, CorrectMoves
  <2>5. CASE \E q \in [Items -> Nat] : CorrectRestock(r, q)
    <3>1. \A x : x # r => Moved(x, p)' = Moved(x, p)
      BY <2>4, <2>5
    <3> QED
      BY <2>1, <2>5, <3>1
  <2> QED
    BY <1>0, <1>4, <2>2, <2>3, <2>5, EveryReturnCommand
<1> QED
  BY <1>1, <1>2, <1>3, <1>4, FulfilmentCases
     DEF CommitCreate, CommitReady, CommitCancellation, CommitReturn, CloseCancellation,
         CancelBatch, stockVars

LEMMA ShipmentsStep == FulfilmentInv /\ [Next]_vars => ShipmentsAreInLedger'
<1> SUFFICES ASSUME FulfilmentInv, [Next]_vars, NEW b \in Batches, NEW p \in Products
             PROVE  Moved(b, p)' = IF b \in shipped' THEN -Units(BatchTotals(b)', p) ELSE 0
  BY DEF ShipmentsAreInLedger, Units
<1>0. /\ StockInv /\ IInv
      /\ Moved(b, p) = IF b \in shipped THEN -Units(BatchTotals(b), p) ELSE 0
  BY DEF FulfilmentInv, ShipmentsAreInLedger
<1>1. b \in shipped => BatchTotals(b)' = BatchTotals(b)
  BY <1>0, ShippedStays
<1>2. ASSUME NEW c \in Clerks, CommitOutbound(c), b = tx[c].batch
      PROVE  Moved(b, p)' = IF b \in shipped' THEN -Units(BatchTotals(b)', p) ELSE 0
  <2>1. /\ b \notin shipped /\ shipped' = shipped \cup {b} /\ UNCHANGED batch
        /\ Moved(b, p) \in Int /\ Moved(b, p)' = Moved(b, p) - Units(BatchTotals(b), p)
    BY <1>0, <1>2, OutboundMoves
  <2>2. BatchTotals(b)' = BatchTotals(b)
    BY <2>1 DEF BatchTotals
  <2>3. Units(BatchTotals(b), p) \in Int
    <3> DEFINE quantities == [i \in Items |-> OrderItem[i].quantity]
               I == ItemsOf(batch[b].members)
    <3>1. I \in SUBSET Items /\ \A i \in I : quantities[i] \in Int
      BY FulfilmentAssumption DEF ItemsOf
    <3>2. BatchTotals(b) = PerProduct(quantities, I)
      BY DEF BatchTotals
    <3> HIDE DEF quantities, I
    <3>3. \A x \in DOMAIN BatchTotals(b) : BatchTotals(b)[x] \in Int
      BY <3>1, <3>2, PerProductValues
    <3> QED
      BY <3>3 DEF Units
  <2>4. Moved(b, p) = 0 /\ b \in shipped'
    BY <1>0, <2>1
  <2> QED
    BY <2>1, <2>2, <2>3, <2>4
<1>3. ASSUME NEW c \in Clerks, CommitOutbound(c), b # tx[c].batch
      PROVE  b \in shipped' <=> b \in shipped
  BY <1>3 DEF CommitOutbound
<1>4. CASE ~ \E c \in Clerks : CommitOutbound(c) /\ b = tx[c].batch
  <2>1. Moved(b, p)' = Moved(b, p)
    BY <1>4, MovedSteps
  <2>2. b \in shipped' <=> b \in shipped
    BY <1>3, <1>4, ShippedSteps
  <2> QED
    BY <1>0, <1>1, <2>1, <2>2
<1> QED
  BY <1>2, <1>4

(* What a case keeps, in the units of one product. *)
LEMMA KeptValues ==
  ASSUME ReturnsType, ReturnsAreSound, NEW r \in Returns
  PROVE  /\ \A i \in Items : KeptOf(r)[i] = Kept(r, i) /\ Kept(r, i) \in Nat
         /\ \A i \in Items : Kept(r, i) <= returnCase[r].item[i].expected
         /\ \A p : \A I \in SUBSET Items : IsFiniteSet(OfProduct(I, p)) /\ OfProduct(I, p) \subseteq Items
<1>1. ASSUME NEW i \in Items
      PROVE  Kept(r, i) \in Nat /\ Kept(r, i) <= returnCase[r].item[i].expected
  <2> DEFINE x == returnCase[r].item[i]
  <2>1. /\ x.expected \in Nat /\ x.received \in Nat /\ x.restocked \in Nat /\ x.corrected \in Nat
        /\ x.corrected <= x.restocked /\ x.restocked <= x.received /\ x.received <= x.expected
    BY ItemValues DEF ReturnsAreSound, ItemIsSound
  <2>2. Kept(r, i) = x.restocked - x.corrected
    BY DEF Kept
  <2> HIDE DEF x
  <2>3. Kept(r, i) \in Nat /\ Kept(r, i) <= x.expected
    BY <2>1, <2>2
  <2> QED
    BY <2>3 DEF x
<1>2. ASSUME NEW I \in SUBSET Items, NEW p
      PROVE  IsFiniteSet(OfProduct(I, p)) /\ OfProduct(I, p) \subseteq Items
  <2>1. OfProduct(I, p) \subseteq Items
    BY DEF OfProduct
  <2> QED
    BY <2>1, FS_Subset, FulfilmentAssumption
<1> QED
  BY <1>1, <1>2 DEF KeptOf

(* Only restocks and their corrections change what a case keeps. *)
LEMMA KeptSteps ==
  ASSUME FulfilmentInv, [Next]_vars, NEW r \in Returns
  PROVE  \/ KeptStays(r)
         \/ RestockReturn(r)
         \/ \E q \in [Items -> Nat] : CorrectRestock(r, q)
<1>1. CASE UNCHANGED returnCase
  BY <1>1 DEF KeptStays, Kept
<1>2. ASSUME NEW x \in Returns, ReturnCommand(x), x # r PROVE KeptStays(r)
  <2>1. ReturnEffect(x)
    BY <1>2, EveryReturnCommand DEF FulfilmentInv
  <2>2. returnCase'[r] = returnCase[r]
    BY <1>2, <2>1 DEF ReturnEffect
  <2> QED
    BY <2>2 DEF KeptStays, Kept
<1>3. ASSUME NEW c \in Clerks, CommitReturn(c) PROVE KeptStays(r)
  <2>1. PICK x, q : x = tx[c].return /\ q = tx[c].quantity
    OBVIOUS
  <2>2. /\ \A y \in Returns \ {x} : returnCase'[y] = returnCase[y]
        /\ \A i \in Items : Kept(x, i) = 0 /\ Kept(x, i)' = 0
    BY <1>3, <2>1, CommitReturnEffect
  <2>3. CASE r = x
    BY <2>2, <2>3 DEF KeptStays
  <2>4. CASE r # x
    BY <2>2, <2>4 DEF KeptStays, Kept
  <2> QED
    BY <2>3, <2>4
<1>4. CASE ReturnCommand(r)
  BY <1>4, EveryReturnCommand DEF FulfilmentInv
<1> QED
  BY <1>1, <1>2, <1>3, <1>4, FulfilmentCases
     DEF CommitCreate, CommitReady, CommitOutbound, CommitCancellation, CloseCancellation,
         CancelBatch, fulfilmentVars

LEMMA KeptStep == FulfilmentInv /\ [Next]_vars => LedgerHasKept'
<1> SUFFICES ASSUME FulfilmentInv, [Next]_vars, NEW r \in Returns, NEW p \in Products
             PROVE  Moved(r, p)' = SumFunctionOnSet(KeptOf(r)', OfProductItems(p))
  BY DEF LedgerHasKept, OfProductItems, OfProduct
<1> DEFINE S == OfProductItems(p)
           before == KeptOf(r)
           after == KeptOf(r)'
<1>0. /\ StockInv /\ IInv /\ ReturnsType /\ ReturnsAreSound
      /\ Moved(r, p) = SumFunctionOnSet(before, S)
  BY DEF FulfilmentInv, LedgerHasKept
<1>1. IsFiniteSet(S) /\ S \subseteq Items
  BY <1>0, KeptValues DEF OfProductItems
<1>2. \A i \in Items : /\ before[i] = Kept(r, i) /\ before[i] \in Nat
                       /\ after[i] = Kept(r, i)'
  BY <1>0, KeptValues DEF KeptOf
<1> HIDE DEF S, before, after
<1>3. SumFunctionOnSet(before, S) \in Int
  BY <1>1, <1>2, SumIsInt
<1>4. CASE RestockReturn(r)
  <2> DEFINE received == [j \in Items |-> returnCase[r].item[j].received]
             T == OfProduct(Restockable(r), p)
  <2>1. Moved(r, p)' = Moved(r, p) + SumFunctionOnSet(received, T)
    BY <1>0, <1>4, RestockMoves
  <2>2. \A i \in Items : /\ Kept(r, i) = 0
                         /\ Kept(r, i)' = IF i \in Restockable(r)
                                          THEN returnCase[r].item[i].received ELSE 0
    BY <1>0, <1>4, RestockEffect
  <2>3. \A i \in Items : received[i] = returnCase[r].item[i].received /\ received[i] \in Nat
    BY <1>0, ItemValues
  <2>4. T \subseteq S /\ IsFiniteSet(T) /\ (\A i \in S : i \in T <=> i \in Restockable(r))
    <3>1. T \subseteq S
      BY <1>1 DEF S, OfProductItems, OfProduct, Restockable
    <3>2. \A i \in S : i \in T <=> i \in Restockable(r)
      BY DEF S, OfProductItems, OfProduct
    <3> HIDE DEF T
    <3> QED
      BY <1>1, <3>1, <3>2, FS_Subset
  <2> HIDE DEF received, T
  <2>5. \A i \in S : after[i] = IF i \in T THEN received[i] ELSE 0
    BY <1>1, <1>2, <2>2, <2>3, <2>4
  <2>6. SumFunctionOnSet(before, S) = 0
    <3>1. \A i \in S : before[i] = 0
      BY <1>1, <1>2, <2>2
    <3> QED
      BY <1>1, <3>1, SumOfZeros
  <2>7. SumFunctionOnSet(after, S) = SumFunctionOnSet(after, T)
    <3>1. \A i \in S : after[i] \in Int
      BY <1>1, <2>3, <2>5
    <3>2. \A i \in S \ T : after[i] = 0
      BY <2>5
    <3> QED
      BY <1>1, <2>4, <3>1, <3>2, SumLeavingOutZeros
  <2>8. SumFunctionOnSet(after, T) = SumFunctionOnSet(received, T)
    <3>1. \A i \in T : after[i] = received[i]
      BY <2>4, <2>5
    <3> QED
      BY <2>4, <3>1, SumOfSame
  <2>9. SumFunctionOnSet(received, T) \in Int
    <3>1. \A i \in T : received[i] \in Int
      BY <1>1, <2>3, <2>4
    <3> QED
      BY <2>4, <3>1, SumIsInt
  <2>10. Moved(r, p)' = SumFunctionOnSet(after, S)
    BY <1>0, <2>1, <2>6, <2>7, <2>8, <2>9
  <2> QED
    BY <2>10 DEF after, S
<1>5. ASSUME NEW q \in [Items -> Nat], CorrectRestock(r, q)
      PROVE  Moved(r, p)' = SumFunctionOnSet(KeptOf(r)', OfProductItems(p))
  <2> DEFINE T == OfProduct({i \in Items : q[i] > 0}, p)
  <2>1. Moved(r, p)' = Moved(r, p) - SumFunctionOnSet(q, T)
    BY <1>0, <1>5, CorrectMoves
  <2>2. \A i \in Items : Kept(r, i)' = Kept(r, i) - q[i]
    BY <1>0, <1>5, CorrectEffect
  <2>3. T \subseteq S /\ \A i \in S \ T : q[i] = 0
    <3>1. T \subseteq S
      BY DEF S, OfProductItems, OfProduct
    <3>2. ASSUME NEW i \in S \ T PROVE q[i] = 0
      <4>1. i \in Items /\ q[i] \in Nat /\ ~ (q[i] > 0)
        BY <1>1 DEF S, OfProductItems, OfProduct
      <4> QED
        BY <4>1
    <3> QED
      BY <3>1, <3>2
  <2> HIDE DEF T
  <2>4. \A i \in S : before[i] \in Int /\ q[i] \in Int /\ after[i] = before[i] - q[i]
    BY <1>1, <1>2, <2>2
  <2>5. SumFunctionOnSet(q, S) = SumFunctionOnSet(q, T)
    BY <1>1, <2>3, <2>4, SumLeavingOutZeros
  <2>6. SumFunctionOnSet(after, S) = SumFunctionOnSet(before, S) - SumFunctionOnSet(q, S)
    BY <1>1, <2>4, SumOfDifference
  <2>7. Moved(r, p)' = SumFunctionOnSet(after, S)
    BY <1>0, <2>1, <2>5, <2>6
  <2> QED
    BY <2>7 DEF after, S
<1>6. CASE ~ RestockReturn(r) /\ ~ \E q \in [Items -> Nat] : CorrectRestock(r, q)
  <2>1. Moved(r, p)' = Moved(r, p)
    BY <1>6, MovedSteps
  <2>2. KeptStays(r)
    BY <1>6, KeptSteps
  <2>3. \A i \in S : after[i] = before[i]
    BY <1>1, <1>2, <2>2 DEF KeptStays
  <2>4. SumFunctionOnSet(after, S) = SumFunctionOnSet(before, S)
    BY <1>1, <2>3, SumOfSame
  <2>5. Moved(r, p)' = SumFunctionOnSet(after, S)
    BY <1>0, <2>1, <2>4
  <2> QED
    BY <2>5 DEF after, S
<1> QED
  BY <1>4, <1>5, <1>6

----------------------------------------------------------------------------
LEMMA InitFulfilmentInv == Init => FulfilmentInv
<1> SUFFICES ASSUME Init PROVE FulfilmentInv
  OBVIOUS
<1>1. StockInv /\ IInv
  BY InitStockInv, InitIInv DEF Init
<1>2. /\ \A r \in Returns : /\ returnCase[r].status = "none" /\ returnCase[r].order = None
                            /\ returnCase[r].item = [i \in Items |-> Expecting(0)]
      /\ shipped = {}
      /\ \A b \in Batches : batch[b].members = {}
      /\ \A c \in Clerks : tx[c] = None
      /\ ledger = [p \in Products |-> << >>]
  BY DEF Init, InitStock
<1>3. \A r \in Returns, i \in Items : returnCase[r].item[i] = Expecting(0)
  BY <1>2
<1>4. \A r \in Returns, i \in Items :
        /\ returnCase[r].item[i].expected = 0 /\ returnCase[r].item[i].received = 0
        /\ returnCase[r].item[i].restocked = 0 /\ returnCase[r].item[i].corrected = 0
  BY <1>3 DEF Expecting
<1>5. ReturnsType
  <2>1. Expecting(0) \in ReturnItem
    BY DEF Expecting, ReturnItem, Disposition
  <2> QED
    BY <2>1 DEF Init, ReturnsType, ReturnCase
<1>6. ReturnsAreSound
  BY <1>2, <1>4 DEF ReturnsAreSound, ItemIsSound
<1>7. ReturnReadsHold
  BY <1>2 DEF ReturnReadsHold, ReturnReadHolds
<1>8. MembersAreDisjoint
  BY <1>2 DEF MembersAreDisjoint
<1>9. ASSUME NEW x, NEW p \in Products PROVE Moved(x, p) = 0
  <2> DEFINE Named == {n \in DOMAIN ledger[p] : ledger[p][n].ref = x}
             deltas == [n \in Named |-> ledger[p][n].delta]
  <2>1. Named = {}
    BY <1>2
  <2>2. Moved(x, p) = SumFunctionOnSet(deltas, Named)
    BY DEF Moved, SumFunction
  <2> HIDE DEF Named, deltas
  <2> QED
    BY <2>1, <2>2, SumOfNone
<1>10. ShipmentsAreInLedger
  BY <1>2, <1>9 DEF ShipmentsAreInLedger
<1>11. LedgerHasKept
  <2> SUFFICES ASSUME NEW r \in Returns, NEW p \in Products
               PROVE  SumFunctionOnSet(KeptOf(r), OfProductItems(p)) = 0
    BY <1>9 DEF LedgerHasKept
  <2>1. IsFiniteSet(OfProductItems(p)) /\ OfProductItems(p) \subseteq Items
    BY <1>5, <1>6, KeptValues DEF OfProductItems
  <2>2. \A i \in OfProductItems(p) : KeptOf(r)[i] = 0
    BY <1>4, <2>1 DEF KeptOf, Kept
  <2> QED
    BY <2>1, <2>2, SumOfZeros
<1>12. ExpectedIsBounded
  <2> SUFFICES ASSUME NEW i \in Items PROVE AlreadyExpected(i) <= OrderItem[i].quantity
    BY DEF ExpectedIsBounded
  <2>1. AlreadyExpected(i) = SumFunctionOnSet(ExpectedOf(i), Returns)
    BY <1>5, ExpectedValues
  <2>2. \A r \in Returns : ExpectedOf(i)[r] = 0
    BY <1>4, <1>5, ExpectedValues
  <2>3. AlreadyExpected(i) = 0
    BY <2>1, <2>2, SumOfZeros, FulfilmentAssumption
  <2> QED
    BY <2>3, FulfilmentAssumption
<1> QED
  BY <1>1, <1>5, <1>6, <1>7, <1>8, <1>10, <1>11, <1>12 DEF FulfilmentInv

LEMMA FulfilmentInvStep == FulfilmentInv /\ [Next]_vars => FulfilmentInv'
<1> SUFFICES ASSUME FulfilmentInv, [Next]_vars PROVE FulfilmentInv'
  OBVIOUS
<1>1. IInv'
  BY NextIInv DEF FulfilmentInv
<1> QED
  BY <1>1, StockStep, ReturnsStep, ReturnReadsStep, DisjointStep, ShipmentsStep, KeptStep, BoundStep
     DEF FulfilmentInv

(* Every reachable state satisfies the invariant: cases, orders and the ledger   *)
(* agree, and what open transactions read is still so.                          *)
THEOREM Invariance == Spec => []FulfilmentInv
BY InitFulfilmentInv, FulfilmentInvStep, PTL DEF Spec

(* Every table keeps its type, whatever overlaps: no quantity of an order, a     *)
(* return or a balance leaves its range.                                     *)
THEOREM TypeCorrect == Spec => []TypeOK
<1>1. FulfilmentInv => TypeOK
  BY DEF FulfilmentInv, StockInv, IInv, Types, ReturnsType, TypeOK
<1> QED
  BY Invariance, <1>1, PTL

(* OUTBOUND: for every batch and product the ledger has taken exactly what the   *)
(* batch's orders need if the batch is in inventory_outbound_events, and nothing *)
(* if it is not, however many clerks confirm it at once.                       *)
THEOREM ShipmentsAreExact == Spec => []ShipmentsAreInLedger
<1>1. FulfilmentInv => ShipmentsAreInLedger
  BY DEF FulfilmentInv
<1> QED
  BY Invariance, <1>1, PTL

(* RETURN-004, RETURN-005: for every case and product the ledger has taken in    *)
(* exactly what the case's items say was restocked and not corrected since.     *)
THEOREM RestocksAreExact == Spec => []RestocksAreInLedger
<1>1. ASSUME FulfilmentInv PROVE RestocksAreInLedger
  <2> SUFFICES ASSUME NEW r \in Returns, NEW p \in Products
               PROVE  Moved(r, p) = Units(PerProduct(KeptOf(r), ItemsIn(r)), p)
    BY DEF RestocksAreInLedger, KeptOf
  <2> DEFINE kept == KeptOf(r)
             I == ItemsIn(r)
             S == OfProductItems(p)
             T == OfProduct(I, p)
  <2>0. ReturnsType /\ ReturnsAreSound
    BY <1>1 DEF FulfilmentInv
  <2>1. /\ \A i \in Items : kept[i] = Kept(r, i) /\ kept[i] \in Nat
                            /\ kept[i] <= returnCase[r].item[i].expected
        /\ IsFiniteSet(S) /\ S \subseteq Items
    BY <2>0, KeptValues DEF OfProductItems
  <2>2. \A i \in Items : returnCase[r].item[i].expected \in Nat
    BY <2>0, ItemValues
  <2>3. I \in SUBSET Items /\ \A i \in Items \ I : ~ (returnCase[r].item[i].expected > 0)
    BY DEF ItemsIn
  <2>4. \A i \in Items \ I : kept[i] = 0
    BY <2>1, <2>2, <2>3
  <2> HIDE DEF kept, I
  <2>5. Units(PerProduct(kept, I), p) = SumFunctionOnSet(kept, T)
    BY <2>1, <2>3, PerProductValues
  <2>6. T \subseteq S /\ \A i \in S \ T : kept[i] = 0
    BY <2>3, <2>4 DEF OfProductItems, OfProduct
  <2> HIDE DEF S, T
  <2>7. SumFunctionOnSet(kept, S) = SumFunctionOnSet(kept, T)
    BY <2>1, <2>6, SumLeavingOutZeros
  <2>8. Moved(r, p) = SumFunctionOnSet(kept, S)
    BY <1>1 DEF FulfilmentInv, LedgerHasKept, kept, S
  <2> QED
    BY <2>5, <2>7, <2>8 DEF kept, I
<1> QED
  BY Invariance, <1>1, PTL

(* RETURN-003: the row lock on the order keeps concurrent cases from expecting    *)
(* more of an item than was ordered.                                         *)
THEOREM ExpectationsAreBounded == Spec => []ExpectedIsBounded
<1>1. FulfilmentInv => ExpectedIsBounded
  BY DEF FulfilmentInv
<1> QED
  BY Invariance, <1>1, PTL

(* RETURN-006: a case can only close when every unit that its inspection accepted *)
(* has been restocked.                                                       *)
THEOREM ClosedCasesAreSettled == Spec => []ClosedIsSettled
<1>1. ASSUME FulfilmentInv, NEW r \in Returns, returnCase[r].status = "closed",
             NEW i \in Restockable(r)
      PROVE  returnCase[r].item[i].restocked = returnCase[r].item[i].received
  <2>1. i \in Items
    BY DEF Restockable
  <2> QED
    BY <1>1, <2>1 DEF FulfilmentInv, ReturnsAreSound, ItemIsSound
<1>2. FulfilmentInv => ClosedIsSettled
  BY <1>1 DEF ClosedIsSettled
<1> QED
  BY Invariance, <1>2, PTL
----------------------------------------------------------------------------
(* Fulfilment implements OrderCustody. *)

custodyVars == <<TimesOut, CalledOff, BackInStock>>

Carriers(o) == {b \in shipped : o \in batch[b].members}

LEMMA TimesOutIsZero ==
  ASSUME NEW o \in Orders, ~HasLeft(o)
  PROVE  TimesOut[o] = 0
<1>1. Carriers(o) = {}
  BY DEF Carriers, HasLeft
<1>2. TimesOut[o] = Cardinality(Carriers(o))
  BY DEF TimesOut, Carriers
<1> QED
  BY <1>1, <1>2, FS_EmptySet

(* What has left stays in its batch. *)
LEMMA CarriersStay ==
  ASSUME IInv, [Next]_vars, NEW o
  PROVE  {b \in shipped : o \in batch'[b].members} = Carriers(o)
<1>1. \A b \in shipped : batch'[b].members = batch[b].members
  BY ShippedStays
<1> QED
  BY <1>1 DEF Carriers

LEMMA TimesOutStays ==
  ASSUME IInv, [Next]_vars, UNCHANGED shipped
  PROVE  UNCHANGED TimesOut
<1>1. \A o \in Orders : {b \in shipped' : o \in batch'[b].members} = Carriers(o)
  BY CarriersStay
<1> QED
  BY <1>1 DEF TimesOut, Carriers

LEMMA CalledOffStays ==
  ASSUME UNCHANGED cancellation
  PROVE  UNCHANGED CalledOff
BY DEF CalledOff, IsCancelled

LEMMA BackStays ==
  ASSUME \A r \in Returns : KeptStays(r)
  PROVE  UNCHANGED BackInStock
<1>1. \A i \in Items : Back(i)' = Back(i)
  BY DEF Back, KeptStays
<1> QED
  BY <1>1 DEF BackInStock

(* What is back of an item is a sum over the cases, and no more than expected. *)
KeptIn(i) == [r \in Returns |-> Kept(r, i)]

LEMMA BackValues ==
  ASSUME ReturnsType, ReturnsAreSound, ExpectedIsBounded, NEW i \in Items
  PROVE  /\ BackInStock[i] = SumFunctionOnSet(KeptIn(i), Returns)
         /\ \A r \in Returns : KeptIn(i)[r] = Kept(r, i) /\ KeptIn(i)[r] \in Nat
         /\ BackInStock[i] \in 0..OrderItem[i].quantity
<1>1. BackInStock[i] = SumFunctionOnSet(KeptIn(i), Returns)
  BY DEF BackInStock, Back, KeptIn, SumFunction
<1>2. \A r \in Returns : /\ KeptIn(i)[r] = Kept(r, i) /\ KeptIn(i)[r] \in Nat
                         /\ KeptIn(i)[r] <= returnCase[r].item[i].expected
  BY KeptValues DEF KeptIn
<1>3. /\ AlreadyExpected(i) = SumFunctionOnSet(ExpectedOf(i), Returns)
      /\ \A r \in Returns : /\ ExpectedOf(i)[r] = returnCase[r].item[i].expected
                            /\ ExpectedOf(i)[r] \in Nat
      /\ AlreadyExpected(i) \in Nat /\ AlreadyExpected(i) <= OrderItem[i].quantity
  BY ExpectedValues DEF ExpectedIsBounded
<1>4. SumFunctionOnSet(KeptIn(i), Returns) <= SumFunctionOnSet(ExpectedOf(i), Returns)
  <2>1. \A r \in Returns : /\ KeptIn(i)[r] \in Int /\ ExpectedOf(i)[r] \in Int
                           /\ KeptIn(i)[r] <= ExpectedOf(i)[r]
    BY <1>2, <1>3
  <2> QED
    BY <2>1, SumIsMonotone, FulfilmentAssumption
<1>5. SumFunctionOnSet(KeptIn(i), Returns) \in Nat
  BY <1>2, SumIsNat, FulfilmentAssumption
<1>6. OrderItem[i].quantity \in Nat
  BY FulfilmentAssumption
<1> QED
  BY <1>1, <1>2, <1>3, <1>4, <1>5, <1>6

LEMMA InitIsCustody == Init => Custody!Init
<1> SUFFICES ASSUME Init PROVE Custody!Init
  OBVIOUS
<1>1. \A o \in Orders : TimesOut[o] = 0
  BY TimesOutIsZero DEF Init, HasLeft
<1>2. CalledOff = {}
  BY DEF Init, CalledOff, IsCancelled
<1>3. \A i \in Items : BackInStock[i] = 0
  <2> SUFFICES ASSUME NEW i \in Items PROVE BackInStock[i] = 0
    OBVIOUS
  <2>1. FulfilmentInv
    BY InitFulfilmentInv
  <2>2. /\ BackInStock[i] = SumFunctionOnSet(KeptIn(i), Returns)
        /\ \A r \in Returns : KeptIn(i)[r] = Kept(r, i)
    BY <2>1, BackValues DEF FulfilmentInv
  <2>3. \A r \in Returns : Kept(r, i) = 0
    <3>1. \A r \in Returns : returnCase[r].item[i] = Expecting(0)
      BY DEF Init
    <3> QED
      BY <3>1 DEF Kept, Expecting
  <2> QED
    BY <2>2, <2>3, SumOfZeros, FulfilmentAssumption
<1>4. TimesOut = [o \in Orders |-> 0] /\ BackInStock = [i \in Items |-> 0]
  BY <1>1, <1>3 DEF TimesOut, BackInStock
<1> QED
  BY <1>2, <1>4 DEF Custody!Init

(* The outbound of a batch is the one dispatch of its orders. *)
LEMMA OutboundIsDispatch ==
  ASSUME FulfilmentInv, [Next]_vars, NEW c \in Clerks, CommitOutbound(c)
  PROVE  Custody!Next
<1>0. PICK b : b = tx[c].batch
  OBVIOUS
<1> DEFINE S == batch[b].members
<1>1. /\ b \in Batches /\ b \notin shipped /\ shipped' = shipped \cup {b}
      /\ \A o \in S : ~IsCancelled(o)
      /\ UNCHANGED <<batch, cancellation, returnCase>>
  BY <1>0, OutboundMoves DEF FulfilmentInv
<1>2. S \in SUBSET Orders
  BY <1>1 DEF FulfilmentInv, IInv, Types, Batch
<1>3. shipped \subseteq Batches
  BY DEF FulfilmentInv, IInv, Types
<1>4. \A o \in S : ~HasLeft(o)
  BY <1>1, <1>3 DEF FulfilmentInv, MembersAreDisjoint, HasLeft
<1>5. S \cap CalledOff = {}
  BY <1>1 DEF CalledOff
<1>6. \A o \in S : TimesOut[o] = 0
  BY <1>2, <1>4, TimesOutIsZero
<1>7. ASSUME NEW o \in Orders
      PROVE  TimesOut'[o] = IF o \in S THEN 1 ELSE TimesOut[o]
  <2> DEFINE C == {x \in shipped' : o \in batch'[x].members}
  <2>1. TimesOut'[o] = Cardinality(C) /\ TimesOut[o] = Cardinality(Carriers(o))
    BY DEF TimesOut, Carriers
  <2>2. CASE o \in S
    <3>1. C = {b}
      BY <1>1, <1>4, <2>2 DEF HasLeft
    <3> QED
      BY <2>1, <2>2, <3>1, FS_Singleton
  <2>3. CASE o \notin S
    <3>1. C = Carriers(o)
      BY <1>1, <2>3 DEF Carriers
    <3> QED
      BY <2>1, <2>3, <3>1
  <2> QED
    BY <2>2, <2>3
<1>8. TimesOut' = [o \in Orders |-> IF o \in S THEN 1 ELSE TimesOut[o]]
  <2>1. TimesOut' = [o \in Orders |-> TimesOut'[o]]
    BY DEF TimesOut
  <2> QED
    BY <1>7, <2>1
<1>9. UNCHANGED <<CalledOff, BackInStock>>
  <2>1. \A r \in Returns : KeptStays(r)
    BY <1>1 DEF KeptStays, Kept
  <2> QED
    BY <1>1, <2>1, CalledOffStays, BackStays
<1> HIDE DEF S
<1>10. Custody!Dispatch(S)
  BY <1>5, <1>6, <1>8, <1>9 DEF Custody!Dispatch
<1> QED
  BY <1>2, <1>10 DEF Custody!Next

(* A cancellation calls an order off, or records that it has left. *)
LEMMA CancellationIsCallOff ==
  ASSUME FulfilmentInv, [Next]_vars, NEW c \in Clerks, CommitCancellation(c)
  PROVE  Custody!Next \/ UNCHANGED custodyVars
<1>0. PICK o : o = tx[c].order
  OBVIOUS
<1>1. /\ tx[c] # None /\ tx[c].op = "cancel" /\ ~IsCancelled(o)
      /\ cancellation' = [cancellation EXCEPT ![o] = [status |-> "recorded", outbound |->
           IF tx[c].left THEN "outbound_confirmed" ELSE "not_outbound"]]
      /\ UNCHANGED <<stockVars, batch, shipped, returnCase>>
  BY <1>0 DEF CommitCancellation, Committing
<1>2. o \in Orders
  BY <1>0, <1>1, TransactionKinds DEF FulfilmentInv, IInv, Types, CancelTx
<1>3. tx[c].left <=> HasLeft(o)
  BY <1>0, <1>1 DEF FulfilmentInv, IInv, ReadsHold, OrderReadHolds
<1>4. UNCHANGED <<TimesOut, BackInStock>>
  <2>1. \A r \in Returns : KeptStays(r)
    BY <1>1 DEF KeptStays, Kept
  <2> QED
    BY <1>1, <2>1, TimesOutStays, BackStays DEF FulfilmentInv
<1>5. /\ cancellation'[o] = [status |-> "recorded", outbound |->
           IF tx[c].left THEN "outbound_confirmed" ELSE "not_outbound"]
      /\ \A x \in Orders \ {o} : cancellation'[x] = cancellation[x]
  BY <1>1, <1>2 DEF FulfilmentInv, IInv, Types
<1>6. cancellation'[o].status = "recorded"
  BY <1>5
<1>7. o \notin CalledOff
  BY <1>1 DEF CalledOff
<1>8. CASE HasLeft(o)
  <2>1. cancellation'[o].outbound = "outbound_confirmed"
    BY <1>3, <1>5, <1>8
  <2>2. UNCHANGED CalledOff
    BY <1>5, <1>7, <2>1 DEF CalledOff, IsCancelled
  <2> QED
    BY <1>4, <2>2 DEF custodyVars
<1>9. CASE ~HasLeft(o)
  <2>1. cancellation'[o].outbound = "not_outbound"
    BY <1>3, <1>5, <1>9
  <2>2. CalledOff' = CalledOff \cup {o}
    BY <1>2, <1>5, <1>6, <2>1 DEF CalledOff, IsCancelled
  <2>3. TimesOut[o] = 0
    BY <1>2, <1>9, TimesOutIsZero
  <2>4. Custody!CallOff(o)
    BY <1>4, <1>7, <2>2, <2>3 DEF Custody!CallOff
  <2> QED
    BY <1>2, <2>4 DEF Custody!Next
<1> QED
  BY <1>8, <1>9

BackIsBounded ==
  \A i \in Items : /\ BackInStock[i] \in 0..OrderItem[i].quantity
                   /\ \A r \in Returns : Kept(r, i) \in Nat

LEMMA BackBounded == FulfilmentInv => BackIsBounded
BY BackValues, KeptValues DEF FulfilmentInv, BackIsBounded

LEMMA BackBoundedNext == FulfilmentInv' => BackIsBounded'
BY BackBounded, PTL

(* A command about one case changes what is back by what the case keeps. *)
LEMMA BackMoves ==
  ASSUME FulfilmentInv, FulfilmentInv', NEW r \in Returns, ReturnEffect(r), NEW i \in Items
  PROVE  /\ BackInStock[i] \in Int /\ Kept(r, i) \in Int /\ Kept(r, i)' \in Int
         /\ BackInStock'[i] \in 0..OrderItem[i].quantity
         /\ BackInStock'[i] = BackInStock[i] + Kept(r, i)' - Kept(r, i)
<1> DEFINE before == KeptIn(i)
           after == [x \in Returns |-> Kept(x, i)']
<1>1. /\ BackInStock[i] = SumFunctionOnSet(before, Returns)
      /\ \A x \in Returns : before[x] = Kept(x, i) /\ before[x] \in Int
      /\ BackInStock[i] \in 0..OrderItem[i].quantity
  BY BackValues DEF FulfilmentInv
<1>2. /\ BackInStock'[i] \in 0..OrderItem[i].quantity
      /\ \A x \in Returns : Kept(x, i)' \in Nat
  BY BackBoundedNext DEF BackIsBounded
<1>3. /\ BackInStock'[i] = SumFunctionOnSet(after, Returns)
      /\ \A x \in Returns : after[x] = Kept(x, i)' /\ after[x] \in Int
  BY <1>2 DEF BackInStock, Back, SumFunction
<1>4. \A x \in Returns : x # r => after[x] = before[x]
  <2>1. \A x \in Returns : x # r => Kept(x, i)' = Kept(x, i)
    BY DEF ReturnEffect, Kept
  <2> QED
    BY <1>1, <1>3, <2>1
<1> HIDE DEF before, after
<1>5. SumFunctionOnSet(after, Returns) = SumFunctionOnSet(before, Returns) + after[r] - before[r]
  BY <1>1, <1>3, <1>4, SumChange, FulfilmentAssumption
<1>6. OrderItem[i].quantity \in Nat
  BY FulfilmentAssumption
<1> QED
  BY <1>1, <1>2, <1>3, <1>5, <1>6

LEMMA ReturnIsRestock ==
  ASSUME FulfilmentInv, FulfilmentInv', [Next]_vars, NEW r \in Returns, ReturnEffect(r),
         \/ \A i \in Items : Kept(r, i)' >= Kept(r, i)
         \/ \A i \in Items : Kept(r, i)' <= Kept(r, i)
  PROVE  Custody!Next
<1>0. PICK o : o = returnCase[r].order
  OBVIOUS
<1>1. o \in Orders
  BY <1>0 DEF FulfilmentInv, ReturnsAreSound, ReturnEffect
<1>2. \A i \in Items : /\ BackInStock[i] \in Int /\ Kept(r, i) \in Int /\ Kept(r, i)' \in Int
                       /\ BackInStock'[i] \in 0..OrderItem[i].quantity
                       /\ BackInStock'[i] = BackInStock[i] + Kept(r, i)' - Kept(r, i)
  BY BackMoves
<1>3. ASSUME NEW i \in Items, OrderItem[i].order # o
      PROVE  BackInStock'[i] = BackInStock[i]
  <2>1. returnCase[r].item[i].expected = 0 /\ returnCase'[r].item[i].expected = 0
    <3>1. returnCase[r].item[i].expected \in Nat
      BY ItemValues DEF FulfilmentInv
    <3>2. ~ (returnCase[r].item[i].expected > 0)
      BY <1>0, <1>3 DEF FulfilmentInv, ReturnsAreSound, ItemIsSound
    <3> QED
      BY <3>1, <3>2 DEF ReturnEffect
  <2>2. Kept(r, i) <= 0 /\ Kept(r, i) \in Nat
    BY <2>1, KeptValues DEF FulfilmentInv
  <2>3. Kept(r, i)' <= 0
    <3> DEFINE x == returnCase'[r].item[i]
    <3>1. /\ x.corrected <= x.restocked /\ x.restocked <= x.received /\ x.received <= 0
      BY <2>1 DEF ReturnEffect, ItemIsSound
    <3>2. /\ x.restocked \in Int /\ x.received \in Int /\ x.corrected \in Nat
      BY DEF FulfilmentInv, ReturnsType, ReturnCase, ReturnItem
    <3>3. Kept(r, i)' = x.restocked - x.corrected
      BY DEF Kept
    <3> HIDE DEF x
    <3> QED
      BY <3>1, <3>2, <3>3
  <2>4. Kept(r, i)' \in Nat
    BY BackBoundedNext DEF BackIsBounded
  <2>5. Kept(r, i) = 0 /\ Kept(r, i)' = 0
    BY <2>2, <2>3, <2>4
  <2> QED
    BY <1>2, <2>5
<1>4. \/ \A i \in Items : BackInStock'[i] >= BackInStock[i]
      \/ \A i \in Items : BackInStock'[i] <= BackInStock[i]
  <2>1. CASE \A i \in Items : Kept(r, i)' >= Kept(r, i)
    BY <1>2, <2>1
  <2>2. CASE \A i \in Items : Kept(r, i)' <= Kept(r, i)
    BY <1>2, <2>2
  <2> QED
    BY <2>1, <2>2
<1>5. UNCHANGED <<TimesOut, CalledOff>>
  BY TimesOutStays, CalledOffStays DEF FulfilmentInv, ReturnEffect
<1>6. Custody!Restock(o)
  BY <1>2, <1>3, <1>4, <1>5 DEF Custody!Restock
<1> QED
  BY <1>1, <1>6 DEF Custody!Next

(* What the batches, the cancellations and the returns promise together: whatever *)
(* overlaps, an order's goods leave once or never, never after it was called off, *)
(* and no more of an item is in stock again than was ordered.                  *)
THEOREM CustodyRefinement == Spec => ImplementsCustody
<1>1. FulfilmentInv /\ FulfilmentInv' /\ [Next]_vars => [Custody!Next]_custodyVars
  <2> SUFFICES ASSUME FulfilmentInv, FulfilmentInv', [Next]_vars
               PROVE  Custody!Next \/ UNCHANGED custodyVars
    OBVIOUS
  <2>1. CASE UNCHANGED <<shipped, cancellation, returnCase>>
    <3>1. \A r \in Returns : KeptStays(r)
      BY <2>1 DEF KeptStays, Kept
    <3> QED
      BY <2>1, <3>1, TimesOutStays, CalledOffStays, BackStays DEF FulfilmentInv, custodyVars
  <2>2. ASSUME NEW c \in Clerks, CommitReturn(c) PROVE UNCHANGED custodyVars
    <3>1. UNCHANGED <<shipped, cancellation>>
      BY <2>2 DEF CommitReturn
    <3>2. \A r \in Returns : KeptStays(r)
      <4>1. ASSUME NEW x \in Returns PROVE KeptStays(x)
        <5>1. PICK r, q : r = tx[c].return /\ q = tx[c].quantity
          OBVIOUS
        <5>2. /\ \A y \in Returns \ {r} : returnCase'[y] = returnCase[y]
              /\ \A i \in Items : Kept(r, i) = 0 /\ Kept(r, i)' = 0
          BY <2>2, <5>1, CommitReturnEffect
        <5> QED
          BY <5>2 DEF KeptStays, Kept
      <4> QED
        BY <4>1
    <3> QED
      BY <3>1, <3>2, TimesOutStays, CalledOffStays, BackStays DEF FulfilmentInv, custodyVars
  <2>3. ASSUME NEW o \in Orders, CloseCancellation(o) PROVE UNCHANGED custodyVars
    <3>1. /\ UNCHANGED <<shipped, returnCase>> /\ IsCancelled(o)
          /\ cancellation' = [cancellation EXCEPT ![o].status = "closed"]
      BY <2>3 DEF CloseCancellation, IsCancelled
    <3>2. /\ cancellation'[o].status = "closed"
          /\ cancellation'[o].outbound = cancellation[o].outbound
          /\ \A x \in Orders \ {o} : cancellation'[x] = cancellation[x]
      BY <3>1 DEF FulfilmentInv, IInv, Types, Cancellation
    <3>3. UNCHANGED CalledOff
      BY <3>1, <3>2 DEF CalledOff, IsCancelled
    <3>4. \A r \in Returns : KeptStays(r)
      BY <3>1 DEF KeptStays, Kept
    <3> QED
      BY <3>1, <3>3, <3>4, TimesOutStays, BackStays DEF FulfilmentInv, custodyVars
  <2>4. ASSUME NEW r \in Returns, ReturnCommand(r)
        PROVE  Custody!Next \/ UNCHANGED custodyVars
    <3>1. ReturnEffect(r)
      BY <2>4, EveryReturnCommand DEF FulfilmentInv
    <3>2. CASE KeptStays(r)
      <4>1. \A i \in Items : Kept(r, i)' >= Kept(r, i)
        BY <3>2, BackMoves, <3>1 DEF KeptStays
      <4> QED
        BY <3>1, <4>1, ReturnIsRestock
    <3>3. CASE RestockReturn(r)
      <4>1. \A i \in Items : Kept(r, i) = 0
        BY <3>3, RestockEffect DEF FulfilmentInv
      <4>2. \A i \in Items : Kept(r, i)' \in Nat
        BY BackBoundedNext DEF BackIsBounded
      <4>3. \A i \in Items : Kept(r, i)' >= Kept(r, i)
        BY <4>1, <4>2
      <4> QED
        BY <3>1, <4>3, ReturnIsRestock
    <3>4. ASSUME NEW q \in [Items -> Nat], CorrectRestock(r, q) PROVE Custody!Next
      <4>1. \A i \in Items : Kept(r, i)' = Kept(r, i) - q[i]
        BY <3>4, CorrectEffect DEF FulfilmentInv
      <4>2. \A i \in Items : Kept(r, i)' <= Kept(r, i)
        BY <3>1, <4>1, BackMoves
      <4> QED
        BY <3>1, <4>2, ReturnIsRestock
    <3> QED
      BY <2>4, <3>2, <3>3, <3>4, EveryReturnCommand DEF FulfilmentInv
  <2> QED
    BY <2>1, <2>2, <2>3, <2>4, OutboundIsDispatch, CancellationIsCallOff, FulfilmentCases
       DEF CommitCreate, CommitReady, CancelBatch, fulfilmentVars
<1> QED
  BY Invariance, InitIsCustody, <1>1, PTL
     DEF Spec, ImplementsCustody, Custody!Spec, custodyVars
=============================================================================
