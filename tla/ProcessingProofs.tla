-------------------------- MODULE ProcessingProofs --------------------------
(***************************************************************************)
(* The processing of order files, for any files, uploads, processes and      *)
(* workers: one authoritative order per identifier, the orders of a job are   *)
(* those of one execution, a stale process finishes nothing, and what is      *)
(* accepted is stored.                                                      *)
(***************************************************************************)
EXTENDS Processing, TLAPS

(* None is nothing else. *)
NoneIsNew == None \notin Request /\ None \notin Work

(* A worker whose transaction is open has its job under its lease, and has stored  *)
(* the first labels of the file.                                              *)
StoringOwns ==
  \A w \in Workers : At(w, "storing") =>
    /\ status[work[w].file] = "processing" /\ holder[work[w].file] = ServerOf[w]
    /\ Len(work[w].result) <= Len(Labels[work[w].file])
    /\ \A n \in DOMAIN work[w].result :
         work[w].result[n].ids = Labels[work[w].file][n].ids

(* Two workers do not store the same file, nor the same identifier. *)
StoringApart ==
  \A v, w \in Workers : At(v, "storing") /\ At(w, "storing") /\ v # w =>
    /\ work[v].file # work[w].file
    /\ LockedIds(v) \cap LockedIds(w) = {}

(* What a transaction has stored as authoritative is so among its own orders and   *)
(* the committed ones.                                                        *)
ResultIsNew ==
  \A w \in Workers : At(w, "storing") =>
    \A n \in Authoritative(work[w].result) :
      /\ \A m \in Authoritative(work[w].result) :
           n # m => work[w].result[n].ids \cap work[w].result[m].ids = {}
      /\ \A f \in Files : \A m \in Authoritative(orders[f]) :
           work[w].result[n].ids \cap orders[f][m].ids = {}

(* The file of an upload that goes on is there. *)
PendingIsStored == \A r \in Requests : RequestAt(r, "stored") => r \in objects

IInv == /\ TypeOK
        /\ StoringOwns /\ StoringApart /\ ResultIsNew
        /\ OneAuthoritativeOrder /\ OrdersAreOfOneExecution
        /\ PendingIsStored /\ AcceptedIsStored

LEMMA InitIInv == ASSUME Init PROVE IInv
  <1>1. TypeOK
    BY ProcessingAssumption DEF Init, TypeOK, Status
  <1>2. StoringOwns /\ StoringApart /\ ResultIsNew
    BY DEF Init, StoringOwns, StoringApart, ResultIsNew, At
  <1>3. OneAuthoritativeOrder /\ OrdersAreOfOneExecution
    BY DEF Init, OneAuthoritativeOrder, OrdersAreOfOneExecution
  <1>4. PendingIsStored /\ AcceptedIsStored
    BY DEF Init, PendingIsStored, AcceptedIsStored, RequestAt
  <1> QED BY <1>1, <1>2, <1>3, <1>4 DEF IInv

(* Transactions are as they were, or are over. *)
LEMMA TransactionsEnd ==
  ASSUME IInv, UNCHANGED <<status, holder, orders>>,
         \A w \in Workers : work'[w] = work[w] \/ ~At(w, "storing")'
  PROVE  /\ StoringOwns' /\ StoringApart' /\ ResultIsNew'
         /\ OneAuthoritativeOrder' /\ OrdersAreOfOneExecution'
  <1>1. \A w \in Workers : At(w, "storing")' => work'[w] = work[w] /\ At(w, "storing")
    BY DEF At
  <1>2. StoringOwns'
    BY <1>1 DEF IInv, StoringOwns
  <1>3. \A w \in Workers : At(w, "storing")' => LockedIds(w)' = LockedIds(w)
    BY <1>1 DEF LockedIds, Identify
  <1>4. StoringApart'
    BY <1>1, <1>3 DEF IInv, StoringApart
  <1>5. ResultIsNew'
    BY <1>1 DEF IInv, ResultIsNew, Authoritative
  <1>6. OneAuthoritativeOrder' /\ OrdersAreOfOneExecution'
    BY DEF IInv, OneAuthoritativeOrder, OrdersAreOfOneExecution
  <1> QED BY <1>2, <1>4, <1>5, <1>6

(* Uploads that nobody touches, of jobs that stay. *)
LEMMA UploadsStay ==
  ASSUME IInv, UNCHANGED uploadVars, \A f \in Files : status[f] # "none" => status'[f] # "none"
  PROVE  PendingIsStored' /\ AcceptedIsStored'
  <1>1. \A r \in Requests, step \in {"stored", "accepted"} : RequestAt(r, step)' = RequestAt(r, step)
    BY DEF RequestAt, uploadVars
  <1>2. \A r \in Requests : RequestAt(r, "accepted") => request[r].file \in Files
    BY DEF IInv, TypeOK, RequestAt, Request
  <1> QED BY <1>1, <1>2 DEF IInv, PendingIsStored, AcceptedIsStored, uploadVars

(* A worker or a lease gives up, or an order is used. *)
LEMMA QuietIInv ==
  ASSUME IInv, UNCHANGED <<status, holder, orders>>, UNCHANGED uploadVars,
         live' \in [Files -> BOOLEAN], used' \in SUBSET Files, up' \in SUBSET Servers,
         work' \in [Workers -> Work \cup {None}],
         \A w \in Workers : work'[w] = work[w] \/ ~At(w, "storing")'
  PROVE  IInv'
  <1>1. TypeOK'
    BY DEF IInv, TypeOK, uploadVars
  <1> QED BY <1>1, TransactionsEnd, UploadsStay DEF IInv

(* The step of a worker, which forgets its result. *)
LEMMA TurnOf ==
  ASSUME NoneIsNew, IInv, NEW w \in Workers, work[w] # None,
         NEW step \in {"claimed", "storing", "failing"}, Turn(w, step)
  PROVE  /\ work' \in [Workers -> Work \cup {None}]
         /\ \A v \in Workers : v # w => work'[v] = work[v]
         /\ work'[w].file = work[w].file /\ work'[w].step = step /\ work'[w].result = << >>
         /\ work'[w] # None
  <1> DEFINE new == [work[w] EXCEPT !.step = step, !.result = << >>]
  <1>1. work \in [Workers -> Work \cup {None}] /\ work[w] \in Work
    BY DEF IInv, TypeOK
  <1>2. work' = [work EXCEPT ![w] = new]
    BY DEF Turn
  <1>3. new.file = work[w].file /\ new.step = step /\ new.result = << >>
    BY <1>1 DEF Work
  <1>4. new \in Work
    <2>1. << >> \in Seq(Order)
      OBVIOUS
    <2> DEFINE none == << >>
    <2> HIDE DEF none
    <2>2. none \in Seq(Order) /\ none = << >>
      BY <2>1 DEF none
    <2>3. [work[w] EXCEPT !.step = step, !.result = none] \in Work
      BY <1>1, <2>2 DEF Work
    <2> QED BY <2>2, <2>3
  <1> HIDE DEF new
  <1> QED BY <1>1, <1>2, <1>3, <1>4 DEF NoneIsNew

LEMMA QuietSteps ==
  ASSUME NoneIsNew, IInv,
         \/ \E w \in Workers : ReadFails(w) \/ FailExecution(w) \/ LoseLease(w) \/ Forget(w)
         \/ \E f \in Files : Expire(f) \/ Use(f)
         \/ \E s \in Servers : Crash(s)
         \/ UNCHANGED vars
  PROVE  IInv'
  <1>1. /\ live \in [Files -> BOOLEAN] /\ used \in SUBSET Files /\ up \in SUBSET Servers
        /\ work \in [Workers -> Work \cup {None}]
    BY DEF IInv, TypeOK
  <1>2. ASSUME NEW w \in Workers, ReadFails(w) \/ FailExecution(w) PROVE IInv'
    <2>1. /\ work[w] # None /\ Turn(w, "failing") /\ UNCHANGED <<status, holder, live, orders, used, up>>
          /\ UNCHANGED uploadVars
      BY <1>2 DEF ReadFails, FailExecution, At, jobVars
    <2>2. /\ work' \in [Workers -> Work \cup {None}]
          /\ \A v \in Workers : v # w => work'[v] = work[v]
          /\ work'[w].step = "failing"
      BY <2>1, TurnOf
    <2>3. \A v \in Workers : work'[v] = work[v] \/ ~At(v, "storing")'
      BY <2>2 DEF At
    <2> QED BY <1>1, <2>1, <2>2, <2>3, QuietIInv
  <1>3. ASSUME NEW w \in Workers, LoseLease(w) \/ Forget(w) PROVE IInv'
    <2>1. /\ work' = [work EXCEPT ![w] = None] /\ UNCHANGED <<status, holder, live, orders, used, up>>
          /\ UNCHANGED uploadVars
      BY <1>3 DEF LoseLease, Forget, jobVars
    <2>2. work' \in [Workers -> Work \cup {None}] /\ \A v \in Workers : work'[v] = work[v] \/ work'[v] = None
      BY <1>1, <2>1
    <2>3. \A v \in Workers : work'[v] = work[v] \/ ~At(v, "storing")'
      BY <2>2 DEF At
    <2> QED BY <1>1, <2>1, <2>2, <2>3, QuietIInv
  <1>4. ASSUME NEW f \in Files, Expire(f) \/ Use(f) PROVE IInv'
    <2>1. /\ UNCHANGED <<status, holder, orders, up, work>> /\ UNCHANGED uploadVars
          /\ live' \in [Files -> BOOLEAN] /\ used' \in SUBSET Files
      BY <1>1, <1>4 DEF Expire, Use, jobVars
    <2> QED BY <1>1, <2>1, QuietIInv
  <1>5. ASSUME NEW s \in Servers, Crash(s) PROVE IInv'
    <2>1. /\ work' = [w \in Workers |-> IF ServerOf[w] = s THEN None ELSE work[w]]
          /\ UNCHANGED <<status, holder, live, orders, used>> /\ UNCHANGED uploadVars
          /\ up' \in SUBSET Servers
      BY <1>1, <1>5 DEF Crash, jobVars
    <2>2. work' \in [Workers -> Work \cup {None}] /\ \A v \in Workers : work'[v] = work[v] \/ work'[v] = None
      BY <1>1, <2>1
    <2>3. \A v \in Workers : work'[v] = work[v] \/ ~At(v, "storing")'
      BY <2>2 DEF At
    <2> QED BY <1>1, <2>1, <2>2, <2>3, QuietIInv
  <1>6. ASSUME UNCHANGED vars PROVE IInv'
    <2>1. UNCHANGED <<status, holder, live, orders, used, up, work>> /\ UNCHANGED uploadVars
      BY <1>6 DEF vars, jobVars
    <2> QED BY <1>1, <2>1, QuietIInv
  <1> QED BY <1>2, <1>3, <1>4, <1>5, <1>6

(* A job that no transaction has locked changes hands, or fails, or is queued      *)
(* again: it has no orders.                                                  *)
LEMMA JobMoves ==
  ASSUME NoneIsNew, IInv, NEW f \in Files, ~Locked(f), status[f] # "none",
         NEW value \in {"queued", "processing", "failed"}, NEW server \in Servers \cup {None},
         status' = [status EXCEPT ![f] = value], holder' = [holder EXCEPT ![f] = server],
         live' \in [Files -> BOOLEAN],
         orders' = [orders EXCEPT ![f] = << >>],
         UNCHANGED <<used, up>>, UNCHANGED uploadVars,
         work' \in [Workers -> Work \cup {None}],
         \A w \in Workers : work'[w] = work[w] \/ ~At(w, "storing")'
  PROVE  IInv'
  <1>1. /\ TypeOK /\ StoringOwns /\ StoringApart /\ ResultIsNew
        /\ OneAuthoritativeOrder /\ OrdersAreOfOneExecution
    BY DEF IInv
  <1>2. /\ status \in [Files -> Status] /\ holder \in [Files -> Servers \cup {None}]
        /\ orders \in [Files -> Seq(Order)]
    BY <1>1 DEF TypeOK
  <1>3. /\ status'[f] = value /\ orders'[f] = << >>
        /\ \A g \in Files : g # f => /\ status'[g] = status[g] /\ holder'[g] = holder[g]
                                     /\ orders'[g] = orders[g]
    BY <1>2
  <1>4. TypeOK'
    <2>1. status' \in [Files -> Status] /\ holder' \in [Files -> Servers \cup {None}]
      BY <1>2 DEF Status, Finished
    <2>2. orders' \in [Files -> Seq(Order)]
      BY <1>2
    <2> QED BY <1>1, <2>1, <2>2 DEF TypeOK, uploadVars
  <1>5. \A w \in Workers : At(w, "storing")' =>
          work'[w] = work[w] /\ At(w, "storing") /\ work[w].file # f /\ work[w].file \in Files
    BY <1>1 DEF At, Locked, TypeOK, Work
  <1>6. StoringOwns'
    BY <1>1, <1>3, <1>5 DEF StoringOwns
  <1>7. \A w \in Workers : At(w, "storing")' => LockedIds(w)' = LockedIds(w)
    BY <1>5 DEF LockedIds, Identify
  <1>8. StoringApart'
    BY <1>1, <1>5, <1>7 DEF StoringApart
  <1>9. \A g \in Files : Authoritative(orders'[g]) =
          IF g = f THEN {} ELSE Authoritative(orders[g])
    BY <1>3 DEF Authoritative
  <1>10. ResultIsNew'
    BY <1>1, <1>3, <1>5, <1>9 DEF ResultIsNew, Authoritative
  <1>11. OneAuthoritativeOrder'
    BY <1>1, <1>3 DEF OneAuthoritativeOrder
  <1>12. OrdersAreOfOneExecution'
    <2> SUFFICES ASSUME NEW g \in Files
                 PROVE  IF status'[g] \in {"processed", "needs_review"}
                        THEN /\ Len(orders'[g]) = Len(Labels[g])
                             /\ \A n \in DOMAIN orders'[g] : orders'[g][n].ids = Labels[g][n].ids
                             /\ status'[g] = "processed" <=>
                                  \A n \in DOMAIN orders'[g] : orders'[g][n].status = "resolved"
                        ELSE orders'[g] = << >>
      BY DEF OrdersAreOfOneExecution
    <2>1. CASE g = f
      BY <2>1, <1>3
    <2>2. CASE g # f
      BY <2>2, <1>1, <1>3 DEF OrdersAreOfOneExecution
    <2> QED BY <2>1, <2>2
  <1>13. PendingIsStored' /\ AcceptedIsStored'
    <2>1. \A g \in Files : status[g] # "none" => status'[g] # "none"
      BY <1>3
    <2> QED BY <2>1, UploadsStay
  <1> QED BY <1>4, <1>6, <1>8, <1>10, <1>11, <1>12, <1>13 DEF IInv

LEMMA ClaimIInv ==
  ASSUME NoneIsNew, IInv, NEW w \in Workers, NEW f \in Files, Claim(w, f) \/ ClaimUnanswered(w, f)
  PROVE  IInv'
  <1> DEFINE new == [file |-> f, step |-> "claimed", result |-> << >>]
  <1>1. /\ ~Locked(f) /\ status[f] \in {"queued", "processing"}
        /\ status' = [status EXCEPT ![f] = "processing"]
        /\ holder' = [holder EXCEPT ![f] = ServerOf[w]]
        /\ live' = [live EXCEPT ![f] = TRUE]
        /\ work' = [work EXCEPT ![w] = new] \/ work' = work
        /\ UNCHANGED <<orders, used, up>> /\ UNCHANGED uploadVars
    BY DEF Claim, ClaimUnanswered, CanClaim, Claimable
  <1>2. /\ work \in [Workers -> Work \cup {None}] /\ live \in [Files -> BOOLEAN]
        /\ orders \in [Files -> Seq(Order)] /\ OrdersAreOfOneExecution
    BY DEF IInv, TypeOK
  <1>3. orders' = [orders EXCEPT ![f] = << >>]
    BY <1>1, <1>2 DEF OrdersAreOfOneExecution
  <1>4. new \in Work
    <2>1. << >> \in Seq(Order)
      OBVIOUS
    <2> QED BY <2>1 DEF Work
  <1>5. work' \in [Workers -> Work \cup {None}]
    BY <1>1, <1>2, <1>4
  <1>6. \A v \in Workers : work'[v] = work[v] \/ work'[v].step = "claimed"
    BY <1>1, <1>2
  <1>7. \A v \in Workers : work'[v] = work[v] \/ ~At(v, "storing")'
    BY <1>6 DEF At
  <1>8. ServerOf[w] \in Servers /\ live' \in [Files -> BOOLEAN]
    BY <1>1, <1>2, ProcessingAssumption
  <1> QED BY <1>1, <1>3, <1>5, <1>7, <1>8, JobMoves

LEMMA FailJobIInv ==
  ASSUME NoneIsNew, IInv, NEW w \in Workers, FailJob(w)
  PROVE  IInv'
  <1> DEFINE f == work[w].file
  <1>1. /\ ~Locked(f) /\ status[f] = "processing" /\ work[w] # None
        /\ status' = [status EXCEPT ![f] = "failed"]
        /\ holder' = [holder EXCEPT ![f] = None]
        /\ live' = [live EXCEPT ![f] = FALSE]
        /\ work' = [work EXCEPT ![w] = None]
        /\ UNCHANGED <<orders, used, up>> /\ UNCHANGED uploadVars
    BY DEF FailJob, Owns, At
  <1>2. /\ work \in [Workers -> Work \cup {None}] /\ live \in [Files -> BOOLEAN]
        /\ orders \in [Files -> Seq(Order)] /\ OrdersAreOfOneExecution
    BY DEF IInv, TypeOK
  <1>3. f \in Files
    BY <1>1, <1>2 DEF Work
  <1> HIDE DEF f
  <1>4. orders' = [orders EXCEPT ![f] = << >>]
    BY <1>1, <1>2, <1>3 DEF OrdersAreOfOneExecution
  <1>5. /\ work' \in [Workers -> Work \cup {None}] /\ live' \in [Files -> BOOLEAN]
        /\ \A v \in Workers : work'[v] = work[v] \/ work'[v] = None
    BY <1>1, <1>2
  <1>6. \A v \in Workers : work'[v] = work[v] \/ ~At(v, "storing")'
    BY <1>5 DEF At
  <1> QED BY <1>1, <1>3, <1>4, <1>5, <1>6, JobMoves

(* A finished job is not locked: what is locked is processing. *)
LEMMA RetryIInv ==
  ASSUME NoneIsNew, IInv, NEW f \in Files, Retry(f)
  PROVE  IInv'
  <1>1. /\ status[f] \in Finished /\ status' = [status EXCEPT ![f] = "queued"]
        /\ orders' = [orders EXCEPT ![f] = << >>]
        /\ UNCHANGED <<holder, live, used, up, work>> /\ UNCHANGED uploadVars
    BY DEF Retry
  <1>2. /\ holder \in [Files -> Servers \cup {None}] /\ live \in [Files -> BOOLEAN]
        /\ work \in [Workers -> Work \cup {None}] /\ StoringOwns
    BY DEF IInv, TypeOK
  <1>3. ~Locked(f)
    BY <1>1, <1>2 DEF Locked, StoringOwns, Finished
  <1>4. holder' = [holder EXCEPT ![f] = holder[f]] /\ holder[f] \in Servers \cup {None}
    BY <1>1, <1>2
  <1>5. status[f] # "none"
    BY <1>1 DEF Finished
  <1> QED BY <1>1, <1>2, <1>3, <1>4, <1>5, JobMoves

----------------------------------------------------------------------------
(* The transaction of a worker. *)

LEMMA BeginStoreIInv ==
  ASSUME NoneIsNew, IInv, NEW w \in Workers, BeginStore(w)
  PROVE  IInv'
  <1>1. /\ TypeOK /\ StoringOwns /\ StoringApart /\ ResultIsNew
        /\ OneAuthoritativeOrder /\ OrdersAreOfOneExecution
    BY DEF IInv
  <1>2. /\ work[w] # None /\ ~Locked(work[w].file) /\ Turn(w, "storing")
        /\ status[work[w].file] = "processing" /\ holder[work[w].file] = ServerOf[w]
        /\ UNCHANGED <<status, holder, live, orders, used, up>> /\ UNCHANGED uploadVars
    BY DEF BeginStore, At, Owns, jobVars
  <1>3. /\ work' \in [Workers -> Work \cup {None}]
        /\ \A v \in Workers : v # w => work'[v] = work[v]
        /\ work'[w] # None /\ work'[w].step = "storing"
    BY <1>2, TurnOf
  <1>4. work'[w].file = work[w].file /\ work'[w].result = << >>
    BY <1>2, TurnOf
  <1>5. \A v \in Workers : v # w /\ At(v, "storing")' =>
          At(v, "storing") /\ work'[v] = work[v] /\ work[v].file # work[w].file
    BY <1>2, <1>3 DEF At, Locked
  <1>6. work[w].file \in Files
    BY <1>1, <1>2 DEF TypeOK, Work
  <1>7. StoringOwns'
    <2> SUFFICES ASSUME NEW v \in Workers, At(v, "storing")'
                 PROVE  /\ status[work'[v].file] = "processing" /\ holder[work'[v].file] = ServerOf[v]
                        /\ Len(work'[v].result) <= Len(Labels[work'[v].file])
                        /\ \A n \in DOMAIN work'[v].result :
                             work'[v].result[n].ids = Labels[work'[v].file][n].ids
      BY <1>2 DEF StoringOwns
    <2>1. CASE v = w
      <3>1. Labels[work[w].file] \in Seq([ids : SUBSET Identifiers,
                               outcome : (SUBSET {"resolved", "needs_review"}) \ {{}}])
        BY <1>6, ProcessingAssumption
      <3>2. Len(Labels[work[w].file]) \in Nat
        BY <3>1
      <3> QED BY <2>1, <3>2, <1>2, <1>4
    <2>2. CASE v # w
      BY <2>2, <1>1, <1>5 DEF StoringOwns
    <2> QED BY <2>1, <2>2
  <1>8. LockedIds(w)' = {} /\ \A v \in Workers : v # w => LockedIds(v)' = LockedIds(v)
    <2>1. LockedIds(w)' = {}
      BY <1>4 DEF LockedIds, Identify
    <2>2. \A v \in Workers : v # w => At(v, "storing")' = At(v, "storing")
      BY <1>3 DEF At
    <2> QED BY <2>1, <2>2, <1>3 DEF LockedIds, Identify
  <1>9. StoringApart'
    BY <1>1, <1>4, <1>5, <1>8 DEF StoringApart
  <1>10. ResultIsNew'
    <2> SUFFICES ASSUME NEW v \in Workers, At(v, "storing")', NEW n \in Authoritative(work'[v].result)
                 PROVE  /\ \A m \in Authoritative(work'[v].result) :
                             n # m => work'[v].result[n].ids \cap work'[v].result[m].ids = {}
                        /\ \A f \in Files : \A m \in Authoritative(orders[f]) :
                             work'[v].result[n].ids \cap orders[f][m].ids = {}
      BY <1>2 DEF ResultIsNew, Authoritative
    <2>1. v # w
      BY <1>4 DEF Authoritative
    <2> QED BY <2>1, <1>1, <1>5 DEF ResultIsNew
  <1>11. OneAuthoritativeOrder' /\ OrdersAreOfOneExecution'
    BY <1>1, <1>2 DEF OneAuthoritativeOrder, OrdersAreOfOneExecution
  <1>12. TypeOK'
    BY <1>1, <1>2, <1>3 DEF TypeOK, uploadVars
  <1> QED BY <1>2, <1>7, <1>9, <1>10, <1>11, <1>12, UploadsStay DEF IInv

(* One more label: what it adds is neither locked by anybody nor stored, or is a    *)
(* duplicate.                                                                *)
LEMMA StoreLabelIInv ==
  ASSUME NoneIsNew, IInv, NEW w \in Workers, StoreLabel(w)
  PROVE  IInv'
  <1> DEFINE f == work[w].file
             old == work[w].result
             label == NextLabel(w)
  <1>1. /\ TypeOK /\ StoringOwns /\ StoringApart /\ ResultIsNew
        /\ OneAuthoritativeOrder /\ OrdersAreOfOneExecution
    BY DEF IInv
  <1>2. /\ work[w] # None /\ work[w].step = "storing" /\ At(w, "storing")
        /\ Len(old) < Len(Labels[f])
        /\ \A v \in Workers \ {w} : LockedIds(v) \cap label.ids = {}
        /\ UNCHANGED <<status, holder, live, orders, used, up>> /\ UNCHANGED uploadVars
    BY DEF StoreLabel, HasMoreLabels, Blocked, At, jobVars
  <1>3. PICK s \in IF IsDuplicate(w, label.ids) THEN {"duplicate"} ELSE label.outcome :
          work' = [work EXCEPT ![w].result = Append(old, [ids |-> label.ids, status |-> s])]
    BY DEF StoreLabel, InsertOrder
  <1> DEFINE row == [ids |-> label.ids, status |-> s]
             new == Append(old, row)
  <1>4. /\ work \in [Workers -> Work \cup {None}] /\ work[w] \in Work
        /\ f \in Files /\ old \in Seq(Order) /\ Len(old) \in Nat
    BY <1>1, <1>2 DEF TypeOK, Work
  <1>5. label \in [ids : SUBSET Identifiers, outcome : (SUBSET {"resolved", "needs_review"}) \ {{}}]
    <2> DEFINE Label == [ids : SUBSET Identifiers,
                         outcome : (SUBSET {"resolved", "needs_review"}) \ {{}}]
    <2>1. Labels[f] \in Seq(Label)
      BY <1>4, ProcessingAssumption
    <2> HIDE DEF Label
    <2>2. Len(old) + 1 \in 1..Len(Labels[f])
      BY <1>2, <1>4, <2>1
    <2>3. Labels[f][Len(old) + 1] \in Label
      BY <2>1, <2>2
    <2> USE DEF Label
    <2> QED BY <2>3 DEF NextLabel
  <1>6. label = Labels[f][Len(old) + 1]
    BY DEF NextLabel
  <1>7. row \in Order
    BY <1>3, <1>5 DEF Order
  <1>8. row.ids = label.ids /\ row.status = s
    OBVIOUS
  <1>9. work' = [work EXCEPT ![w] = [work[w] EXCEPT !.result = new]]
    BY <1>3
  <1> HIDE DEF label, row
  <1>10. /\ new \in Seq(Order) /\ Len(new) = Len(old) + 1 /\ DOMAIN new = 1..(Len(old) + 1)
         /\ \A n \in DOMAIN old : new[n] = old[n] /\ n \in DOMAIN new
         /\ new[Len(old) + 1] = row /\ DOMAIN old = 1..Len(old)
    BY <1>4, <1>7
  <1> HIDE DEF new
  <1>11. /\ work'[w] = [work[w] EXCEPT !.result = new] /\ work'[w] \in Work
         /\ \A v \in Workers : v # w => work'[v] = work[v]
    BY <1>4, <1>9, <1>10 DEF Work
  <1>12. /\ work' \in [Workers -> Work \cup {None}]
         /\ work'[w].file = f /\ work'[w].result = new /\ work'[w].step = "storing"
    BY <1>2, <1>4, <1>9, <1>11 DEF Work
  <1>13. work'[w] # None
    BY <1>11 DEF NoneIsNew
  <1>14. /\ At(w, "storing")'
         /\ \A v \in Workers : v # w => At(v, "storing")' = At(v, "storing")
    BY <1>11, <1>12, <1>13 DEF At
  <1> HIDE DEF f, old
  <1>15. StoringOwns'
    <2> SUFFICES ASSUME NEW v \in Workers, At(v, "storing")'
                 PROVE  /\ status[work'[v].file] = "processing" /\ holder[work'[v].file] = ServerOf[v]
                        /\ Len(work'[v].result) <= Len(Labels[work'[v].file])
                        /\ \A n \in DOMAIN work'[v].result :
                             work'[v].result[n].ids = Labels[work'[v].file][n].ids
      BY <1>2 DEF StoringOwns
    <2>1. CASE v = w
      <3>1. /\ status[f] = "processing" /\ holder[f] = ServerOf[w]
            /\ \A n \in DOMAIN old : old[n].ids = Labels[f][n].ids
        BY <1>1, <1>2 DEF StoringOwns, f, old
      <3>2. Len(new) <= Len(Labels[f])
        <4>1. Len(Labels[f]) \in Nat
          BY <1>4, ProcessingAssumption
        <4> QED BY <4>1, <1>2, <1>4, <1>10
      <3>3. \A n \in DOMAIN new : new[n].ids = Labels[f][n].ids
        <4> TAKE n \in DOMAIN new
        <4>1. CASE n = Len(old) + 1
          BY <4>1, <1>6, <1>8, <1>10
        <4>2. CASE n # Len(old) + 1
          BY <4>2, <3>1, <1>4, <1>10
        <4> QED BY <4>1, <4>2
      <3> QED BY <2>1, <3>1, <3>2, <3>3, <1>12
    <2>2. CASE v # w
      BY <2>2, <1>1, <1>11, <1>14 DEF StoringOwns
    <2> QED BY <2>1, <2>2
  <1>16. LockedIds(w)' = LockedIds(w) \cup label.ids
    <2>1. LockedIds(w)' = UNION {new[n].ids : n \in DOMAIN new}
      BY <1>12, <1>14 DEF LockedIds, Identify
    <2>2. LockedIds(w) = UNION {old[n].ids : n \in DOMAIN old}
      BY <1>2 DEF LockedIds, Identify, old
    <2>3. \A n \in DOMAIN new : n \in DOMAIN old \/ n = Len(old) + 1
      BY <1>4, <1>10
    <2>4. Len(old) + 1 \in DOMAIN new
      BY <1>4, <1>10
    <2>5. \A x : x \in LockedIds(w)' <=> x \in LockedIds(w) \/ x \in label.ids
      <3> TAKE x
      <3>1. ASSUME x \in LockedIds(w)' PROVE x \in LockedIds(w) \/ x \in label.ids
        <4>1. PICK n \in DOMAIN new : x \in new[n].ids
          BY <2>1, <3>1
        <4> QED BY <4>1, <2>2, <2>3, <1>8, <1>10
      <3>2. ASSUME x \in LockedIds(w) PROVE x \in LockedIds(w)'
        <4>1. PICK n \in DOMAIN old : x \in old[n].ids
          BY <2>2, <3>2
        <4> QED BY <4>1, <2>1, <1>10
      <3>3. ASSUME x \in label.ids PROVE x \in LockedIds(w)'
        BY <3>3, <2>1, <2>4, <1>8, <1>10
      <3> QED BY <3>1, <3>2, <3>3
    <2> QED BY <2>5
  <1>17. \A v \in Workers : v # w => LockedIds(v)' = LockedIds(v)
    <2> SUFFICES ASSUME NEW v \in Workers, v # w PROVE LockedIds(v)' = LockedIds(v)
      OBVIOUS
    <2>1. work'[v] = work[v] /\ (At(v, "storing")' <=> At(v, "storing"))
      BY <1>11, <1>14
    <2> QED BY <2>1 DEF LockedIds, Identify
  <1>18. StoringApart'
    <2> SUFFICES ASSUME NEW u \in Workers, NEW v \in Workers, u # v,
                        At(u, "storing")', At(v, "storing")'
                 PROVE  work'[u].file # work'[v].file /\ LockedIds(u)' \cap LockedIds(v)' = {}
      BY DEF StoringApart
    <2>1. /\ At(u, "storing") /\ At(v, "storing")
          /\ work'[u].file = work[u].file /\ work'[v].file = work[v].file
      BY <1>2, <1>11, <1>12, <1>14 DEF f
    <2>2. work[u].file # work[v].file /\ LockedIds(u) \cap LockedIds(v) = {}
      BY <2>1, <1>1 DEF StoringApart
    <2>3. CASE u = w
      BY <2>1, <2>2, <2>3, <1>2, <1>16, <1>17
    <2>4. CASE v = w
      BY <2>1, <2>2, <2>4, <1>2, <1>16, <1>17
    <2>5. CASE u # w /\ v # w
      BY <2>1, <2>2, <2>5, <1>17
    <2> QED BY <2>3, <2>4, <2>5
  <1>19. ASSUME s # "duplicate"
         PROVE  /\ \A n \in Authoritative(old) : row.ids \cap old[n].ids = {}
                /\ \A g \in Files : \A m \in Authoritative(orders[g]) : row.ids \cap orders[g][m].ids = {}
    <2>1. ~IsDuplicate(w, label.ids)
      BY <1>3, <1>19
    <2>2. label.ids \cap (Identify(old, Authoritative(old))
             \cup UNION {Identify(orders[g], Authoritative(orders[g])) : g \in Files}) = {}
      BY <2>1 DEF IsDuplicate, old
    <2>3. \A n \in Authoritative(old) : label.ids \cap old[n].ids = {}
      BY <2>2 DEF Identify
    <2>4. \A g \in Files : label.ids \cap Identify(orders[g], Authoritative(orders[g])) = {}
      BY <2>2
    <2>5. \A g \in Files : \A m \in Authoritative(orders[g]) : label.ids \cap orders[g][m].ids = {}
      BY <2>4 DEF Identify
    <2> QED BY <2>3, <2>5, <1>8
  <1>20. ResultIsNew'
    <2> SUFFICES ASSUME NEW v \in Workers, At(v, "storing")', NEW n \in Authoritative(work'[v].result)
                 PROVE  /\ \A m \in Authoritative(work'[v].result) :
                             n # m => work'[v].result[n].ids \cap work'[v].result[m].ids = {}
                        /\ \A g \in Files : \A m \in Authoritative(orders[g]) :
                             work'[v].result[n].ids \cap orders[g][m].ids = {}
      BY <1>2 DEF ResultIsNew, Authoritative
    <2>1. CASE v # w
      BY <2>1, <1>1, <1>11, <1>14 DEF ResultIsNew
    <2>2. CASE v = w
      <3>1. \A m \in Authoritative(new) : m \in Authoritative(old) \/ (m = Len(old) + 1 /\ s # "duplicate")
        BY <1>4, <1>8, <1>10 DEF Authoritative
      <3>2. \A m \in Authoritative(old) : new[m] = old[m]
        BY <1>10 DEF Authoritative
      <3>3. \A m \in Authoritative(old) :
              /\ \A p \in Authoritative(old) : m # p => old[m].ids \cap old[p].ids = {}
              /\ \A g \in Files : \A p \in Authoritative(orders[g]) : old[m].ids \cap orders[g][p].ids = {}
        BY <1>1, <1>2 DEF ResultIsNew, old
      <3>4. n \in Authoritative(new)
        BY <2>2, <1>12
      <3>5. ASSUME NEW m \in Authoritative(new), n # m PROVE new[n].ids \cap new[m].ids = {}
        BY <3>1, <3>2, <3>3, <3>4, <3>5, <1>10, <1>19
      <3>6. ASSUME NEW g \in Files, NEW m \in Authoritative(orders[g])
            PROVE  new[n].ids \cap orders[g][m].ids = {}
        BY <3>1, <3>2, <3>3, <3>4, <1>10, <1>19
      <3> QED BY <2>2, <3>5, <3>6, <1>12
    <2> QED BY <2>1, <2>2
  <1>21. OneAuthoritativeOrder' /\ OrdersAreOfOneExecution'
    BY <1>1, <1>2 DEF OneAuthoritativeOrder, OrdersAreOfOneExecution
  <1>22. TypeOK'
    BY <1>1, <1>2, <1>12 DEF TypeOK, uploadVars
  <1> QED BY <1>2, <1>15, <1>18, <1>20, <1>21, <1>22, UploadsStay DEF IInv

(* The result becomes the orders of the job, which had none. *)
LEMMA CommitStoreIInv ==
  ASSUME NoneIsNew, IInv, NEW w \in Workers, CommitStore(w)
  PROVE  IInv'
  <1> DEFINE f == work[w].file
             rows == work[w].result
             resolved == \A n \in DOMAIN rows : rows[n].status = "resolved"
             value == IF resolved THEN "processed" ELSE "needs_review"
  <1>1. /\ TypeOK /\ StoringOwns /\ StoringApart /\ ResultIsNew
        /\ OneAuthoritativeOrder /\ OrdersAreOfOneExecution
    BY DEF IInv
  <1>2. /\ work[w] # None /\ At(w, "storing") /\ ~(Len(rows) < Len(Labels[f]))
        /\ orders' = [orders EXCEPT ![f] = orders[f] \o rows]
        /\ status' = [status EXCEPT ![f] = value]
        /\ holder' = [holder EXCEPT ![f] = None]
        /\ live' = [live EXCEPT ![f] = FALSE]
        /\ Turn(w, "failing") \/ work' = [work EXCEPT ![w] = None]
        /\ UNCHANGED <<used, up>> /\ UNCHANGED uploadVars
    BY DEF CommitStore, HasMoreLabels, At
  <1>3. /\ work \in [Workers -> Work \cup {None}] /\ work[w] \in Work
        /\ f \in Files /\ rows \in Seq(Order) /\ Len(rows) \in Nat /\ DOMAIN rows = 1..Len(rows)
    BY <1>1, <1>2 DEF TypeOK, Work
  <1>4. /\ status[f] = "processing" /\ Len(rows) <= Len(Labels[f])
        /\ \A n \in DOMAIN rows : rows[n].ids = Labels[f][n].ids
    BY <1>1, <1>2 DEF StoringOwns
  <1>5. Len(rows) = Len(Labels[f])
    <2>1. Len(Labels[f]) \in Nat
      BY <1>3, ProcessingAssumption
    <2> QED BY <2>1, <1>2, <1>3, <1>4
  <1>6. /\ work' \in [Workers -> Work \cup {None}] /\ ~At(w, "storing")'
        /\ \A v \in Workers : v # w => work'[v] = work[v]
    <2>1. CASE Turn(w, "failing")
      BY <2>1, <1>2, TurnOf DEF At
    <2>2. CASE work' = [work EXCEPT ![w] = None]
      BY <2>2, <1>3 DEF At
    <2> QED BY <1>2, <2>1, <2>2
  <1>7. \A v \in Workers : At(v, "storing")' =>
          v # w /\ At(v, "storing") /\ work'[v] = work[v] /\ LockedIds(v)' = LockedIds(v)
    <2> SUFFICES ASSUME NEW v \in Workers, At(v, "storing")'
                 PROVE  v # w /\ At(v, "storing") /\ work'[v] = work[v] /\ LockedIds(v)' = LockedIds(v)
      OBVIOUS
    <2>1. v # w /\ work'[v] = work[v]
      BY <1>6
    <2>2. At(v, "storing")
      BY <2>1 DEF At
    <2> QED BY <2>1, <2>2 DEF LockedIds, Identify
  <1>8. /\ \A n \in DOMAIN rows : rows[n].status # "duplicate" =>
             /\ \A m \in DOMAIN rows : n # m /\ rows[m].status # "duplicate" =>
                  rows[n].ids \cap rows[m].ids = {}
             /\ \A g \in Files : \A m \in DOMAIN orders[g] : orders[g][m].status # "duplicate" =>
                  rows[n].ids \cap orders[g][m].ids = {}
    BY <1>1, <1>2 DEF ResultIsNew, Authoritative
  <1>9. \A v \in Workers : v # w /\ At(v, "storing") =>
          /\ work[v].file # f
          /\ \A n \in DOMAIN work[v].result, m \in DOMAIN rows : work[v].result[n].ids \cap rows[m].ids = {}
    <2> SUFFICES ASSUME NEW v \in Workers, v # w, At(v, "storing"),
                        NEW n \in DOMAIN work[v].result, NEW m \in DOMAIN rows
                 PROVE  work[v].result[n].ids \cap rows[m].ids = {}
      BY <1>1, <1>2 DEF StoringApart
    <2>1. LockedIds(v) \cap LockedIds(w) = {}
      BY <1>1, <1>2 DEF StoringApart
    <2>2. work[v].result[n].ids \subseteq LockedIds(v) /\ rows[m].ids \subseteq LockedIds(w)
      BY <1>2 DEF LockedIds, Identify
    <2> QED BY <2>1, <2>2
  <1>10. /\ orders \in [Files -> Seq(Order)] /\ status \in [Files -> Status]
         /\ holder \in [Files -> Servers \cup {None}] /\ live \in [Files -> BOOLEAN]
    BY <1>1 DEF TypeOK
  <1>11. orders[f] = << >>
    BY <1>1, <1>3, <1>4 DEF OrdersAreOfOneExecution
  <1> HIDE DEF f, rows
  <1>12. orders' = [orders EXCEPT ![f] = rows]
    <2>1. << >> \o rows = rows
      BY <1>3
    <2> QED BY <1>2, <1>11, <2>1
  <1>13. /\ value \in {"processed", "needs_review"}
         /\ value = "processed" <=> resolved
    OBVIOUS
  <1> HIDE DEF value
  <1>14. /\ status'[f] = value /\ orders'[f] = rows
         /\ \A g \in Files : g # f => /\ status'[g] = status[g] /\ holder'[g] = holder[g]
                                      /\ orders'[g] = orders[g]
    BY <1>2, <1>3, <1>10, <1>12
  <1>15. TypeOK'
    <2>1. status' \in [Files -> Status] /\ holder' \in [Files -> Servers \cup {None}]
      BY <1>2, <1>10, <1>13 DEF Status, Finished
    <2>2. orders' \in [Files -> Seq(Order)] /\ live' \in [Files -> BOOLEAN]
      BY <1>2, <1>3, <1>10, <1>12
    <2> QED BY <1>1, <1>2, <1>6, <2>1, <2>2 DEF TypeOK, uploadVars
  <1>16. \A v \in Workers : At(v, "storing")' => work[v].file \in Files /\ work[v].file # f
    BY <1>3, <1>7, <1>9 DEF At, Work
  <1>17. StoringOwns'
    BY <1>1, <1>7, <1>14, <1>16 DEF StoringOwns
  <1>18. StoringApart'
    BY <1>1, <1>7 DEF StoringApart
  <1>19. ResultIsNew'
    <2> SUFFICES ASSUME NEW v \in Workers, At(v, "storing")', NEW n \in Authoritative(work'[v].result)
                 PROVE  /\ \A m \in Authoritative(work'[v].result) :
                             n # m => work'[v].result[n].ids \cap work'[v].result[m].ids = {}
                        /\ \A g \in Files : \A m \in Authoritative(orders'[g]) :
                             work'[v].result[n].ids \cap orders'[g][m].ids = {}
      BY DEF ResultIsNew, Authoritative
    <2>1. /\ v # w /\ At(v, "storing") /\ work'[v] = work[v] /\ n \in Authoritative(work[v].result)
          /\ n \in DOMAIN work[v].result
      BY <1>7 DEF Authoritative
    <2>2. ASSUME NEW m \in Authoritative(work[v].result), n # m
          PROVE  work[v].result[n].ids \cap work[v].result[m].ids = {}
      BY <1>1, <2>1, <2>2 DEF ResultIsNew
    <2>3. ASSUME NEW g \in Files, NEW m \in Authoritative(orders'[g])
          PROVE  work[v].result[n].ids \cap orders'[g][m].ids = {}
      <3>1. CASE g = f
        <4>1. m \in DOMAIN rows /\ orders'[g] = rows
          BY <2>3, <3>1, <1>14 DEF Authoritative
        <4> QED BY <4>1, <2>1, <1>9
      <3>2. CASE g # f
        <4>1. orders'[g] = orders[g]
          BY <3>2, <1>14
        <4>2. m \in Authoritative(orders[g])
          BY <2>3, <4>1
        <4> QED BY <4>1, <4>2, <1>1, <2>1 DEF ResultIsNew
      <3> QED BY <3>1, <3>2
    <2> QED BY <2>1, <2>2, <2>3
  <1>20. OneAuthoritativeOrder'
    <2> SUFFICES ASSUME NEW g \in Files, NEW h \in Files,
                        NEW n \in DOMAIN orders'[g], NEW m \in DOMAIN orders'[h],
                        <<g, n>> # <<h, m>>,
                        orders'[g][n].status # "duplicate", orders'[h][m].status # "duplicate"
                 PROVE  orders'[g][n].ids \cap orders'[h][m].ids = {}
      BY DEF OneAuthoritativeOrder
    <2>1. CASE g = f /\ h = f
      BY <2>1, <1>8, <1>14
    <2>2. CASE g = f /\ h # f
      BY <2>2, <1>8, <1>14
    <2>3. CASE g # f /\ h = f
      <3>1. orders'[h][m].ids \cap orders'[g][n].ids = {}
        BY <2>3, <1>8, <1>14
      <3> QED BY <3>1
    <2>4. CASE g # f /\ h # f
      BY <2>4, <1>1, <1>14 DEF OneAuthoritativeOrder
    <2> QED BY <2>1, <2>2, <2>3, <2>4
  <1>21. OrdersAreOfOneExecution'
    <2> SUFFICES ASSUME NEW g \in Files
                 PROVE  IF status'[g] \in {"processed", "needs_review"}
                        THEN /\ Len(orders'[g]) = Len(Labels[g])
                             /\ \A n \in DOMAIN orders'[g] : orders'[g][n].ids = Labels[g][n].ids
                             /\ status'[g] = "processed" <=>
                                  \A n \in DOMAIN orders'[g] : orders'[g][n].status = "resolved"
                        ELSE orders'[g] = << >>
      BY DEF OrdersAreOfOneExecution
    <2>1. CASE g = f
      BY <2>1, <1>4, <1>5, <1>13, <1>14
    <2>2. CASE g # f
      BY <2>2, <1>1, <1>14 DEF OrdersAreOfOneExecution
    <2> QED BY <2>1, <2>2
  <1>22. PendingIsStored' /\ AcceptedIsStored'
    <2>1. \A g \in Files : status[g] # "none" => status'[g] # "none"
      BY <1>13, <1>14
    <2> QED BY <2>1, <1>2, UploadsStay
  <1> QED BY <1>15, <1>17, <1>18, <1>19, <1>20, <1>21, <1>22 DEF IInv

----------------------------------------------------------------------------
(* Uploads. *)

(* A request goes on; unless it is done for, its file is there, and only its own     *)
(* file goes away.                                                           *)
LEMMA RequestMoves ==
  ASSUME NoneIsNew, IInv, NEW r \in Requests, NEW new \in Request,
         request' = [request EXCEPT ![r] = new],
         request[r] # None => ~RequestAt(r, "accepted"),
         objects' \in SUBSET Requests, \A q \in Requests : q # r /\ q \in objects => q \in objects',
         new.step # "dropped" => r \in objects',
         UNCHANGED <<holder, live, orders, used, up, work>>,
         source' \in [Files -> Requests \cup {None}], uploadKey' \in [Files -> Keys \cup {None}],
         created' \in Seq(Files),
         \/ /\ UNCHANGED <<status, source>> /\ new.step # "accepted"
         \/ /\ status[new.file] = "none"
            /\ status' = [status EXCEPT ![new.file] = "queued"]
            /\ source' = [source EXCEPT ![new.file] = r]
  PROVE  IInv'
  <1>1. /\ TypeOK /\ StoringOwns /\ StoringApart /\ ResultIsNew
        /\ OneAuthoritativeOrder /\ OrdersAreOfOneExecution
        /\ PendingIsStored /\ AcceptedIsStored
    BY DEF IInv
  <1>2. /\ status \in [Files -> Status] /\ request \in [Requests -> Request \cup {None}]
        /\ source \in [Files -> Requests \cup {None}] /\ new.file \in Files
        /\ \A q \in Requests : request[q] # None => request[q].file \in Files
    BY <1>1 DEF TypeOK, Request
  <1>3. \A f \in Files : \/ status'[f] = status[f] /\ source'[f] = source[f]
                         \/ /\ f = new.file /\ status[f] = "none" /\ status'[f] = "queued"
                            /\ source'[f] = r
    BY <1>2
  <1>4. TypeOK'
    <2>1. status' \in [Files -> Status]
      BY <1>2 DEF Status
    <2>2. request' \in [Requests -> Request \cup {None}]
      BY <1>2
    <2> QED BY <1>1, <2>1, <2>2 DEF TypeOK
  <1>5. \A w \in Workers : /\ At(w, "storing")' <=> At(w, "storing")
                           /\ LockedIds(w)' = LockedIds(w)
    BY DEF At, LockedIds, Identify
  <1>6. StoringOwns'
    <2>1. \A w \in Workers : At(w, "storing") => work[w].file \in Files
      BY <1>1 DEF At, TypeOK, Work
    <2> QED BY <2>1, <1>1, <1>3, <1>5 DEF StoringOwns
  <1>7. StoringApart' /\ ResultIsNew'
    BY <1>1, <1>5 DEF StoringApart, ResultIsNew, Authoritative
  <1>8. OneAuthoritativeOrder'
    BY <1>1 DEF OneAuthoritativeOrder
  <1>9. OrdersAreOfOneExecution'
    <2>1. \A f \in Files : status'[f] = status[f] \/ (status[f] = "none" /\ status'[f] = "queued")
      BY <1>3
    <2> QED BY <2>1, <1>1 DEF OrdersAreOfOneExecution
  <1>10. /\ request'[r] = new /\ new # None
         /\ \A q \in Requests : q # r => request'[q] = request[q]
    BY <1>2 DEF NoneIsNew
  <1>11. PendingIsStored'
    BY <1>1, <1>10 DEF PendingIsStored, RequestAt
  <1>12. AcceptedIsStored'
    <2> SUFFICES ASSUME NEW q \in Requests, RequestAt(q, "accepted")'
                 PROVE  /\ source'[request'[q].file] = q /\ q \in objects'
                        /\ status'[request'[q].file] # "none"
      BY DEF AcceptedIsStored
    <2>1. CASE q = r
      BY <2>1, <1>2, <1>10 DEF RequestAt
    <2>2. CASE q # r
      <3>1. request'[q] = request[q] /\ RequestAt(q, "accepted") /\ request[q].file \in Files
        BY <2>2, <1>2, <1>10 DEF RequestAt
      <3> QED BY <2>2, <3>1, <1>1, <1>3 DEF AcceptedIsStored
    <2> QED BY <2>1, <2>2
  <1> QED BY <1>4, <1>6, <1>7, <1>8, <1>9, <1>11, <1>12 DEF IInv

LEMMA UploadingIInv ==
  ASSUME NoneIsNew, IInv, Uploading
  PROVE  IInv'
  <1>1. /\ request \in [Requests -> Request \cup {None}] /\ objects \in SUBSET Requests
        /\ source \in [Files -> Requests \cup {None}] /\ uploadKey \in [Files -> Keys \cup {None}]
        /\ created \in Seq(Files) /\ PendingIsStored
    BY DEF IInv, TypeOK
  <1>2. ASSUME NEW r \in Requests, NEW c \in Contents[r], BeginUpload(r, c.file, c.key)
        PROVE  IInv'
    <2> DEFINE new == [file |-> c.file, key |-> c.key, step |-> "stored"]
    <2>1. /\ request[r] = None /\ objects' = objects \cup {r}
          /\ request' = [request EXCEPT ![r] = new]
          /\ UNCHANGED <<status, holder, live, orders, used, source, uploadKey, created, up, work>>
      BY <1>2 DEF BeginUpload, jobVars
    <2>2. new \in Request
      <3>1. c \in [file : Files, key : Keys \cup {None}]
        BY ProcessingAssumption
      <3> QED BY <3>1 DEF Request
    <2>3. new.step = "stored"
      OBVIOUS
    <2> HIDE DEF new
    <2> QED BY <1>1, <2>1, <2>2, <2>3, RequestMoves
  <1>3. ASSUME NEW r \in Requests, RequestAt(r, "stored"), NEW step \in {"accepted", "dropped"}
        PROVE  LET new == [request[r] EXCEPT !.step = step]
               IN  /\ new \in Request /\ new.file = request[r].file /\ new.key = request[r].key
                   /\ new.step = step
                   /\ request[r].file \in Files /\ request[r].key \in Keys \cup {None}
                   /\ ~RequestAt(r, "accepted") /\ r \in objects
    <2>1. request[r] \in Request /\ request[r].step = "stored" /\ r \in objects
      BY <1>1, <1>3 DEF RequestAt, PendingIsStored
    <2> QED BY <2>1 DEF Request, RequestAt
  <1>4. ASSUME NEW r \in Requests, InsertJob(r) \/ InsertUnanswered(r)
        PROVE  IInv'
    <2>1. PICK step \in {"accepted", "dropped"} :
            /\ request' = [request EXCEPT ![r].step = step]
            /\ step = "accepted" => objects' = objects
            /\ step = "dropped" => objects' = objects \ {r}
      BY <1>4 DEF InsertJob, InsertUnanswered
    <2> DEFINE new == [request[r] EXCEPT !.step = step]
               f == request[r].file
    <2>2. /\ RequestAt(r, "stored") /\ status[f] = "none"
          /\ status' = [status EXCEPT ![f] = "queued"]
          /\ source' = [source EXCEPT ![f] = r]
          /\ uploadKey' = [uploadKey EXCEPT ![f] = request[r].key]
          /\ created' = Append(created, f)
          /\ UNCHANGED <<holder, live, orders, used, up, work>>
      BY <1>4 DEF InsertJob, InsertUnanswered, IsTaken, Insert
    <2>3. /\ new \in Request /\ new.file = f /\ new.step = step
          /\ f \in Files /\ request[r].key \in Keys \cup {None}
          /\ ~RequestAt(r, "accepted") /\ r \in objects
      BY <2>2, <1>3
    <2>4. request' = [request EXCEPT ![r] = new]
      BY <2>1
    <2> HIDE DEF new, f
    <2>5. /\ source' \in [Files -> Requests \cup {None}] /\ uploadKey' \in [Files -> Keys \cup {None}]
          /\ created' \in Seq(Files) /\ objects' \in SUBSET Requests
          /\ \A q \in Requests : q # r /\ q \in objects => q \in objects'
          /\ new.step # "dropped" => r \in objects'
      BY <1>1, <2>1, <2>2, <2>3
    <2> QED BY <2>2, <2>3, <2>4, <2>5, RequestMoves
  <1>5. ASSUME NEW r \in Requests, DropUpload(r) \/ LeaveUpload(r)
        PROVE  IInv'
    <2> DEFINE new == [request[r] EXCEPT !.step = "dropped"]
    <2>1. /\ RequestAt(r, "stored") /\ request' = [request EXCEPT ![r] = new]
          /\ objects' = objects \ {r} \/ objects' = objects
          /\ UNCHANGED <<status, holder, live, orders, used, source, uploadKey, created, up, work>>
      BY <1>5 DEF DropUpload, LeaveUpload, jobVars
    <2>2. /\ new \in Request /\ new.step = "dropped" /\ ~RequestAt(r, "accepted")
      BY <2>1, <1>3
    <2> HIDE DEF new
    <2> QED BY <1>1, <2>1, <2>2, RequestMoves
  <1> QED BY <1>2, <1>4, <1>5 DEF Uploading

LEMMA NextIInv == ASSUME NoneIsNew, IInv, [Next]_vars PROVE IInv'
  <1>1. CASE Uploading
    BY <1>1, UploadingIInv
  <1>2. CASE Working
    BY <1>2, ClaimIInv, BeginStoreIInv, StoreLabelIInv, CommitStoreIInv, FailJobIInv, QuietSteps
       DEF Working
  <1>3. CASE \E f \in Files : Expire(f) \/ Retry(f) \/ Use(f)
    BY <1>3, RetryIInv, QuietSteps
  <1>4. CASE (\E s \in Servers : Crash(s)) \/ UNCHANGED vars
    BY <1>4, QuietSteps
  <1> QED BY <1>1, <1>2, <1>3, <1>4 DEF Next

(* Every reachable state satisfies the invariant: open transactions have their    *)
(* job under its lease, and share neither a file nor an identifier.              *)
THEOREM Invariance == ASSUME NoneIsNew PROVE Spec => []IInv
  <1>1. Init => IInv
    BY InitIInv
  <1>2. IInv /\ [Next]_vars => IInv'
    BY NextIInv
  <1> QED BY <1>1, <1>2, PTL DEF Spec

(* Types are kept (Processing.TypeOK). *)
THEOREM TypesAreKept == ASSUME NoneIsNew PROVE Spec => []TypeOK
  <1>1. IInv => TypeOK
    BY DEF IInv
  <1> QED BY <1>1, Invariance, PTL

(* An identifier has one authoritative order, by the advisory locks alone         *)
(* (Processing.OneAuthoritativeOrder).                                      *)
THEOREM OrdersAreAuthoritativeOnce == ASSUME NoneIsNew PROVE Spec => []OneAuthoritativeOrder
  <1>1. IInv => OneAuthoritativeOrder
    BY DEF IInv
  <1> QED BY <1>1, Invariance, PTL

(* The orders of a job are those of one execution                              *)
(* (Processing.OrdersAreOfOneExecution).                                    *)
THEOREM OrdersAreStoredTogether == ASSUME NoneIsNew PROVE Spec => []OrdersAreOfOneExecution
  <1>1. IInv => OrdersAreOfOneExecution
    BY DEF IInv
  <1> QED BY <1>1, Invariance, PTL

(* What was accepted has a job and its file (Processing.AcceptedIsStored). *)
THEOREM AcceptedUploadsAreStored == ASSUME NoneIsNew PROVE Spec => []AcceptedIsStored
  <1>1. IInv => AcceptedIsStored
    BY DEF IInv
  <1> QED BY <1>1, Invariance, PTL

(* Only a commit and a failure finish a job, each by a worker of the lease. *)
LEMMA FinishedByTheLease ==
  ASSUME NoneIsNew, IInv, [Next]_vars, NEW f \in Files,
         status[f] = "processing", status'[f] \in Finished
  PROVE  \E w \in Workers : /\ work[w] # None /\ work[w].file = f /\ work'[w] # work[w]
                            /\ ServerOf[w] = holder[f]
  <1>1. /\ status \in [Files -> Status] /\ work \in [Workers -> Work \cup {None}] /\ StoringOwns
        /\ TypeOK
    BY DEF IInv, TypeOK
  <1>2. status'[f] # status[f] /\ status'[f] \notin {"queued", "processing"}
    BY DEF Finished
  <1>3. ASSUME NEW w \in Workers, CommitStore(w)
        PROVE  /\ work[w] # None /\ work[w].file = f /\ work'[w] # work[w] /\ ServerOf[w] = holder[f]
    <2>1. /\ At(w, "storing") /\ work[w] # None /\ work[w].step = "storing"
          /\ Turn(w, "failing") \/ work' = [work EXCEPT ![w] = None]
      BY <1>3 DEF CommitStore, At
    <2>2. \E v : status' = [status EXCEPT ![work[w].file] = v]
      BY <1>3 DEF CommitStore
    <2>3. work[w].file = f
      BY <2>2, <1>1, <1>2
    <2>4. holder[f] = ServerOf[w]
      BY <2>1, <2>3, <1>1 DEF StoringOwns
    <2>5. work'[w] # work[w]
      <3>1. CASE Turn(w, "failing")
        <4>1. work'[w].step = "failing"
          BY <2>1, <3>1, TurnOf
        <4> QED BY <4>1, <2>1
      <3>2. CASE work' = [work EXCEPT ![w] = None]
        BY <3>2, <2>1, <1>1
      <3> QED BY <2>1, <3>1, <3>2
    <2> QED BY <2>1, <2>3, <2>4, <2>5
  <1>4. ASSUME NEW w \in Workers, FailJob(w)
        PROVE  /\ work[w] # None /\ work[w].file = f /\ work'[w] # work[w] /\ ServerOf[w] = holder[f]
    <2>1. /\ work[w] # None /\ holder[work[w].file] = ServerOf[w]
          /\ status' = [status EXCEPT ![work[w].file] = "failed"]
          /\ work' = [work EXCEPT ![w] = None]
      BY <1>4 DEF FailJob, Owns, At
    <2>2. work[w].file = f
      BY <2>1, <1>1, <1>2
    <2> QED BY <2>1, <2>2, <1>1
  <1>5. \A g : /\ status' # [status EXCEPT ![g] = "queued"]
               /\ status' # [status EXCEPT ![g] = "processing"]
    BY <1>1, <1>2
  <1>6. ASSUME UNCHANGED status PROVE FALSE
    BY <1>2, <1>6
  <1>7. CASE Uploading
    <2>1. ASSUME NEW r \in Requests, InsertJob(r) \/ InsertUnanswered(r) PROVE FALSE
      <3>1. status' = [status EXCEPT ![request[r].file] = "queued"]
        BY <2>1 DEF InsertJob, InsertUnanswered, Insert
      <3> QED BY <3>1, <1>5
    <2>2. ASSUME NEW r \in Requests,
                 \/ \E c \in Contents[r] : BeginUpload(r, c.file, c.key)
                 \/ DropUpload(r) \/ LeaveUpload(r)
          PROVE  FALSE
      BY <2>2, <1>6 DEF BeginUpload, DropUpload, LeaveUpload, jobVars
    <2> QED BY <1>7, <2>1, <2>2 DEF Uploading
  <1>8. CASE Working
    <2>1. ASSUME NEW w \in Workers, NEW g \in Files, Claim(w, g) \/ ClaimUnanswered(w, g) PROVE FALSE
      <3>1. status' = [status EXCEPT ![g] = "processing"]
        BY <2>1 DEF Claim, ClaimUnanswered
      <3> QED BY <3>1, <1>5
    <2>2. ASSUME NEW w \in Workers,
                 \/ BeginStore(w) \/ ReadFails(w) \/ StoreLabel(w)
                 \/ FailExecution(w) \/ LoseLease(w) \/ Forget(w)
          PROVE  FALSE
      BY <2>2, <1>6 DEF BeginStore, ReadFails, StoreLabel, FailExecution, LoseLease, Forget, jobVars
    <2> QED BY <1>8, <2>1, <2>2, <1>3, <1>4 DEF Working
  <1>9. CASE \E g \in Files : Expire(g) \/ Retry(g) \/ Use(g)
    BY <1>9, <1>5, <1>6 DEF Expire, Retry, Use, jobVars
  <1>10. CASE (\E s \in Servers : Crash(s)) \/ UNCHANGED vars
    BY <1>10, <1>6 DEF Crash, vars, jobVars
  <1> QED BY <1>7, <1>8, <1>9, <1>10 DEF Next

(* A process whose job was claimed by another one finishes nothing               *)
(* (Processing.StaleProcessCannotFinish).                                   *)
THEOREM StaleProcessesFinishNothing == ASSUME NoneIsNew PROVE Spec => StaleProcessCannotFinish
  <1>1. IInv /\ [Next]_vars =>
          [\A f \in Files :
             status[f] = "processing" /\ status'[f] \in Finished =>
               \E w \in Workers : /\ work[w] # None /\ work[w].file = f /\ work'[w] # work[w]
                                  /\ ServerOf[w] = holder[f]]_vars
    BY FinishedByTheLease
  <1> QED BY <1>1, Invariance, PTL DEF Spec, StaleProcessCannotFinish
=============================================================================
