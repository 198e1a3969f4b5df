------------------------ MODULE LabelDocumentsProofs ------------------------
(***************************************************************************)
(* What is ready is complete and, as long as neither the server nor the      *)
(* database fails, can be downloaded: for any batches, print jobs and         *)
(* requests, whichever clients go away and whichever answers they miss.      *)
(***************************************************************************)
EXTENDS LabelDocuments, TLAPS

(* None is no row and no request. *)
NoneIsNew == None \notin Job /\ None \notin Request

(* A request works on a job that exists, and that is not decided before it is    *)
(* through.                                                                  *)
OwnsItsJob ==
  \A r \in Requests : request[r] # None =>
    /\ job[request[r].job] # None
    /\ request[r].step # "failing" => job[request[r].job].status = "generating"

(* No two requests work on one job. *)
IsAlone ==
  \A r, q \in Requests :
    request[r] # None /\ request[q] # None /\ request[r].job = request[q].job => r = q

Working(r) == request[r] # None /\ request[r].step # "failing"

(* What a request believes to be stored is stored. *)
KnowsItsObjects ==
  \A r \in Requests : Working(r) => Own(r, request[r].stored) \subseteq objects

IInv == /\ TypeOK
        /\ ReadyIsComplete
        /\ OwnsItsJob /\ IsAlone /\ KnowsItsObjects
        /\ Reliable => ReadyCanBeDownloaded

LEMMA InitIInv == ASSUME NoneIsNew, Init PROVE IInv
  BY DEF NoneIsNew, Init, IInv, TypeOK, ReadyIsComplete, OwnsItsJob, IsAlone, KnowsItsObjects,
         ReadyCanBeDownloaded, IsReady, Working

(* A request that is changed, as a record. *)
LEMMA ChangedRequest ==
  ASSUME NEW x \in Request, NEW v
  PROVE  /\ [x EXCEPT !.step = v] = [job |-> x.job, step |-> v, stored |-> x.stored, gone |-> x.gone]
         /\ [x EXCEPT !.stored = v] = [job |-> x.job, step |-> x.step, stored |-> v, gone |-> x.gone]
         /\ [x EXCEPT !.gone = v] = [job |-> x.job, step |-> x.step, stored |-> x.stored, gone |-> v]
  BY DEF Request

(* A new job: no request works on it, for it did not exist. *)
LEMMA BeginIInv ==
  ASSUME NoneIsNew, IInv, NEW r \in Requests, NEW k \in Jobs, NEW b \in Batches,
         NEW invoices \in BOOLEAN, NEW source \in Jobs \cup {None},
         Begin(r, k, b, invoices, source)
  PROVE  IInv'
  <1> DEFINE new == [batch |-> b, invoices |-> invoices, source |-> source,
                     status |-> "generating"]
             req == [job |-> k, step |-> "generating", stored |-> {}, gone |-> FALSE]
  <1>1. new \in Job /\ req \in Request /\ new # None /\ req # None
    <2>1. new \in Job
      BY DEF Job
    <2>2. req \in Request
      BY DEF Request
    <2> QED BY <2>1, <2>2 DEF NoneIsNew
  <1>2. /\ job' = [job EXCEPT ![k] = new] /\ request' = [request EXCEPT ![r] = req]
        /\ request[r] = None /\ job[k] = None
        /\ UNCHANGED <<ready, artifacts, objects>>
    BY DEF Begin
  <1>3. TypeOK /\ ReadyIsComplete /\ OwnsItsJob /\ IsAlone /\ KnowsItsObjects
    BY DEF IInv
  <1>4. TypeOK'
    BY <1>1, <1>2, <1>3 DEF TypeOK
  <1>5. ReadyIsComplete'
    BY <1>1, <1>2, <1>3 DEF ReadyIsComplete, IsReady, Outputs, TypeOK
  <1>6. OwnsItsJob'
    BY <1>1, <1>2, <1>3 DEF OwnsItsJob, TypeOK, Request
  <1>7. IsAlone'
    BY <1>1, <1>2, <1>3 DEF OwnsItsJob, IsAlone, TypeOK, Request
  <1>8. KnowsItsObjects'
    BY <1>1, <1>2, <1>3 DEF KnowsItsObjects, Working, Own, TypeOK, Request
  <1>9. Reliable => ReadyCanBeDownloaded'
    BY <1>1, <1>2, <1>3 DEF IInv, ReadyCanBeDownloaded, CanBeDownloaded, IsReady, TypeOK
  <1> QED BY <1>4, <1>5, <1>6, <1>7, <1>8, <1>9 DEF IInv

(* A request goes on, or fails, without touching a row; if objects get lost they  *)
(* are its own, and it fails.                                                 *)
LEMMA RequestIInv ==
  ASSUME NoneIsNew, IInv, NEW r \in Requests, request[r] # None,
         UNCHANGED <<ready, job, artifacts>>,
         NEW step \in {"generating", "storing", "failing"}, NEW stored \in SUBSET Kinds,
         NEW gone \in BOOLEAN,
         request' = [request EXCEPT ![r] =
           [job |-> request[r].job, step |-> step, stored |-> stored, gone |-> gone]],
         step # "failing" => request[r].step # "failing",
         objects' \subseteq Jobs \X Kinds,
         step # "failing" => ({request[r].job} \X stored) \subseteq objects',
         \/ objects \subseteq objects'
         \/ /\ request[r].step = "storing"
            /\ \A o \in objects \ objects' : o[1] = request[r].job
  PROVE  IInv'
  <1> DEFINE req == [job |-> request[r].job, step |-> step, stored |-> stored, gone |-> gone]
  <1>0. TypeOK /\ ReadyIsComplete /\ OwnsItsJob /\ IsAlone /\ KnowsItsObjects
    BY DEF IInv
  <1>1. request[r] \in Request /\ req \in Request /\ req # None
    BY <1>0 DEF Request, NoneIsNew, TypeOK
  <1>4. TypeOK'
    BY <1>0, <1>1 DEF TypeOK
  <1>5. ReadyIsComplete'
    BY <1>0 DEF ReadyIsComplete, IsReady, Outputs
  <1>6. OwnsItsJob'
    BY <1>0, <1>1 DEF OwnsItsJob, TypeOK
  <1>7. IsAlone'
    BY <1>0, <1>1 DEF IsAlone, TypeOK
  <1>8. KnowsItsObjects'
    <2> SUFFICES ASSUME NEW q \in Requests, Working(q)', NEW o \in Own(q, request[q].stored)'
                 PROVE  o \in objects'
      BY DEF KnowsItsObjects
    <2>1. CASE q = r
      BY <2>1, <1>0, <1>1 DEF Working, Own, TypeOK
    <2>2. CASE q # r
      <3>1. request'[q] = request[q] /\ Working(q) /\ o \in Own(q, request[q].stored)
        BY <2>2, <1>0 DEF Working, Own, TypeOK
      <3>2. o \in objects /\ o[1] = request[q].job
        BY <3>1, <1>0 DEF KnowsItsObjects, Own
      <3>3. o[1] # request[r].job
        BY <3>1, <3>2, <2>2, <1>0 DEF IsAlone, Working
      <3> QED BY <3>2, <3>3
    <2> QED BY <2>1, <2>2
  <1>9. Reliable => ReadyCanBeDownloaded'
    <2> SUFFICES ASSUME Reliable, NEW k \in Jobs, IsReady(k), NEW kind \in artifacts[k]
                 PROVE  <<k, kind>> \in objects'
      BY DEF ReadyCanBeDownloaded, CanBeDownloaded, IsReady
    <2>1. <<k, kind>> \in objects
      BY DEF IInv, ReadyCanBeDownloaded, CanBeDownloaded
    <2>2. request[r].step = "storing" => request[r].job # k
      BY <1>0 DEF OwnsItsJob, IsReady
    <2> QED BY <2>1, <2>2
  <1> QED BY <1>4, <1>5, <1>6, <1>7, <1>8, <1>9 DEF IInv

(* A request that ends disturbs nothing, whatever it leaves behind. *)
LEMMA EndIInv ==
  ASSUME IInv, NEW ended \in SUBSET Requests,
         UNCHANGED <<ready, job, artifacts, objects>>,
         request' = [r \in Requests |-> IF r \in ended THEN None ELSE request[r]]
  PROVE  IInv'
  BY DEF IInv, TypeOK, ReadyIsComplete, OwnsItsJob, IsAlone, KnowsItsObjects, Working, Own,
         ReadyCanBeDownloaded, CanBeDownloaded, IsReady, Outputs

(* The rows of all documents and the status appear together. *)
LEMMA PublishIInv ==
  ASSUME NoneIsNew, IInv, NEW r \in Requests, At(r, "storing"), Missing(r) = {},
         Publish(request[r].job), UNCHANGED ready,
         NEW after \in Request \cup {None}, request' = [request EXCEPT ![r] = after],
         after # None => after.job = request[r].job /\ after.step = "failing",
         objects' \subseteq objects, Reliable => objects' = objects,
         \A o \in objects \ objects' : o[1] = request[r].job
  PROVE  IInv'
  <1> DEFINE k == request[r].job
             done == [job[k] EXCEPT !.status = "ready"]
  <1>0. TypeOK /\ ReadyIsComplete /\ OwnsItsJob /\ IsAlone /\ KnowsItsObjects
    BY DEF IInv
  <1>1. /\ k \in Jobs /\ job[k] \in Job /\ job[k].status = "generating"
        /\ request[r] # None /\ request[r] \in Request
    BY <1>0 DEF OwnsItsJob, At, TypeOK, Request
  <1>2. done \in Job /\ done # None /\ done.status = "ready" /\ done.invoices = job[k].invoices
    <2>1. done \in Job
      BY <1>1 DEF Job
    <2>2. done.status = "ready" /\ done.invoices = job[k].invoices
      BY <1>1 DEF Job
    <2> QED BY <2>1, <2>2 DEF NoneIsNew
  <1>3. job' = [job EXCEPT ![k] = done] /\ artifacts' = [artifacts EXCEPT ![k] = Outputs(k)]
    BY <1>1 DEF Publish
  <1>4. TypeOK'
    BY <1>0, <1>1, <1>2, <1>3 DEF TypeOK, Outputs, Kinds
  <1>5. ReadyIsComplete'
    BY <1>0, <1>1, <1>2, <1>3 DEF ReadyIsComplete, IsReady, Outputs, TypeOK
  <1>6. \A q \in Requests : q # r => request'[q] = request[q]
                                   /\ (request[q] # None => request[q].job # k)
    BY <1>0, <1>1 DEF IsAlone, TypeOK
  <1>7. request'[r] = after
    BY <1>0 DEF TypeOK
  <1>8. OwnsItsJob'
    BY <1>0, <1>1, <1>2, <1>3, <1>6, <1>7 DEF OwnsItsJob, TypeOK
  <1>9. IsAlone'
    BY <1>0, <1>6, <1>7 DEF IsAlone
  <1>10. KnowsItsObjects'
    <2> SUFFICES ASSUME NEW q \in Requests, Working(q)'
                 PROVE  (Own(q, request[q].stored) \subseteq objects)'
      BY DEF KnowsItsObjects
    <2>1. q # r
      BY <1>7 DEF Working
    <2>2. request'[q] = request[q] /\ Working(q) /\ request[q].job # k
      BY <2>1, <1>6 DEF Working
    <2>3. Own(q, request[q].stored) \subseteq objects
      BY <2>2, <1>0 DEF KnowsItsObjects
    <2> QED BY <2>2, <2>3 DEF Own
  <1>11. Reliable => ReadyCanBeDownloaded'
    <2> SUFFICES ASSUME Reliable, NEW j \in Jobs, IsReady(j)', NEW kind \in artifacts'[j]
                 PROVE  <<j, kind>> \in objects'
      BY DEF ReadyCanBeDownloaded, CanBeDownloaded
    <2>1. CASE j = k
      <3>1. kind \in Outputs(k)
        BY <2>1, <1>0, <1>1, <1>3 DEF TypeOK
      <3>2. Outputs(k) \subseteq request[r].stored
        BY DEF Missing
      <3>3. Own(r, request[r].stored) \subseteq objects
        BY <1>0 DEF KnowsItsObjects, Working, At
      <3> QED BY <3>1, <3>2, <3>3, <2>1 DEF Own
    <2>2. CASE j # k
      <3>1. IsReady(j) /\ kind \in artifacts[j]
        BY <2>2, <1>0, <1>3 DEF IsReady, TypeOK
      <3> QED BY <3>1 DEF IInv, ReadyCanBeDownloaded, CanBeDownloaded
    <2> QED BY <2>1, <2>2
  <1> QED BY <1>4, <1>5, <1>8, <1>9, <1>10, <1>11 DEF IInv

(* A job that has failed has no documents; one that is ready stays so. *)
LEMMA FailPrintJobIInv ==
  ASSUME NoneIsNew, IInv, NEW r \in Requests, FailPrintJob(r)
  PROVE  IInv'
  <1> DEFINE k == request[r].job
             failed == [job[k] EXCEPT !.status = "failed"]
  <1>0. TypeOK /\ ReadyIsComplete /\ OwnsItsJob /\ IsAlone /\ KnowsItsObjects
    BY DEF IInv
  <1>1. CASE job[k].status = "generating"
    <2>1. k \in Jobs /\ job[k] \in Job /\ request[r] # None
      BY <1>0 DEF FailPrintJob, OwnsItsJob, At, TypeOK, Request
    <2>2. failed \in Job /\ failed # None /\ failed.status = "failed"
      <3>1. failed \in Job
        BY <2>1 DEF Job
      <3>2. failed.status = "failed"
        BY <2>1 DEF Job
      <3> QED BY <3>1, <3>2 DEF NoneIsNew
    <2>3. /\ job' = [job EXCEPT ![k] = failed] /\ request' = [request EXCEPT ![r] = None]
          /\ UNCHANGED <<ready, artifacts, objects>>
      BY <1>1 DEF FailPrintJob
    <2>4. TypeOK'
      BY <1>0, <2>1, <2>2, <2>3 DEF TypeOK
    <2>5. ReadyIsComplete'
      BY <1>0, <1>1, <2>1, <2>2, <2>3 DEF ReadyIsComplete, IsReady, Outputs, TypeOK
    <2>6. OwnsItsJob'
      BY <1>0, <2>1, <2>3 DEF OwnsItsJob, IsAlone, TypeOK
    <2>7. IsAlone' /\ KnowsItsObjects'
      BY <1>0, <2>3 DEF IsAlone, KnowsItsObjects, Working, Own, TypeOK
    <2>8. Reliable => ReadyCanBeDownloaded'
      BY <1>0, <2>2, <2>3 DEF IInv, ReadyCanBeDownloaded, CanBeDownloaded, IsReady, TypeOK
    <2> QED BY <2>4, <2>5, <2>6, <2>7, <2>8 DEF IInv
  <1>2. CASE job[k].status # "generating"
    <2>1. /\ UNCHANGED <<ready, job, artifacts, objects>>
          /\ request' = [q \in Requests |-> IF q \in {r} THEN None ELSE request[q]]
      BY <1>0, <1>2 DEF FailPrintJob, TypeOK
    <2> QED BY <2>1, EndIInv
  <1> QED BY <1>1, <1>2

LEMMA NextIInv == ASSUME NoneIsNew, IInv, [Next]_vars PROVE IInv'
  <1>0. TypeOK /\ KnowsItsObjects
    BY DEF IInv
  <1>1. ASSUME NEW b \in Batches, BecomeReady(b) PROVE IInv'
    BY <1>1 DEF BecomeReady, IInv, TypeOK, ReadyIsComplete, OwnsItsJob, IsAlone, KnowsItsObjects,
       Working, Own, ReadyCanBeDownloaded, CanBeDownloaded, IsReady, Outputs
  <1>2. ASSUME NEW r \in Requests, NEW k \in Jobs, NEW b \in Batches, NEW invoices \in BOOLEAN,
               Generate(r, k, b, invoices)
        PROVE  IInv'
    BY <1>2, BeginIInv DEF Generate
  <1>3. ASSUME NEW r \in Requests, NEW k \in Jobs, NEW s \in Jobs, Reprint(r, k, s)
        PROVE  IInv'
    <2>1. job[s].batch \in Batches /\ job[s].invoices \in BOOLEAN
      BY <1>3, <1>0 DEF Reprint, IsReady, TypeOK, Job
    <2> QED BY <2>1, <1>3, BeginIInv DEF Reprint
  <1>4. ASSUME NEW r \in Requests, request[r] # None
        PROVE  /\ request[r] \in Request /\ request[r].job \in Jobs
               /\ request[r].stored \subseteq Kinds /\ request[r].gone \in BOOLEAN
               /\ request[r].step \in {"generating", "storing", "failing"}
               /\ request[r] = [job |-> request[r].job, step |-> request[r].step,
                                stored |-> request[r].stored, gone |-> request[r].gone]
    BY <1>4, <1>0 DEF TypeOK, Request
  <1>5. ASSUME NEW r \in Requests, Render(r) PROVE IInv'
    <2>1. /\ request[r] # None /\ request[r].step = "generating"
          /\ UNCHANGED <<ready, job, artifacts, objects>>
      BY <1>5 DEF Render, At
    <2>2. request' = [request EXCEPT ![r] =
            [job |-> request[r].job, step |-> "storing", stored |-> request[r].stored,
             gone |-> request[r].gone]]
      BY <1>5, <2>1, <1>4, ChangedRequest DEF Render
    <2>3. ({request[r].job} \X request[r].stored) \subseteq objects
      BY <2>1, <1>0 DEF KnowsItsObjects, Working, Own
    <2> QED BY <2>1, <2>2, <2>3, <1>4, <1>0, RequestIInv DEF TypeOK
  <1>6. ASSUME NEW r \in Requests, request[r] # None, Fail(r), UNCHANGED <<ready, job, artifacts>>,
               objects' \subseteq Jobs \X Kinds,
               \/ objects \subseteq objects'
               \/ /\ request[r].step = "storing"
                  /\ \A o \in objects \ objects' : o[1] = request[r].job
        PROVE  IInv'
    <2>1. request' = [request EXCEPT ![r] =
            [job |-> request[r].job, step |-> "failing", stored |-> request[r].stored,
             gone |-> request[r].gone]]
      BY <1>6, <1>4, ChangedRequest DEF Fail
    <2> QED BY <2>1, <1>4, <1>6, RequestIInv
  <1>7. ASSUME NEW r \in Requests, RenderFails(r) PROVE IInv'
    BY <1>7, <1>6, <1>0 DEF RenderFails, At, TypeOK
  <1>8. ASSUME NEW r \in Requests, At(r, "storing")
        PROVE  /\ CleanedUp(r) \subseteq objects
               /\ \A o \in objects \ CleanedUp(r) : o[1] = request[r].job
               /\ request[r].gone => CleanedUp(r) = objects
               /\ Own(r, Missing(r)) \subseteq Jobs \X Kinds
               /\ Missing(r) \subseteq Kinds
    <2>1. request[r].job \in Jobs
      BY <1>8, <1>4 DEF At
    <2> QED BY <2>1, <1>8 DEF CleanedUp, Own, Missing, Outputs, Kinds
  <1>9. ASSUME NEW r \in Requests, Store(r) PROVE IInv'
    <2> DEFINE stored == request[r].stored \cup Missing(r)
    <2>1. /\ request[r] # None /\ request[r].step = "storing" /\ At(r, "storing")
          /\ UNCHANGED <<ready, job, artifacts>>
          /\ objects' = objects \cup Own(r, Missing(r))
      BY <1>9 DEF Store, At
    <2>2. request' = [request EXCEPT ![r] = [request[r] EXCEPT !.stored = stored]]
      BY <1>9 DEF Store
    <2>3. ({request[r].job} \X stored) \subseteq objects'
      BY <2>1, <1>0 DEF KnowsItsObjects, Working, Own
    <2>4. objects' \subseteq Jobs \X Kinds /\ objects \subseteq objects'
      BY <2>1, <1>8, <1>0 DEF TypeOK
    <2>5. stored \in SUBSET Kinds
      BY <2>1, <1>4, <1>8
    <2> HIDE DEF stored
    <2>6. [request[r] EXCEPT !.stored = stored] =
            [job |-> request[r].job, step |-> "storing", stored |-> stored,
             gone |-> request[r].gone]
      BY <2>1, <1>4, ChangedRequest
    <2>7. request' = [request EXCEPT ![r] =
            [job |-> request[r].job, step |-> "storing", stored |-> stored,
             gone |-> request[r].gone]]
      BY <2>2, <2>6
    <2>8. request[r].gone \in BOOLEAN
      BY <2>1, <1>4
    <2> QED BY <2>1, <2>3, <2>4, <2>5, <2>7, <2>8, RequestIInv
  <1>10. ASSUME NEW r \in Requests, StoreFails(r) \/ CommitFails(r) PROVE IInv'
    <2>1. /\ request[r] # None /\ request[r].step = "storing" /\ At(r, "storing") /\ Fail(r)
          /\ UNCHANGED <<ready, job, artifacts>>
          /\ objects' = CleanedUp(r) \/ objects' = objects \cup Own(r, Missing(r))
      BY <1>10 DEF StoreFails, CommitFails, At
    <2>2. objects' \subseteq Jobs \X Kinds
      BY <2>1, <1>8, <1>0 DEF TypeOK
    <2> QED BY <2>1, <2>2, <1>8, <1>6
  <1>11. ASSUME NEW r \in Requests, Commit(r) PROVE IInv'
    BY <1>11, PublishIInv DEF Commit
  <1>12. ASSUME NEW r \in Requests, CommitUnanswered(r) PROVE IInv'
    <2>1. At(r, "storing") /\ request[r] # None /\ Missing(r) = {} /\ Publish(request[r].job)
          /\ objects' = CleanedUp(r) /\ UNCHANGED ready /\ (~Reliable \/ request[r].gone)
      BY <1>12 DEF CommitUnanswered, At
    <2> DEFINE after == [request[r] EXCEPT !.step = "failing"]
    <2>2. after \in Request /\ after.job = request[r].job /\ after.step = "failing"
      BY <2>1, <1>4 DEF Request
    <2>3. request' = [request EXCEPT ![r] = after]
      BY <1>12 DEF CommitUnanswered, Fail
    <2> HIDE DEF after
    <2> QED BY <2>1, <2>2, <2>3, <1>8, PublishIInv
  <1>13. ASSUME NEW r \in Requests, FailPrintJob(r) PROVE IInv'
    BY <1>13, FailPrintJobIInv
  <1>14. ASSUME NEW r \in Requests, FailPrintJobFails(r) PROVE IInv'
    <2>1. request' = [q \in Requests |-> IF q \in {r} THEN None ELSE request[q]]
      BY <1>14, <1>0 DEF FailPrintJobFails, TypeOK
    <2> QED BY <1>14, <2>1, EndIInv DEF FailPrintJobFails
  <1>15. ASSUME NEW r \in Requests, Disconnect(r) PROVE IInv'
    <2>1. request' = [request EXCEPT ![r] =
            [job |-> request[r].job, step |-> request[r].step, stored |-> request[r].stored,
             gone |-> TRUE]]
      BY <1>15, <1>4, ChangedRequest DEF Disconnect
    <2>2. request[r].step # "failing" =>
            ({request[r].job} \X request[r].stored) \subseteq objects
      BY <1>15, <1>0 DEF Disconnect, KnowsItsObjects, Working, Own
    <2>3. /\ request[r] # None /\ UNCHANGED <<ready, job, artifacts>>
          /\ objects' \subseteq Jobs \X Kinds /\ objects' = objects
      BY <1>15, <1>0 DEF Disconnect, TypeOK
    <2>4. /\ request[r].step \in {"generating", "storing", "failing"}
          /\ request[r].stored \in SUBSET Kinds /\ TRUE \in BOOLEAN
      BY <2>3, <1>4
    <2> QED BY <2>1, <2>2, <2>3, <2>4, RequestIInv
  <1>16. ASSUME Crash PROVE IInv'
    <2>1. request' = [q \in Requests |-> IF q \in Requests THEN None ELSE request[q]]
      BY <1>16 DEF Crash
    <2> QED BY <1>16, <2>1, EndIInv DEF Crash
  <1>17. ASSUME UNCHANGED vars PROVE IInv'
    BY <1>17 DEF vars, IInv, TypeOK, ReadyIsComplete, OwnsItsJob, IsAlone, KnowsItsObjects,
       Working, Own, ReadyCanBeDownloaded, CanBeDownloaded, IsReady, Outputs
  <1> QED BY <1>1, <1>2, <1>3, <1>5, <1>7, <1>9, <1>10, <1>11, <1>12, <1>13, <1>14, <1>15,
             <1>16, <1>17 DEF Next

(* Every reachable state satisfies the invariant: a request works alone on a job   *)
(* that is undecided until it is through, and knows what it has stored.           *)
THEOREM Invariance == ASSUME NoneIsNew PROVE Spec => []IInv
  BY InitIInv, NextIInv, PTL DEF Spec

(* For any number of batches, print jobs, requests and crashes: the documents of    *)
(* a job are there exactly when it is ready (persistArtifacts, failPrintJob).      *)
THEOREM ReadyJobsAreComplete == ASSUME NoneIsNew PROVE Spec => []ReadyIsComplete
  <1>1. IInv => ReadyIsComplete
    BY DEF IInv
  <1> QED BY <1>1, Invariance, PTL

(* As long as the server runs and the database answers, a job that is ready can     *)
(* be downloaded (DownloadArtifact), though clients go away at any moment.        *)
THEOREM ReadyJobsCanBeDownloaded ==
  ASSUME NoneIsNew, Reliable PROVE Spec => []ReadyCanBeDownloaded
  <1>1. IInv => ReadyCanBeDownloaded
    BY DEF IInv
  <1> QED BY <1>1, Invariance, PTL
=============================================================================
