-------------------------- MODULE UndisturbedProofs --------------------------
(***************************************************************************)
(* Theorems about JobRequestOperator under the conditions of Undisturbed,  *)
(* for every number of requests, reviews and users and for every value of  *)
(* the constants that the conditions leave open.                           *)
(***************************************************************************)
EXTENDS Undisturbed, PeriodicResync, JobRequestOperatorProofs

-----------------------------------------------------------------------------
(* What a step can do to the cache, to the clock and to the review worker.   *)

LEMMA CacheSteps ==
    ASSUME TypeOK, Next, NEW r \in Reviews
    PROVE  revCache'[r] = revCache[r] \/ (revCache'[r] = reviews[r] /\ UNCHANGED <<requests, reviews>>)
<1>1. CASE UNCHANGED revCache
  BY <1>1
<1>2. ASSUME NEW q \in Reviews, SyncReview(q)
      PROVE  revCache'[r] = revCache[r]
                \/ (revCache'[r] = reviews[r] /\ UNCHANGED <<requests, reviews>>)
  BY <1>2 DEF SyncReview, store, TypeOK, ClusterTypeOK
<1>3. CASE Restart
  BY <1>3 DEF Restart, store
<1>4. CASE ClusterNext
  <2>1. CASE UserNext
    BY <1>1, <2>1
    DEF UserNext, CreateRequest, DeleteRequest, EditRequest, CreateReview, EditReview,
        DeleteReview, DeleteJob, CreateForeignJob
  <2>2. CASE KubernetesNext
    BY <1>1, <1>2, <2>2 DEF KubernetesNext, Tick, FinishJob, CollectJob, ResyncRequest, ResyncReview
  <2> QED
    BY <1>4, <2>1, <2>2 DEF ClusterNext
<1>5. CASE ReqWorkerStep \/ \E n \in Requests : ReconcileRequest(n)
  BY <1>1, <1>5
  DEF ReqWorkerStep, PruneRequest, LookUpTarget, CalculateState, CheckNoJob, CreateJob, CheckJob,
      RefreshRequest, SetRequestState, ReconcileRequest, ReqFrame
<1>6. CASE RevWorkerStep \/ \E q \in Reviews : ReconcileReview(q)
  BY <1>1, <1>6
  DEF RevWorkerStep, PruneReview, ListRequest, UpdateRequest, SetReviewState, ReconcileReview,
      RevFrame
<1> QED
  BY <1>3, <1>4, <1>5, <1>6
  DEF Next, RequestWorkerNext, PickRequest, ReviewWorkerNext, PickReview

(* Time stands still, or goes on by one.                                     *)
LEMMA ClockSteps ==
    ASSUME TypeOK, Next
    PROVE  clock \in Nat /\ (UNCHANGED clock \/ clock' = clock + 1)
<1>1. clock \in Nat
  BY ClusterAssumption DEF TypeOK, ClusterTypeOK
<1>2. CASE ClusterNext
  <2>1. CASE UserNext
    <3>1. UNCHANGED clock
      BY <2>1
      DEF UserNext, CreateRequest, DeleteRequest, EditRequest, CreateReview, EditReview,
          DeleteReview, DeleteJob, CreateForeignJob
    <3> QED
      BY <1>1, <3>1
  <2>2. CASE KubernetesNext
    <3>1. UNCHANGED clock \/ Tick
      BY <2>2
      DEF KubernetesNext, FinishJob, CollectJob, ResyncRequest, SyncReview, ResyncReview
    <3> QED
      BY <1>1, <3>1 DEF Tick
  <2> QED
    BY <1>2, <2>1, <2>2 DEF ClusterNext
<1>3. CASE ReqWorkerStep \/ \E n \in Requests : ReconcileRequest(n)
  <2>1. UNCHANGED clock
    BY <1>3
    DEF ReqWorkerStep, PruneRequest, LookUpTarget, CalculateState, CheckNoJob, CreateJob,
        CheckJob, RefreshRequest, SetRequestState, ReconcileRequest, ReqFrame
  <2> QED
    BY <1>1, <2>1
<1>4. CASE RevWorkerStep \/ \E r \in Reviews : ReconcileReview(r)
  <2>1. UNCHANGED clock
    BY <1>4
    DEF RevWorkerStep, PruneReview, ListRequest, UpdateRequest, SetReviewState,
        ReconcileReview, RevFrame
  <2> QED
    BY <1>1, <2>1
<1>5. CASE Restart
  BY <1>1, <1>5 DEF Restart
<1> QED
  BY <1>2, <1>3, <1>4, <1>5
  DEF Next, RequestWorkerNext, PickRequest, ReviewWorkerNext, PickReview

ReviewPicked(r) ==
    /\ Exists(revCache[r])
    /\ revWorker'.key = r /\ revWorker'.obj = revCache[r]
    /\ revWorker'.pc \in {"Delete", "SetState", "ListRequest"}
    /\ revWorker'.pc = "Delete" => Expired(revCache[r])
    /\ revWorker'.to \notin Decisions
    /\ UNCHANGED <<requests, reviews>>

ReviewConsidered ==
    /\ revWorker.pc = "ListRequest" /\ revWorker'.pc \in {"UpdateRequest", "SetState"}
    /\ revWorker'.key = revWorker.key /\ revWorker'.obj = revWorker.obj
    /\ revWorker'.pc = "SetState" => revWorker'.to \notin Decisions
    /\ UNCHANGED <<requests, reviews>>

ReviewApplied ==
    /\ UpdateRequest /\ UNCHANGED reqWorker
    /\ revWorker'.pc = "SetState"
    /\ revWorker'.key = revWorker.key /\ revWorker'.obj = revWorker.obj

(* What a step does to the worker of the review controller and the copy it   *)
(* holds.                                                                    *)
LEMMA ReviewWorkerSteps ==
    ASSUME TypeOK, KeysOK, Next
    PROVE  \/ UNCHANGED revWorker \/ revWorker' = RevIdle
           \/ ReviewConsidered \/ ReviewApplied
           \/ \E r \in Reviews : ReviewPicked(r)
<1> DEFINE Change == \/ UNCHANGED revWorker \/ revWorker' = RevIdle
                     \/ ReviewConsidered \/ ReviewApplied
                     \/ \E r \in Reviews : ReviewPicked(r)
<1> USE DEF TypeOK, RevWorkerTypeOK
<1>1. revWorker \in RevWorkers
  OBVIOUS
<1>2. ASSUME NEW retry, FinishReview(retry)
      PROVE  Change
  BY <1>2 DEF FinishReview
<1>3. ASSUME NEW r \in Reviews, ReconcileReview(r)
      PROVE  Change
  <2>1. UNCHANGED <<requests, reviews>>
    BY <1>3 DEF ReconcileReview
  <2>2. CASE Exists(revCache[r]) /\ StartOfReview(r, revCache[r])
    <3>1. ASSUME NEW pc \in {"Delete", "SetState", "ListRequest"},
                 NEW to \in {"", "JobRequestMalformed"},
                 HoldReview(r, revCache[r], pc, to)
          PROVE  /\ revWorker'.key = r /\ revWorker'.obj = revCache[r] /\ revWorker'.pc = pc
                 /\ revWorker'.to \notin Decisions
      BY <3>1 DEF HoldReview, RevIdle, Decisions
    <3>2. CASE UNCHANGED revWorker
      BY <3>2
    <3>3. CASE Expired(revCache[r]) /\ HoldReview(r, revCache[r], "Delete", "")
      BY <2>1, <2>2, <3>1, <3>3 DEF ReviewPicked
    <3>4. CASE \/ HoldReview(r, revCache[r], "SetState", "JobRequestMalformed")
               \/ HoldReview(r, revCache[r], "ListRequest", "")
      BY <2>1, <2>2, <3>1, <3>4 DEF ReviewPicked
    <3> QED
      BY <2>2, <3>2, <3>3, <3>4 DEF StartOfReview
  <2> QED
    BY <1>3, <2>2 DEF ReconcileReview
<1>4. ASSUME ListRequest
      PROVE  Change
  <2> DEFINE req == requests[revWorker.obj.request]
  <2>1. UNCHANGED <<requests, reviews>> /\ revWorker.pc = "ListRequest"
    BY <1>4 DEF ListRequest
  <2>2. ASSUME NEW to \in {"JobRequestMalformed", "Conflict", "JobRequestNotFound"},
               NEW retry \in BOOLEAN, ThenSetReviewState(to, retry)
        PROVE  Change
    BY <1>1, <2>1, <2>2 DEF ThenSetReviewState, ReviewConsidered, RevWorkers, Decisions
  <2>3. CASE revWorker' = [revWorker EXCEPT !.pc = "UpdateRequest", !.req = req]
    <3> HIDE DEF req
    <3> QED
      BY <1>1, <2>1, <2>3 DEF ReviewConsidered, RevWorkers
  <2>4. CASE HandleRequest(req)
    <3> HIDE DEF req
    <3>1. CASE ReviewPending(req)
      BY <2>2, <2>3, <3>1 DEF ReviewPending
    <3> QED
      BY <1>2, <2>2, <2>4, <3>1 DEF HandleRequest
  <2> QED
    BY <1>2, <1>4, <2>2, <2>4 DEF ListRequest
<1>5. ASSUME UpdateRequest, UNCHANGED reqWorker
      PROVE  Change
  <2>1. ThenSetReviewState(revWorker.obj.decision, FALSE)
    BY <1>5, Zenon DEF UpdateRequest
  <2>2. /\ revWorker'.pc = "SetState" /\ revWorker'.key = revWorker.key
        /\ revWorker'.obj = revWorker.obj
    BY <1>1, <2>1 DEF ThenSetReviewState, RevWorkers
  <2> QED
    BY <1>5, <2>2 DEF ReviewApplied
<1>6. CASE (RevWorkerStep \/ \E r \in Reviews : ReconcileReview(r)) /\ UNCHANGED reqWorker
  BY <1>2, <1>3, <1>4, <1>5, <1>6 DEF RevWorkerStep, PruneReview, SetReviewState
<1>7. CASE Restart
  BY <1>7 DEF Restart
<1> QED
  BY <1>6, <1>7
  DEF Next, RequestWorkerNext, PickRequest, ReviewWorkerNext, PickReview, workers

-----------------------------------------------------------------------------
(* What holds in general. *)

LEMMA HeldCopyNext ==
    ASSUME TypeOK, KeysOK, VersionsOK, WritesOK, HeldCopyOK, Next
    PROVE  HeldCopyOK'
<1> SUFFICES ASSUME ReqBusy', Current(reqWorker.obj, requests[reqWorker.key])'
             PROVE  reqWorker'.obj =
                        IF reqWorker'.pc = "SetState" /\ reqWorker'.to = "Started"
                        THEN [requests'[reqWorker'.key] EXCEPT !.jobName = reqWorker'.key]
                        ELSE requests'[reqWorker'.key]
  BY DEF HeldCopyOK
<1> DEFINE n == reqWorker.key
<1>1. ASSUME ReqBusy, reqWorker'.key = n, reqWorker'.obj.rv = reqWorker.obj.rv
      PROVE  requests'[n] = requests[n] /\ Current(reqWorker.obj, requests[n])
  <2>1. n \in Requests
    BY <1>1 DEF KeysOK
  <2>2. reqWorker.obj.rv \in Nat /\ reqWorker.obj.rv <= requests[n].rv
    BY <1>1 DEF VersionsOK, TypeOK, ReqWorkerTypeOK, ReqWorkers, JobRequest
  <2>3. Exists(requests'[n]) /\ requests'[n].rv = reqWorker.obj.rv
    BY <1>1 DEF Current, Exists
  <2>4. /\ requests[n].rv \in Nat /\ requests[n].rv <= requests'[n].rv
        /\ requests'[n].rv = requests[n].rv => requests'[n] = requests[n]
    BY <2>1, VersionsGrow
  <2>5. requests'[n].rv = requests[n].rv
    BY <2>2, <2>3, <2>4
  <2> QED
    BY <2>3, <2>4, <2>5 DEF Current
<1>2. CASE UNCHANGED reqWorker
  <2>1. ReqBusy
    BY <1>2 DEF ReqBusy
  <2>2. requests'[n] = requests[n] /\ Current(reqWorker.obj, requests[n])
    BY <1>1, <1>2, <2>1
  <2> QED
    BY <1>2, <2>1, <2>2 DEF HeldCopyOK
<1>3. CASE reqWorker' = ReqIdle
  BY <1>3 DEF ReqBusy, ReqIdle
<1>4. CASE WorkerMoves
  <2>1. ReqBusy /\ reqWorker.pc # "SetState" /\ reqWorker'.key = n
    BY <1>4 DEF WorkerMoves, ReqBusy
  <2>2. requests'[n] = requests[n] /\ Current(reqWorker.obj, requests[n])
    BY <1>1, <1>4, <2>1 DEF WorkerMoves
  <2>3. reqWorker.obj = requests[n]
    BY <2>1, <2>2 DEF HeldCopyOK
  <2>4. MovedFor
    BY <1>4 DEF WorkerMoves
  <2> QED
    BY <2>1, <2>2, <2>3, <2>4 DEF MovedFor
<1>5. CASE WorkerRefreshes
  BY <1>5 DEF WorkerRefreshes, WritesOK
<1>6. CASE \E m \in Requests : WorkerPicks(m)
  BY <1>6 DEF WorkerPicks
<1> QED
  BY <1>2, <1>3, <1>4, <1>5, <1>6, ReqWorkerChanges

(* A copy of a review stays a copy of it.                                    *)
LEMMA ReviewCopyStays ==
    ASSUME TypeOK, KeysOK, Next, NEW r \in Reviews, NEW copy \in JobRequestReview,
           reviews[r].uid <= reviews[r].rv, SameReview(copy, reviews[r])
    PROVE  reviews'[r].uid <= reviews'[r].rv /\ SameReview(copy, reviews'[r])
<1>1. reviews[r] \in JobRequestReview
  BY DEF TypeOK, ClusterTypeOK
<1>2. reviews[r].uid \in Nat /\ reviews[r].rv \in Nat /\ copy.uid \in Nat
  BY <1>1 DEF JobRequestReview
<1>3. CASE ReviewKept(r)
  BY <1>3 DEF ReviewKept
<1>4. CASE ReviewCreated(r)
  <2>1. reviews'[r].uid = reviews[r].rv + 1 /\ reviews'[r].rv = reviews[r].rv + 1
    BY <1>4 DEF ReviewCreated
  <2>2. copy.uid <= reviews[r].rv
    BY DEF SameReview
  <2>3. copy.uid # reviews'[r].uid /\ copy.uid <= reviews'[r].rv
    BY <1>2, <2>1, <2>2
  <2> QED
    BY <1>2, <2>1, <2>3 DEF SameReview
<1>5. CASE ReviewGone(r)
  <2>1. reviews'[r].uid = 0 /\ reviews'[r].rv = reviews[r].rv + 1
    BY <1>5, Zenon DEF ReviewGone
  <2> QED
    BY <1>2, <2>1 DEF SameReview, Exists
<1>6. CASE ReviewEdited(r)
  BY <1>2, <1>6 DEF ReviewEdited, SameReview
<1>7. CASE ReviewSet(r)
  BY <1>2, <1>7 DEF ReviewSet, SameReview
<1> QED
  BY <1>3, <1>4, <1>5, <1>6, <1>7, ReviewSteps

(* A step that changes a review changes its version.                         *)
LEMMA ReviewCopiesNext ==
    ASSUME TypeOK, KeysOK, ReviewCopiesOK, Next
    PROVE  ReviewCopiesOK'
<1>1. \A r \in Reviews : revCache[r] \in JobRequestReview
  BY DEF TypeOK, ClusterTypeOK
<1>2. revWorker.obj \in JobRequestReview
  BY DEF TypeOK, RevWorkerTypeOK, RevWorkers
<1>3. ASSUME NEW r \in Reviews
      PROVE  /\ reviews'[r].uid <= reviews'[r].rv
             /\ SameReview(revCache[r], reviews'[r])
             /\ SameReview(revCache'[r], reviews'[r])
  <2>1. reviews[r].uid <= reviews[r].rv /\ SameReview(revCache[r], reviews[r])
    BY DEF ReviewCopiesOK
  <2>2. reviews'[r].uid <= reviews'[r].rv /\ SameReview(revCache[r], reviews'[r])
    BY <1>1, <2>1, ReviewCopyStays
  <2>3. CASE revCache'[r] = revCache[r]
    BY <2>2, <2>3
  <2>4. CASE revCache'[r] = reviews[r] /\ UNCHANGED <<requests, reviews>>
    BY <2>2, <2>4 DEF SameReview
  <2> QED
    BY <2>2, <2>3, <2>4, CacheSteps
<1>4. ASSUME revWorker'.pc # "Idle"
      PROVE  SameReview(revWorker'.obj, reviews'[revWorker'.key])
  <2>1. ASSUME revWorker.pc # "Idle", revWorker'.key = revWorker.key,
               revWorker'.obj = revWorker.obj
        PROVE  SameReview(revWorker'.obj, reviews'[revWorker'.key])
    <3>1. revWorker.key \in Reviews
      BY <2>1 DEF KeysOK
    <3>2. /\ reviews[revWorker.key].uid <= reviews[revWorker.key].rv
          /\ SameReview(revWorker.obj, reviews[revWorker.key])
      BY <2>1, <3>1 DEF ReviewCopiesOK
    <3> QED
      BY <1>2, <2>1, <3>1, <3>2, ReviewCopyStays
  <2>2. CASE UNCHANGED revWorker
    BY <1>4, <2>1, <2>2
  <2>3. CASE revWorker' = RevIdle
    BY <1>4, <2>3 DEF RevIdle
  <2>4. CASE ReviewConsidered
    BY <2>1, <2>4 DEF ReviewConsidered
  <2>5. CASE ReviewApplied
    BY <2>1, <2>5 DEF ReviewApplied, UpdateRequest
  <2>6. CASE \E r \in Reviews : ReviewPicked(r)
    BY <1>3, <2>6 DEF ReviewPicked
  <2> QED
    BY <2>2, <2>3, <2>4, <2>5, <2>6, ReviewWorkerSteps
<1> QED
  BY <1>3, <1>4 DEF ReviewCopiesOK

(* What has expired stays expired.                                           *)
LEMMA ExpiryStays ==
    ASSUME TypeOK, Next, NEW object, object.created \in Nat, Expired(object)
    PROVE  clock' - object.created >= ResourceTtl
<1>1. ResourceTtl \in Nat
  BY ClusterAssumption
<1> QED
  BY <1>1, ClockSteps DEF Expired

(* What a worker is about to do is decided on the copy it holds.             *)
LEMMA PlansNext ==
    ASSUME TypeOK, KeysOK, WritesOK, PlansOK, Next
    PROVE  PlansOK'
<1>0. ReqIdle.pc = "Idle" /\ RevIdle.pc = "Idle"
  BY DEF ReqIdle, RevIdle
<1>1. reqWorker.obj \in JobRequest /\ revWorker.obj \in JobRequestReview
  BY DEF TypeOK, ReqWorkerTypeOK, ReqWorkers, RevWorkerTypeOK, RevWorkers
<1>2. reqWorker.obj.created \in Nat /\ revWorker.obj.created \in Nat
  BY <1>1 DEF JobRequest, JobRequestReview
<1>3. ASSUME reqWorker'.pc = "Delete"
      PROVE  clock' - reqWorker'.obj.created >= ResourceTtl
  <2>1. CASE UNCHANGED reqWorker
    BY <1>2, <1>3, <2>1, ExpiryStays DEF PlansOK, ReqBusy
  <2>2. CASE \E n \in Requests : WorkerPicks(n)
    <3>1. PICK n \in Requests : WorkerPicks(n)
      BY <2>2
    <3>2. reqWorker'.obj = requests[n] /\ Expired(requests[n])
      BY <1>3, <3>1 DEF WorkerPicks, PickedFor
    <3>3. requests[n].created \in Nat
      BY DEF TypeOK, ClusterTypeOK, JobRequest
    <3> QED
      BY <3>2, <3>3, ExpiryStays
  <2> QED
    BY <1>0, <1>3, <2>1, <2>2, ReqWorkerChanges DEF WorkerMoves, WorkerRefreshes
<1>4. ASSUME revWorker'.pc = "Delete"
      PROVE  clock' - revWorker'.obj.created >= ResourceTtl
  <2>1. CASE UNCHANGED revWorker
    BY <1>2, <1>4, <2>1, ExpiryStays DEF PlansOK
  <2>2. CASE \E r \in Reviews : ReviewPicked(r)
    <3>1. PICK r \in Reviews : ReviewPicked(r)
      BY <2>2
    <3>2. revWorker'.obj = revCache[r] /\ Expired(revCache[r])
      BY <1>4, <3>1 DEF ReviewPicked
    <3>3. revCache[r].created \in Nat
      BY DEF TypeOK, ClusterTypeOK, JobRequestReview
    <3> QED
      BY <3>2, <3>3, ExpiryStays
  <2> QED
    BY <1>0, <1>4, <2>1, <2>2, ReviewWorkerSteps DEF ReviewConsidered, ReviewApplied
<1>5. /\ reqWorker'.pc = "GetJob" => reqWorker'.obj.state \in {"Approved", "Started"}
      /\ reqWorker'.pc = "GetAgain" => reqWorker'.obj.state = "Started"
      /\ (reqWorker'.pc = "SetState" /\ reqWorker'.to \in {"Started", "Conflicted"})
            => reqWorker'.obj.state = "Approved"
  <2>1. CASE UNCHANGED reqWorker
    BY <2>1 DEF PlansOK
  <2>2. CASE reqWorker' = ReqIdle
    BY <2>2 DEF ReqIdle
  <2>3. CASE WorkerMoves
    BY <2>3 DEF WorkerMoves, MovedFor, WritesOK
  <2>4. CASE WorkerRefreshes
    BY <2>4 DEF WorkerRefreshes, WritesOK
  <2>5. CASE \E n \in Requests : WorkerPicks(n)
    BY <2>5 DEF WorkerPicks
  <2> QED
    BY <2>1, <2>2, <2>3, <2>4, <2>5, ReqWorkerChanges
<1> QED
  BY <1>3, <1>4, <1>5 DEF PlansOK, Expired

(* Deletion leaves no state behind.                                          *)
LEMMA StoredStatesNext ==
    ASSUME TypeOK, KeysOK, StoredStatesOK, Next
    PROVE  StoredStatesOK'
<1>1. ASSUME NEW n \in Requests, requests'[n].state # ""
      PROVE  requests'[n].uid # 0
  BY <1>1, RequestSteps
  DEF StoredStatesOK, RequestKept, RequestCreated, RequestGone, RequestEdited, RequestDecided,
      RequestSet, Exists, Current
<1>2. ASSUME NEW r \in Reviews, reviews'[r].state # ""
      PROVE  reviews'[r].uid # 0
  BY <1>2, ReviewSteps
  DEF StoredStatesOK, ReviewKept, ReviewCreated, ReviewGone, ReviewEdited, ReviewSet, Exists,
      Current
<1> QED
  BY <1>1, <1>2 DEF StoredStatesOK, Exists

(* The general parts hold of an empty cluster.                               *)
LEMMA GeneralInit == Init => HeldCopyOK /\ ReviewCopiesOK /\ PlansOK /\ StoredStatesOK
<1> SUFFICES ASSUME Init PROVE HeldCopyOK /\ ReviewCopiesOK /\ PlansOK /\ StoredStatesOK
  OBVIOUS
<1>1. reqWorker.pc = "Idle" /\ revWorker.pc = "Idle"
  BY DEF Init, ReqWorkerInit, RevWorkerInit, ReqIdle, RevIdle
<1>2. \A r \in Reviews : reviews[r] = NoReview(0) /\ revCache[r] = NoReview(0)
  BY DEF Init, ClusterInit
<1>3. NoReview(0).uid = 0 /\ NoReview(0).rv = 0 /\ NoReview(0).state = ""
  BY DEF NoReview
<1>4. \A n \in Requests : requests[n].state = ""
  BY DEF Init, ClusterInit, NoRequest
<1>5. StoredStatesOK
  BY <1>2, <1>3, <1>4 DEF StoredStatesOK
<1>6. ReviewCopiesOK
  <2>1. SameReview(NoReview(0), NoReview(0))
    BY DEF SameReview, Exists, NoReview
  <2>2. \A r \in Reviews : reviews[r].uid = 0 /\ reviews[r].rv = 0
    BY <1>2, <1>3
  <2> QED
    BY <1>1, <1>2, <2>1, <2>2 DEF ReviewCopiesOK
<1> QED
  BY <1>1, <1>5, <1>6 DEF HeldCopyOK, PlansOK, ReqBusy

-----------------------------------------------------------------------------
(* Only the operator deletes requests. *)

LEMMA OnlyTheHeldGoes ==
    ASSUME OnlyOperatorDeletes, TypeOK, KeysOK, Next,
           NEW n \in Requests, Exists(requests[n]), requests'[n].uid # requests[n].uid
    PROVE  reqWorker.pc = "Delete" /\ n = reqWorker.key /\ reqWorker' = ReqIdle
<1>1. requests \in [Requests -> JobRequest]
  BY DEF TypeOK, ClusterTypeOK
<1>2. /\ ~UNCHANGED requests
      /\ ~(RequestKept(n) \/ RequestCreated(n) \/ RequestEdited(n) \/ RequestDecided(n)
             \/ RequestSet(n))
  BY DEF RequestKept, RequestCreated, RequestEdited, RequestDecided, RequestSet
<1>3. CASE ClusterNext
  <2>1. ASSUME NEW m \in Requests, EditRequest(m)
        PROVE  FALSE
    BY <1>1, <2>1 DEF EditRequest, JobRequest
  <2>2. ASSUME NEW m \in Requests, NEW by \in RequesterAnnotations, CreateRequest(m, by)
        PROVE  FALSE
    BY <1>1, <2>2 DEF CreateRequest
  <2>3. ASSUME NEW m \in Requests, DeleteRequest(m)
        PROVE  FALSE
    BY <2>3 DEF DeleteRequest, Allowed, OnlyOperatorDeletes
  <2>4. CASE UserNext
    BY <1>2, <2>1, <2>2, <2>3, <2>4
    DEF UserNext, CreateReview, EditReview, DeleteReview, DeleteJob, CreateForeignJob
  <2>5. CASE KubernetesNext
    BY <1>2, <2>5
    DEF KubernetesNext, Tick, FinishJob, CollectJob, ResyncRequest, SyncReview, ResyncReview,
        store
  <2> QED
    BY <1>3, <2>4, <2>5 DEF ClusterNext
<1>4. CASE ReqWorkerStep \/ \E m \in Requests : ReconcileRequest(m)
  <2>1. PruneRequest \/ SetRequestState
    BY <1>2, <1>4
    DEF ReqWorkerStep, LookUpTarget, CalculateState, CheckNoJob, CreateJob, CheckJob,
        RefreshRequest, ReconcileRequest, NoWrite, store
  <2>2. CASE PruneRequest
    <3>1. RequestDeleted(reqWorker.key)
      BY <1>2, <2>2, Zenon DEF PruneRequest
    <3>2. reqWorker' = ReqIdle /\ reqWorker.pc = "Delete"
      BY <2>2, Zenon DEF PruneRequest, Finish
    <3> QED
      BY <1>1, <3>1, <3>2 DEF RequestDeleted
  <2>3. CASE SetRequestState
    <3> DEFINE m == reqWorker.key
               copy == [reqWorker.obj EXCEPT !.state = reqWorker.to]
    <3>1. requests' = [requests EXCEPT ![m] = RequestStatusUpdated(requests[m], copy)]
      BY <1>2, <2>3, Zenon DEF SetRequestState
    <3>2. m \in Requests /\ copy \in JobRequest
      BY <2>3
      DEF SetRequestState, KeysOK, ReqBusy, TypeOK, ReqWorkerTypeOK, ReqWorkers, JobRequest
    <3> HIDE DEF copy
    <3>3. RequestStatusUpdated(requests[m], copy).uid = requests[m].uid
      BY <1>1, <3>2, WrittenFields
    <3> QED
      BY <1>1, <3>1, <3>2, <3>3
  <2> QED
    BY <2>1, <2>2, <2>3
<1>5. CASE (RevWorkerStep \/ \E r \in Reviews : ReconcileReview(r)) /\ UNCHANGED reqWorker
  <2>1. UpdateRequest
    BY <1>2, <1>5
    DEF RevWorkerStep, PruneReview, ListRequest, SetReviewState, ReconcileReview
  <2> DEFINE m == revWorker.obj.request
             copy == Decided(revWorker.req, revWorker.key, revWorker.obj.decision)
  <2>2. requests' = [requests EXCEPT ![m] = RequestStatusUpdated(requests[m], copy)]
    BY <1>2, <2>1, Zenon DEF UpdateRequest
  <2>3. m \in Requests /\ copy \in JobRequest
    <3>1. /\ revWorker.req \in JobRequest /\ revWorker.obj.decision \in JobRequestStates
          /\ revWorker.key \in Reviews
      BY <2>1
      DEF TypeOK, RevWorkerTypeOK, RevWorkers, KeysOK, UpdateRequest, JobRequestReview,
          Decisions, JobRequestStates
    <3> QED
      BY <2>1, <3>1 DEF Decided, JobRequest, UpdateRequest, KeysOK
  <2> HIDE DEF copy
  <2>4. RequestStatusUpdated(requests[m], copy).uid = requests[m].uid
    BY <1>1, <2>3, WrittenFields
  <2> QED
    BY <1>1, <2>2, <2>3, <2>4
<1>6. CASE Restart
  BY <1>2, <1>6 DEF Restart, store
<1> QED
  BY <1>3, <1>4, <1>5, <1>6
  DEF Next, RequestWorkerNext, PickRequest, ReviewWorkerNext, PickReview

(* Nobody but its worker takes the held request away.                        *)
LEMMA HeldIsThereNext ==
    ASSUME OnlyOperatorDeletes, TypeOK, KeysOK, HeldIsThere, Next
    PROVE  HeldIsThere'
<1> SUFFICES ASSUME ReqBusy'
             PROVE  /\ Exists(requests'[reqWorker'.key])
                    /\ requests'[reqWorker'.key].uid = reqWorker'.obj.uid
                    /\ requests'[reqWorker'.key].created = reqWorker'.obj.created
                    /\ requests'[reqWorker'.key].by = reqWorker'.obj.by
  BY DEF HeldIsThere, Exists
<1> DEFINE n == reqWorker.key
<1>1. CASE UNCHANGED reqWorker
  <2>1. ReqBusy /\ n \in Requests
    BY <1>1 DEF ReqBusy, KeysOK
  <2>2. Exists(requests[n]) /\ reqWorker' # ReqIdle
    <3>1. ReqIdle.pc = "Idle"
      BY DEF ReqIdle
    <3> QED
      BY <1>1, <2>1, <3>1 DEF HeldIsThere, ReqBusy
  <2>3. requests'[n].uid = requests[n].uid
    BY <2>1, <2>2, OnlyTheHeldGoes
  <2>4. OwnFieldsStay(n)
    BY <2>1, <2>2, <2>3, RequestSteps
    DEF RequestKept, RequestCreated, RequestGone, RequestEdited, RequestDecided, RequestSet,
        OwnFieldsStay, Exists
  <2> QED
    BY <1>1, <2>1, <2>2, <2>3, <2>4 DEF HeldIsThere, OwnFieldsStay, Exists
<1>2. CASE reqWorker' = ReqIdle
  BY <1>2 DEF ReqBusy, ReqIdle
<1>3. CASE WorkerMoves
  <2>1. /\ ReqBusy /\ reqWorker'.key = n /\ UNCHANGED requests
        /\ reqWorker'.obj.uid = reqWorker.obj.uid
    BY <1>3 DEF WorkerMoves, ReqBusy
  <2>2. /\ reqWorker'.obj.created = reqWorker.obj.created
        /\ reqWorker'.obj.by = reqWorker.obj.by
    <3>1. reqWorker.obj \in JobRequest
      BY DEF TypeOK, ReqWorkerTypeOK, ReqWorkers
    <3>2. \/ reqWorker'.obj = reqWorker.obj
          \/ reqWorker'.obj = [reqWorker.obj EXCEPT !.jobName = reqWorker.key]
      BY <1>3 DEF WorkerMoves, MovedFor
    <3> QED
      BY <3>1, <3>2 DEF JobRequest
  <2> QED
    BY <2>1, <2>2 DEF HeldIsThere
<1>4. CASE WorkerRefreshes
  BY <1>4 DEF WorkerRefreshes
<1>5. CASE \E m \in Requests : WorkerPicks(m)
  BY <1>5 DEF WorkerPicks
<1> QED
  BY <1>1, <1>2, <1>3, <1>4, <1>5, ReqWorkerChanges

(* The outcome of a Job is written to the request that was approved.         *)
LEMMA OutcomesNext ==
    ASSUME IInv, PlansOK, HeldIsThere, OutcomesOK, Next
    PROVE  OutcomesOK'
<1> SUFFICES ASSUME reqWorker'.pc = "SetState", reqWorker'.to \in {"Complete", "Failed"}
             PROVE  <<reqWorker'.key, reqWorker'.obj.uid>> \in approved'
  BY DEF OutcomesOK
<1>1. approved \subseteq approved'
  BY HistoryGrows
<1>2. CASE UNCHANGED reqWorker
  BY <1>1, <1>2 DEF OutcomesOK
<1>3. CASE reqWorker' = ReqIdle
  BY <1>3 DEF ReqIdle
<1>4. CASE WorkerMoves
  BY <1>4 DEF WorkerMoves, MovedFor
<1>5. CASE WorkerRefreshes
  <2>1. InPart /\ reqWorker.obj.state = "Started"
    BY <1>5 DEF WorkerRefreshes, PlansOK, InPart, ReqBusy
  <2>2. <<reqWorker.key, reqWorker.obj.uid>> \in approved
    BY <2>1 DEF IInv, SafetyInv, ApprovalsOK
  <2>3. reqWorker'.key = reqWorker.key /\ reqWorker'.obj.uid = reqWorker.obj.uid
    BY <1>5, <2>1 DEF WorkerRefreshes, HeldIsThere, InPart
  <2> QED
    BY <1>1, <2>2, <2>3
<1>6. CASE \E m \in Requests : WorkerPicks(m)
  BY <1>6 DEF WorkerPicks
<1> QED
  BY <1>2, <1>3, <1>4, <1>5, <1>6, ReqWorkerChanges DEF IInv

(* A state that counts as approved is entered from one that was.             *)
LEMMA EarnedNext ==
    ASSUME IInv, PlansOK, OutcomesOK, ApprovedStatesAreEarned, Next, IInv'
    PROVE  ApprovedStatesAreEarned'
<1> SUFFICES ASSUME NEW n \in Requests, HasBeenApproved(requests'[n])
             PROVE  <<n, requests'[n].uid>> \in approved'
  BY DEF ApprovedStatesAreEarned, HasBeenApproved, HasBeenReviewed, HasBeenRejected
<1>1. approved \subseteq approved'
  BY HistoryGrows
<1>2. requests'[n].state \in {"Approved", "Started", "Complete", "Failed", "Conflicted"}
  <2>1. requests'[n].state \in JobRequestStates
    BY DEF IInv, TypeOK, ClusterTypeOK, JobRequest
  <2> QED
    BY <2>1 DEF HasBeenApproved, HasBeenReviewed, HasBeenRejected, JobRequestStates
<1>3. CASE requests'[n].state \in {"Approved", "Started"}
  BY <1>3 DEF IInv, SafetyInv, ApprovalsOK
<1>4. CASE requests'[n].state \in {"Complete", "Failed", "Conflicted"}
  <2>1. CASE RequestKept(n) \/ RequestEdited(n)
    BY <1>1, <1>4, <2>1
    DEF RequestKept, RequestEdited, ApprovedStatesAreEarned, HasBeenApproved, HasBeenReviewed,
        HasBeenRejected
  <2>2. ~RequestCreated(n) /\ ~RequestGone(n)
    BY <1>4 DEF RequestCreated, RequestGone
  <2>3. ~RequestDecided(n)
    BY <1>4
    DEF RequestDecided, IInv, TypeOK, RevWorkerTypeOK, RevWorkers, JobRequestReview, Decisions
  <2>4. CASE RequestSet(n)
    <3>1. /\ reqWorker.pc = "SetState" /\ n = reqWorker.key
          /\ requests'[n].state = reqWorker.to
          /\ requests'[n].uid = requests[n].uid /\ Current(reqWorker.obj, requests[n])
      BY <2>4 DEF RequestSet
    <3>2. requests'[n].uid = reqWorker.obj.uid
      BY <3>1 DEF IInv, SafetyInv, CopiesOK, ReqBusy
    <3>3. CASE reqWorker.to \in {"Complete", "Failed"}
      BY <1>1, <3>1, <3>2, <3>3 DEF OutcomesOK
    <3>4. CASE reqWorker.to = "Conflicted"
      BY <1>1, <3>1, <3>2, <3>4
      DEF PlansOK, IInv, SafetyInv, ApprovalsOK, InPart, ReqBusy
    <3> QED
      BY <1>4, <3>1, <3>3, <3>4
  <2> QED
    BY <2>1, <2>2, <2>3, <2>4, RequestSteps DEF IInv
<1> QED
  BY <1>2, <1>3, <1>4

(* Every step keeps the invariant.                                           *)
LEMMA EarnedInvNext ==
    ASSUME OnlyOperatorDeletes, EarnedInv, Next
    PROVE  EarnedInv'
<1>1. /\ IInv /\ HeldCopyOK /\ ReviewCopiesOK /\ PlansOK /\ StoredStatesOK
      /\ HeldIsThere /\ OutcomesOK /\ ApprovedStatesAreEarned
      /\ TypeOK /\ KeysOK /\ VersionsOK /\ WritesOK
  BY DEF EarnedInv, IInv, SafetyInv
<1>2. IInv'
  BY <1>1, TypeNext, SafetyNext DEF IInv
<1>3. HeldCopyOK' /\ ReviewCopiesOK' /\ PlansOK' /\ StoredStatesOK'
  BY <1>1, HeldCopyNext, ReviewCopiesNext, PlansNext, StoredStatesNext
<1>4. HeldIsThere' /\ OutcomesOK'
  BY <1>1, HeldIsThereNext, OutcomesNext
<1>5. ApprovedStatesAreEarned'
  BY <1>1, <1>2, EarnedNext
<1> QED
  BY <1>2, <1>3, <1>4, <1>5 DEF EarnedInv

(* The invariant holds of an empty cluster.                                  *)
LEMMA EarnedInvInit == Init => EarnedInv
<1> SUFFICES ASSUME Init PROVE EarnedInv
  OBVIOUS
<1>1. IInv
  BY TypeInit, SafetyInit DEF IInv
<1>2. reqWorker.pc = "Idle" /\ ~ReqBusy
  BY DEF Init, ReqWorkerInit, ReqIdle, ReqBusy
<1>3. \A n \in Requests : requests[n].state = ""
  BY DEF Init, ClusterInit, NoRequest
<1> QED
  BY <1>1, <1>2, <1>3, GeneralInit
  DEF EarnedInv, HeldIsThere, OutcomesOK, ApprovedStatesAreEarned, HasBeenApproved,
      HasBeenReviewed

(* The invariant does not depend on what a stuttering step leaves alone.     *)
LEMMA EarnedInvStays == EarnedInv /\ UNCHANGED vars => EarnedInv'
<1> SUFFICES ASSUME EarnedInv, UNCHANGED vars PROVE EarnedInv'
  OBVIOUS
<1>1. UNCHANGED <<requests, reviews, revCache, clock, reqWorker, revWorker, approved>>
  BY DEF vars, clusterVars, store, workers, history
<1>2. IInv'
  BY TypeNext, SafetyNext DEF EarnedInv, IInv
<1> QED
  BY <1>1, <1>2
  DEF EarnedInv, HeldCopyOK, ReviewCopiesOK, SameReview, PlansOK, StoredStatesOK,
      HeldIsThere, OutcomesOK, ApprovedStatesAreEarned, ReqBusy, Current, Exists, Expired,
      HasBeenApproved, HasBeenReviewed, HasBeenRejected

(* Unless users delete it, the request a worker holds is there, and is the   *)
(* one it read; and what it is about to do was decided on that one.          *)
THEOREM EarnedInvariant ==
    ASSUME OnlyOperatorDeletes
    PROVE  Spec => []EarnedInv
<1>1. Init => EarnedInv
  BY EarnedInvInit
<1>2. EarnedInv /\ [Next]_vars => EarnedInv'
  BY EarnedInvStays, EarnedInvNext
<1> QED
  BY <1>1, <1>2, PTL DEF Spec

(* A request with a state that HasBeenApproved counts as approved has been   *)
(* approved by another user than its requester, unless users delete          *)
(* requests: the outcome of a Job is written to a copy that is read again,   *)
(* of whatever request has the name then.                                    *)
THEOREM ApprovedStatesFollowApproval ==
    ASSUME OnlyOperatorDeletes
    PROVE  Spec => []ApprovedStatesAreEarned
<1>1. EarnedInv => ApprovedStatesAreEarned
  BY DEF EarnedInv
<1> QED
  BY <1>1, EarnedInvariant, PTL

(* The Delete of a review is the one step its worker takes then.             *)
LEMMA OnlyThePrunerMoves ==
    ASSUME Next, revWorker.pc = "Delete", revWorker' # revWorker
    PROVE  PruneReview \/ UNCHANGED reviews
<1>1. CASE RevWorkerStep
  BY <1>1 DEF RevWorkerStep, ListRequest, UpdateRequest, SetReviewState
<1>2. CASE Restart
  BY <1>2 DEF Restart, store
<1> QED
  BY <1>1, <1>2
  DEF Next, RequestWorkerNext, PickRequest, ReviewWorkerNext, PickReview, ReconcileReview,
      workers

(* A worker that prunes removes the object it read, which is old.            *)
LEMMA PrunedWhenOld ==
    ASSUME OnlyOperatorDeletes, EarnedInv, Next
    PROVE  /\ \A n \in Requests :
                 (reqWorker.pc = "Delete" /\ reqWorker' # reqWorker
                    /\ Exists(requests[n]) /\ ~Exists(requests'[n]))
                     => clock - requests[n].created >= ResourceTtl
           /\ \A r \in Reviews :
                 (revWorker.pc = "Delete" /\ revWorker' # revWorker
                    /\ Exists(reviews[r]) /\ ~Exists(reviews'[r]))
                     => \/ clock - reviews[r].created >= ResourceTtl
                        \/ reviews[r].uid # revWorker.obj.uid
<1>1. ASSUME NEW n \in Requests,
             reqWorker.pc = "Delete", reqWorker' # reqWorker,
             Exists(requests[n]), ~Exists(requests'[n])
      PROVE  clock - requests[n].created >= ResourceTtl
  <2>1. Next /\ TypeOK /\ KeysOK /\ PlansOK /\ HeldIsThere
    BY DEF EarnedInv, IInv
  <2>2. requests'[n].uid # requests[n].uid
    BY <1>1 DEF Exists
  <2>3. n = reqWorker.key
    BY <1>1, <2>1, <2>2, OnlyTheHeldGoes
  <2>4. requests[n].created = reqWorker.obj.created
    BY <1>1, <2>1, <2>3 DEF HeldIsThere, ReqBusy
  <2> QED
    BY <1>1, <2>1, <2>4 DEF PlansOK, ReqBusy, Expired
<1>2. ASSUME NEW r \in Reviews,
             revWorker.pc = "Delete", revWorker' # revWorker,
             Exists(reviews[r]), ~Exists(reviews'[r]),
             reviews[r].uid = revWorker.obj.uid
      PROVE  clock - reviews[r].created >= ResourceTtl
  <2>1. Next /\ TypeOK /\ KeysOK /\ PlansOK /\ ReviewCopiesOK
    BY DEF EarnedInv, IInv
  <2>2. r = revWorker.key
    <3>1. ReviewDeleted(revWorker.key)
      <4>1. reviews' # reviews
        BY <1>2
      <4> QED
        BY <1>2, <2>1, <4>1, OnlyThePrunerMoves, Zenon DEF PruneReview
    <3>2. reviews \in [Reviews -> JobRequestReview]
      BY <2>1 DEF TypeOK, ClusterTypeOK
    <3> QED
      BY <1>2, <3>1, <3>2 DEF ReviewDeleted
  <2>3. reviews[r].created = revWorker.obj.created
    BY <1>2, <2>1, <2>2 DEF ReviewCopiesOK, SameReview, Exists
  <2> QED
    BY <1>2, <2>1, <2>3 DEF PlansOK, Expired
<1> QED
  BY <1>1, <1>2

(* A key that is queued again changes nothing EarnedInv speaks of.           *)
LEMMA ResyncKeepsEarnedInv ==
    ASSUME EarnedInv,
           UNCHANGED <<store, clock, revCache, ops, faults, crashes, resyncs, workers, history>>,
           reqQueue' \subseteq Requests, revQueue' \subseteq Reviews
    PROVE  EarnedInv'
<1>1. UNCHANGED <<requests, reviews, jobs, revCache, clock, reqWorker, revWorker, approved,
                  launched>>
  BY DEF store, workers, history
<1>2. TypeOK'
  BY <1>1 DEF EarnedInv, IInv, TypeOK, ClusterTypeOK, ReqWorkerTypeOK, RevWorkerTypeOK
<1>3. KeysOK' /\ VersionsOK' /\ CopiesOK' /\ WritesOK' /\ NotTerminalWhileBusy'
  <2>1. KeysOK'
    BY <1>1 DEF EarnedInv, IInv, KeysOK, ReqBusy, Deciding, Exists
  <2>2. VersionsOK'
    BY <1>1 DEF EarnedInv, IInv, SafetyInv, VersionsOK, ReqBusy, Deciding
  <2>3. CopiesOK'
    BY <1>1 DEF EarnedInv, IInv, SafetyInv, CopiesOK, ReqBusy, Deciding, Current
  <2>4. WritesOK'
    BY <1>1 DEF EarnedInv, IInv, SafetyInv, WritesOK, Deciding
  <2>5. NotTerminalWhileBusy'
    BY <1>1 DEF EarnedInv, IInv, SafetyInv, NotTerminalWhileBusy, InPart, ReqBusy
  <2> QED
    BY <2>1, <2>2, <2>3, <2>4, <2>5
<1>4. ApprovalsOK' /\ JobsOK' /\ LaunchesOK'
  BY <1>1
  DEF EarnedInv, IInv, SafetyInv, ApprovalsOK, OnlyApprovedRequestsRun, JobsOK, LaunchesOK,
      JobExists, InPart, ReqBusy, Exists
<1>5. IInv'
  BY <1>2, <1>3, <1>4 DEF IInv, SafetyInv
<1>6. HeldCopyOK' /\ ReviewCopiesOK' /\ PlansOK' /\ StoredStatesOK'
  BY <1>1
  DEF EarnedInv, HeldCopyOK, ReviewCopiesOK, SameReview, PlansOK, StoredStatesOK, ReqBusy,
      Current, Exists, Expired
<1>7. HeldIsThere' /\ OutcomesOK' /\ ApprovedStatesAreEarned'
  BY <1>1
  DEF EarnedInv, HeldIsThere, OutcomesOK, ApprovedStatesAreEarned, ReqBusy, Exists,
      HasBeenApproved, HasBeenReviewed, HasBeenRejected
<1> QED
  BY <1>5, <1>6, <1>7 DEF EarnedInv

(* A reconciler prunes the object it read, after ResourceTtl, unless a       *)
(* review has meanwhile been replaced by another of its name.                *)
THEOREM OnlyTheOldArePruned ==
    ASSUME OnlyOperatorDeletes
    PROVE  Spec => OnlyOldObjectsArePruned
<1>1. EarnedInv /\ [Next]_vars =>
        [/\ \A n \in Requests :
               (reqWorker.pc = "Delete" /\ reqWorker' # reqWorker
                  /\ Exists(requests[n]) /\ ~Exists(requests'[n]))
                   => clock - requests[n].created >= ResourceTtl
         /\ \A r \in Reviews :
               (revWorker.pc = "Delete" /\ revWorker' # revWorker
                  /\ Exists(reviews[r]) /\ ~Exists(reviews'[r]))
                   => \/ clock - reviews[r].created >= ResourceTtl
                      \/ reviews[r].uid # revWorker.obj.uid]_vars
  BY PrunedWhenOld DEF vars, workers
<1> QED
  BY <1>1, EarnedInvariant, PTL DEF Spec, OnlyOldObjectsArePruned

(* The same when the informers' resync gives the controllers every object    *)
(* again, over and over.                                                     *)
THEOREM OnlyTheOldAreEverPruned ==
    ASSUME OnlyOperatorDeletes
    PROVE  ResyncSpec => OnlyOldObjectsArePruned
<1>1. ASSUME EarnedInv, NEW n \in Requests, RequeueRequest(n)
      PROVE  EarnedInv' /\ UNCHANGED workers
  <2>1. /\ UNCHANGED <<store, clock, revCache, ops, faults, crashes, resyncs, workers, history>>
        /\ reqQueue' = reqQueue \cup {n} /\ revQueue' = revQueue
    BY <1>1 DEF RequeueRequest
  <2>2. reqQueue \subseteq Requests /\ revQueue \subseteq Reviews
    BY <1>1 DEF EarnedInv, IInv, TypeOK, ClusterTypeOK
  <2>3. reqQueue' \subseteq Requests /\ revQueue' \subseteq Reviews
    BY <2>1, <2>2
  <2> QED
    BY <1>1, <2>1, <2>3, ResyncKeepsEarnedInv
<1>2. ASSUME EarnedInv, NEW r \in Reviews, RequeueReview(r)
      PROVE  EarnedInv' /\ UNCHANGED workers
  <2>1. /\ UNCHANGED <<store, clock, revCache, ops, faults, crashes, resyncs, workers, history>>
        /\ revQueue' = revQueue \cup {r} /\ reqQueue' = reqQueue
    BY <1>2 DEF RequeueReview
  <2>2. reqQueue \subseteq Requests /\ revQueue \subseteq Reviews
    BY <1>2 DEF EarnedInv, IInv, TypeOK, ClusterTypeOK
  <2>3. reqQueue' \subseteq Requests /\ revQueue' \subseteq Reviews
    BY <2>1, <2>2
  <2> QED
    BY <1>2, <2>1, <2>3, ResyncKeepsEarnedInv
<1>3. EarnedInv /\ [ResyncNext]_vars => EarnedInv'
  BY <1>1, <1>2, EarnedInvStays, EarnedInvNext DEF ResyncNext
<1>4. EarnedInv /\ [ResyncNext]_vars =>
        [/\ \A n \in Requests :
               (reqWorker.pc = "Delete" /\ reqWorker' # reqWorker
                  /\ Exists(requests[n]) /\ ~Exists(requests'[n]))
                   => clock - requests[n].created >= ResourceTtl
         /\ \A r \in Reviews :
               (revWorker.pc = "Delete" /\ revWorker' # revWorker
                  /\ Exists(reviews[r]) /\ ~Exists(reviews'[r]))
                   => \/ clock - reviews[r].created >= ResourceTtl
                      \/ reviews[r].uid # revWorker.obj.uid]_vars
  BY <1>1, <1>2, PrunedWhenOld DEF ResyncNext, vars, workers
<1> QED
  BY <1>3, <1>4, EarnedInvInit, PTL DEF ResyncSpec, OnlyOldObjectsArePruned

-----------------------------------------------------------------------------
(* No object is deleted and no API call fails. *)

LEMMA NothingFails ==
    ASSUME CallsSucceed, TypeOK, TypeOK'
    PROVE  faults' = faults /\ ~(faults < MaxFaults)
<1>1. faults \in 0..0 /\ faults' \in 0..0
  BY DEF CallsSucceed, TypeOK, ClusterTypeOK
<1> QED
  BY <1>1 DEF CallsSucceed

(* No object reaches the TTL before the clock stops.                         *)
LEMMA NothingGetsOld ==
    ASSUME CallsSucceed, NEW time \in 0..MaxClock, NEW born \in Nat
    PROVE  ~(time - born >= ResourceTtl)
  BY ClusterAssumption DEF CallsSucceed

(* So no worker comes to a Delete.                                           *)
LEMMA NothingIsPruned ==
    ASSUME CallsSucceed, TypeOK', PlansOK'
    PROVE  reqWorker'.pc # "Delete" /\ revWorker'.pc # "Delete"
<1>1. clock' \in 0..MaxClock
  BY DEF TypeOK, ClusterTypeOK
<1>2. reqWorker'.obj.created \in Nat /\ revWorker'.obj.created \in Nat
  <2>1. reqWorker'.obj \in JobRequest /\ revWorker'.obj \in JobRequestReview
    BY DEF TypeOK, ReqWorkerTypeOK, ReqWorkers, RevWorkerTypeOK, RevWorkers
  <2> QED
    BY <2>1 DEF JobRequest, JobRequestReview
<1> QED
  BY <1>1, <1>2, NothingGetsOld DEF PlansOK, ReqBusy, Expired

(* What holds when only the operator deletes holds when nothing is           *)
(* deleted.                                                                  *)
LEMMA ConditionsWeaken == CallsSucceed => OnlyOperatorDeletes
  BY DEF CallsSucceed, OnlyOperatorDeletes

(* What KeptInv is made of.                                                  *)
LEMMA KeptParts ==
    ASSUME KeptInv
    PROVE  /\ IInv /\ TypeOK /\ KeysOK /\ SafetyInv
           /\ VersionsOK /\ CopiesOK /\ WritesOK /\ NotTerminalWhileBusy /\ JobsOK
           /\ HeldCopyOK /\ ReviewCopiesOK /\ PlansOK /\ StoredStatesOK /\ HeldIsThere
           /\ ReviewsAreThere /\ HeldStateOK /\ JobsHaveTheirRequests
           /\ reqWorker.pc # "Delete" /\ revWorker.pc # "Delete"
  BY DEF KeptInv, EarnedInv, IInv, SafetyInv

(* A request that is there stays, with its uid.                              *)
LEMMA RequestsStay ==
    ASSUME CallsSucceed, KeptInv, Next, NEW n \in Requests, Exists(requests[n])
    PROVE  /\ requests'[n].uid = requests[n].uid
           /\ RequestKept(n) \/ RequestEdited(n) \/ RequestDecided(n) \/ RequestSet(n)
<1>1. requests'[n].uid = requests[n].uid
  BY KeptParts, ConditionsWeaken, OnlyTheHeldGoes
<1> QED
  BY <1>1, KeptParts, RequestSteps DEF RequestCreated, RequestGone, Exists

(* A review that is there stays, with its uid and its request.               *)
LEMMA ReviewsStay ==
    ASSUME CallsSucceed, KeptInv, Next, NEW r \in Reviews, Exists(reviews[r])
    PROVE  reviews'[r].uid = reviews[r].uid /\ reviews'[r].request = reviews[r].request
<1>1. ~ReviewGone(r)
  BY KeptParts DEF ReviewGone, CallsSucceed, Allowed
<1>2. ~ReviewCreated(r)
  BY DEF ReviewCreated
<1> QED
  BY <1>1, <1>2, KeptParts, ReviewSteps DEF ReviewKept, ReviewEdited, ReviewSet

(* A request that has a review keeps it.                                     *)
LEMMA ReviewedStays ==
    ASSUME CallsSucceed, KeptInv, Next, NEW n \in Requests, Reviewed(n)
    PROVE  Reviewed(n)'
<1>1. PICK r \in Reviews : Exists(reviews[r]) /\ reviews[r].request = n
  BY DEF Reviewed
<1>2. reviews'[r].uid = reviews[r].uid /\ reviews'[r].request = reviews[r].request
  BY <1>1, ReviewsStay
<1> QED
  BY <1>1, <1>2 DEF Reviewed, Exists

(* A request that is being decided is Pending, its version is the one that  *)
(* was read, and the review that decides it is stored and names it.          *)
LEMMA DecidedFromPending ==
    ASSUME KeptInv, NEW n \in Requests, RequestDecided(n)
    PROVE  /\ requests[n] = revWorker.req /\ requests[n].state = "Pending"
           /\ Identified(requests[n].by)
           /\ revWorker.obj.decision \in Decisions /\ revWorker.key \in Reviews
           /\ Exists(reviews[revWorker.key]) /\ reviews[revWorker.key].request = n
<1>1. requests[n] = revWorker.req /\ requests[n].state = "Pending" /\ Identified(requests[n].by)
  BY KeptParts DEF RequestDecided, CopiesOK, WritesOK, FourEyes
<1>2. revWorker.key \in Reviews /\ revWorker.pc # "Idle"
  BY KeptParts DEF RequestDecided, Deciding, KeysOK
<1>3. revWorker.obj.decision \in Decisions
  BY KeptParts DEF TypeOK, RevWorkerTypeOK, RevWorkers, JobRequestReview
<1>4. Exists(reviews[revWorker.key]) /\ reviews[revWorker.key].request = n
  BY <1>2, KeptParts DEF ReviewsAreThere, ReviewCopiesOK, SameReview, RequestDecided, Exists
<1> QED
  BY <1>1, <1>2, <1>3, <1>4

(* The reviews that copies and requests rely on are there.                   *)
LEMMA ReviewsAreThereNext ==
    ASSUME CallsSucceed, KeptInv, Next
    PROVE  ReviewsAreThere'
<1>1. ASSUME NEW r \in Reviews, Exists(revCache'[r])
      PROVE  revCache'[r].uid = reviews'[r].uid
  <2>1. CASE revCache'[r] = revCache[r]
    <3>1. revCache[r].uid = reviews[r].uid /\ Exists(reviews[r])
      BY <1>1, <2>1, KeptParts DEF ReviewsAreThere, Exists
    <3> QED
      BY <2>1, <3>1, ReviewsStay
  <2> QED
    BY <1>1, <2>1, KeptParts, CacheSteps
<1>2. ASSUME revWorker'.pc # "Idle"
      PROVE  Exists(revWorker'.obj) /\ revWorker'.obj.uid = reviews'[revWorker'.key].uid
  <2>1. ASSUME revWorker.pc # "Idle", revWorker'.key = revWorker.key,
               revWorker'.obj = revWorker.obj
        PROVE  Exists(revWorker'.obj) /\ revWorker'.obj.uid = reviews'[revWorker'.key].uid
    <3>1. /\ revWorker.key \in Reviews /\ Exists(revWorker.obj)
          /\ revWorker.obj.uid = reviews[revWorker.key].uid
      BY <2>1, KeptParts DEF ReviewsAreThere, KeysOK
    <3>2. reviews'[revWorker.key].uid = reviews[revWorker.key].uid
      BY <3>1, ReviewsStay DEF Exists
    <3> QED
      BY <2>1, <3>1, <3>2
  <2>2. CASE UNCHANGED revWorker
    BY <1>2, <2>1, <2>2
  <2>3. CASE revWorker' = RevIdle
    BY <1>2, <2>3 DEF RevIdle
  <2>4. CASE ReviewConsidered
    BY <2>1, <2>4 DEF ReviewConsidered
  <2>5. CASE ReviewApplied
    BY <2>1, <2>5 DEF ReviewApplied, UpdateRequest
  <2>6. CASE \E r \in Reviews : ReviewPicked(r)
    BY <2>6, KeptParts DEF ReviewPicked, ReviewsAreThere
  <2> QED
    BY <2>2, <2>3, <2>4, <2>5, <2>6, KeptParts, ReviewWorkerSteps
<1>3. ASSUME NEW n \in Requests, requests'[n].state \in {"Approved", "Rejected", "Started"}
      PROVE  Reviewed(n)'
  <2>1. Exists(requests[n])
    BY <1>3, KeptParts, RequestSteps
    DEF StoredStatesOK, RequestKept, RequestCreated, RequestGone, RequestEdited, RequestDecided,
        RequestSet, Current
  <2>2. CASE RequestKept(n) \/ RequestEdited(n)
    BY <1>3, <2>2, KeptParts, ReviewedStays DEF RequestKept, RequestEdited, ReviewsAreThere
  <2>3. CASE RequestDecided(n)
    BY <2>3, DecidedFromPending, ReviewedStays DEF Reviewed
  <2>4. CASE RequestSet(n)
    <3>1. reqWorker.pc = "SetState" /\ reqWorker.to = "Started" /\ n = reqWorker.key
      BY <1>3, <2>4, KeptParts DEF RequestSet, WritesOK, Decisions
    <3>2. requests[n].state = "Approved"
      BY <3>1, KeptParts DEF PlansOK, HeldStateOK, ReqBusy
    <3> QED
      BY <3>2, KeptParts, ReviewedStays DEF ReviewsAreThere
  <2> QED
    BY <2>1, <2>2, <2>3, <2>4, RequestsStay
<1> QED
  BY <1>1, <1>2, <1>3 DEF ReviewsAreThere, Exists

(* The request under reconciliation keeps a state that is decided.           *)
LEMMA HeldStateNext ==
    ASSUME CallsSucceed, KeptInv, Next, faults' = faults
    PROVE  HeldStateOK'
<1> DEFINE n == reqWorker.key
<1>0. ReqIdle.pc = "Idle"
  BY DEF ReqIdle
<1>1. ASSUME ReqBusy', reqWorker'.obj.state \notin {"", "Pending"}
      PROVE  requests'[reqWorker'.key].state = reqWorker'.obj.state
  <2>1. CASE UNCHANGED reqWorker
    <3>1. n \in Requests /\ Exists(requests[n]) /\ requests[n].state = reqWorker.obj.state
      BY <1>1, <2>1, KeptParts DEF ReqBusy, KeysOK, HeldIsThere, HeldStateOK
    <3>2. ~RequestDecided(n)
      BY <1>1, <2>1, <3>1, DecidedFromPending
    <3>3. ~RequestSet(n)
      BY <1>0, <1>1, <2>1 DEF RequestSet, ReqBusy
    <3> QED
      BY <2>1, <3>1, <3>2, <3>3, RequestsStay DEF RequestKept, RequestEdited
  <2>2. CASE WorkerMoves
    BY <1>1, <2>2, KeptParts DEF WorkerMoves, HeldStateOK, ReqBusy
  <2>3. CASE WorkerRefreshes
    BY <2>3 DEF WorkerRefreshes
  <2>4. CASE \E m \in Requests : WorkerPicks(m)
    BY <2>4 DEF WorkerPicks
  <2> QED
    BY <1>0, <1>1, <2>1, <2>2, <2>3, <2>4, KeptParts, ReqWorkerChanges DEF ReqBusy
<1>2. ASSUME reqWorker'.pc = "SetState", reqWorker'.to = "Pending"
      PROVE  reqWorker'.obj.state \in {"", "Pending"}
  <2>1. CASE UNCHANGED reqWorker
    BY <1>2, <2>1, KeptParts DEF HeldStateOK
  <2>2. CASE WorkerMoves
    <3>1. ReqBusy /\ InPart /\ n \in Requests
      BY <2>2, KeptParts DEF WorkerMoves, ReqBusy, InPart, KeysOK
    <3>2. reqWorker.obj.state = "Pending" \/ ~Reviewed(n)
      BY <1>2, <2>2 DEF WorkerMoves, MovedFor
    <3>3. CASE reqWorker.obj.state \notin {"", "Pending"}
      <4>1. requests[n].state = reqWorker.obj.state /\ reqWorker.obj.state \in JobRequestStates
        BY <3>1, <3>3, KeptParts
        DEF HeldStateOK, TypeOK, ReqWorkerTypeOK, ReqWorkers, JobRequest
      <4>2. requests[n].state \in {"Approved", "Rejected", "Started"}
        BY <3>1, <3>3, <4>1, KeptParts DEF NotTerminalWhileBusy, InTerminalState, JobRequestStates
      <4> QED
        BY <3>1, <3>2, <3>3, <4>2, KeptParts DEF ReviewsAreThere
    <3> QED
      BY <2>2, <3>3 DEF WorkerMoves
  <2>3. CASE WorkerRefreshes
    BY <1>2, <2>3, KeptParts DEF WorkerRefreshes, WritesOK
  <2>4. CASE \E m \in Requests : WorkerPicks(m)
    BY <1>2, <2>4 DEF WorkerPicks
  <2> QED
    BY <1>0, <1>2, <2>1, <2>2, <2>3, <2>4, KeptParts, ReqWorkerChanges
<1>3. ASSUME reqWorker'.pc = "SetState", reqWorker'.to \in {"Complete", "Failed"}
      PROVE  reqWorker'.obj.state = "Started"
  <2>1. CASE UNCHANGED reqWorker
    BY <1>3, <2>1, KeptParts DEF HeldStateOK
  <2>2. CASE WorkerMoves
    BY <1>3, <2>2 DEF WorkerMoves
  <2>3. CASE WorkerRefreshes
    BY <2>3, KeptParts DEF WorkerRefreshes, PlansOK, HeldStateOK, ReqBusy
  <2>4. CASE \E m \in Requests : WorkerPicks(m)
    BY <1>3, <2>4 DEF WorkerPicks
  <2> QED
    BY <1>0, <1>3, <2>1, <2>2, <2>3, <2>4, KeptParts, ReqWorkerChanges
<1> QED
  BY <1>1, <1>2, <1>3 DEF HeldStateOK

(* The request that a Job belongs to is there.                               *)
LEMMA JobsHaveTheirRequestsNext ==
    ASSUME CallsSucceed, KeptInv, Next
    PROVE  JobsHaveTheirRequests'
<1> SUFFICES ASSUME NEW n \in Requests, jobs'[n].owner # 0
             PROVE  requests'[n].uid # 0 /\ jobs'[n].owner = requests'[n].uid
  BY DEF JobsHaveTheirRequests, Exists
<1>1. CASE JobKept(n) \/ JobFinished(n)
  <2>1. Exists(requests[n]) /\ jobs'[n].owner = requests[n].uid
    BY <1>1, KeptParts DEF JobKept, JobFinished, JobsHaveTheirRequests
  <2> QED
    BY <2>1, RequestsStay DEF Exists
<1>2. CASE JobMade(n)
  BY <1>2, KeptParts DEF JobMade, HeldIsThere, ReqBusy, Exists
<1> QED
  BY <1>1, <1>2, KeptParts, JobSteps DEF JobRemoved, JobMadeByOthers, NoJob

(* Every step keeps the invariant.                                           *)
LEMMA KeptInvNext ==
    ASSUME CallsSucceed, KeptInv, Next
    PROVE  KeptInv' /\ faults' = faults
<1>1. EarnedInv'
  BY ConditionsWeaken, EarnedInvNext DEF KeptInv
<1>2. TypeOK' /\ PlansOK'
  BY <1>1 DEF EarnedInv, IInv
<1>3. faults' = faults /\ reqWorker'.pc # "Delete" /\ revWorker'.pc # "Delete"
  BY <1>2, KeptParts, NothingFails, NothingIsPruned
<1>4. ReviewsAreThere' /\ HeldStateOK' /\ JobsHaveTheirRequests'
  BY <1>3, ReviewsAreThereNext, HeldStateNext, JobsHaveTheirRequestsNext
<1> QED
  BY <1>1, <1>3, <1>4 DEF KeptInv

(* The invariant holds of an empty cluster.                                  *)
LEMMA KeptInvInit == Init => KeptInv
<1> SUFFICES ASSUME Init PROVE KeptInv
  OBVIOUS
<1>1. reqWorker.pc = "Idle" /\ revWorker.pc = "Idle"
  BY DEF Init, ReqWorkerInit, RevWorkerInit, ReqIdle, RevIdle
<1>2. /\ \A r \in Reviews : revCache[r].uid = 0
      /\ \A n \in Requests : requests[n].state = "" /\ jobs[n].owner = 0
  BY DEF Init, ClusterInit, NoReview, NoRequest, NoJob
<1> QED
  BY <1>1, <1>2, EarnedInvInit
  DEF KeptInv, ReviewsAreThere, HeldStateOK, JobsHaveTheirRequests, ReqBusy, Exists

(* The invariant does not depend on what a stuttering step leaves alone.     *)
LEMMA KeptInvStays == KeptInv /\ UNCHANGED vars => KeptInv'
<1> SUFFICES ASSUME KeptInv, UNCHANGED vars PROVE KeptInv'
  OBVIOUS
<1>1. UNCHANGED <<requests, reviews, jobs, revCache, reqWorker, revWorker>>
  BY DEF vars, clusterVars, store, workers
<1> QED
  BY <1>1, EarnedInvStays
  DEF KeptInv, ReviewsAreThere, HeldStateOK, JobsHaveTheirRequests, Reviewed, ReqBusy, Exists

(* When nothing is deleted and every API call succeeds, a reviewed request   *)
(* keeps its review, a Job its request, and only the worker that holds a     *)
(* decided request writes its state.                                         *)
THEOREM KeptInvariant ==
    ASSUME CallsSucceed
    PROVE  Spec => []KeptInv
<1>1. Init => KeptInv
  BY KeptInvInit
<1>2. KeptInv /\ [Next]_vars => KeptInv'
  BY KeptInvStays, KeptInvNext
<1> QED
  BY <1>1, <1>2, PTL DEF Spec
=============================================================================
