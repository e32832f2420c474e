---------------------- MODULE JobRequestOperatorProofs ----------------------
(***************************************************************************)
(* Theorems about JobRequestOperator, for every number of requests,        *)
(* reviews and users, every ResourceTtl and every bound.                   *)
(***************************************************************************)
EXTENDS JobRequestOperator, TLAPS

-----------------------------------------------------------------------------
(* The objects of the API server keep their types. *)

LEMMA NoObjectTypes ==
    /\ NoJob \in Job
    /\ \A rv \in Nat : NoRequest(rv) \in JobRequest /\ NoReview(rv) \in JobRequestReview
  BY DEF NoJob, Job, JobPhases, NoRequest, JobRequest, JobRequestStates, Annotations,
         NoReview, JobRequestReview, JobRequestReviewStates, Decisions

(* An object with a field changed is an object.                              *)
LEMMA UpdatedFieldTypes ==
    /\ \A q \in JobRequest, version \in Nat : [q EXCEPT !.rv = version] \in JobRequest
    /\ \A q \in JobRequestReview, version \in Nat :
          [q EXCEPT !.rv = version] \in JobRequestReview
    /\ \A q \in JobRequest, uid, time \in Nat, by \in Annotations :
          [q EXCEPT !.uid = uid, !.created = time, !.by = by] \in JobRequest
    /\ \A q \in JobRequestReview, uid, time \in Nat, by \in Annotations,
          n \in Requests, decision \in Decisions :
          [q EXCEPT !.uid = uid, !.created = time, !.by = by, !.request = n,
                    !.decision = decision] \in JobRequestReview
<1>1. \A q \in JobRequest, version \in Nat : [q EXCEPT !.rv = version] \in JobRequest
  BY DEF JobRequest
<1>2. \A q \in JobRequestReview, version \in Nat :
        [q EXCEPT !.rv = version] \in JobRequestReview
  BY DEF JobRequestReview
<1>3. \A q \in JobRequest, uid, time \in Nat, by \in Annotations :
        [q EXCEPT !.uid = uid, !.created = time, !.by = by] \in JobRequest
  BY DEF JobRequest
<1>4. \A q \in JobRequestReview, uid, time \in Nat, by \in Annotations,
        n \in Requests, decision \in Decisions :
        [q EXCEPT !.uid = uid, !.created = time, !.by = by, !.request = n,
                  !.decision = decision] \in JobRequestReview
  BY DEF JobRequestReview
<1> QED
  BY <1>1, <1>2, <1>3, <1>4

(* What a status update stores is an object.                                 *)
LEMMA WrittenType ==
    /\ \A stored, copy \in JobRequest : RequestStatusUpdated(stored, copy) \in JobRequest
    /\ \A stored, copy \in JobRequestReview :
          ReviewStatusUpdated(stored, copy) \in JobRequestReview
<1>1. ASSUME NEW stored \in JobRequest, NEW copy \in JobRequest
      PROVE  RequestStatusUpdated(stored, copy) \in JobRequest
  <2> DEFINE written == [stored EXCEPT !.state = copy.state, !.reviewName = copy.reviewName,
                                       !.jobName = copy.jobName]
  <2>1. written \in JobRequest
    BY DEF JobRequest
  <2>2. stored.rv + 1 \in Nat
    BY DEF JobRequest
  <2>3. [written EXCEPT !.rv = stored.rv + 1] \in JobRequest
    <3> HIDE DEF written
    <3> QED BY <2>1, <2>2, UpdatedFieldTypes
  <2> QED
    BY <2>1, <2>3 DEF RequestStatusUpdated, Written
<1>2. ASSUME NEW stored \in JobRequestReview, NEW copy \in JobRequestReview
      PROVE  ReviewStatusUpdated(stored, copy) \in JobRequestReview
  <2> DEFINE written == [stored EXCEPT !.state = copy.state]
  <2>1. written \in JobRequestReview
    BY DEF JobRequestReview
  <2>2. stored.rv + 1 \in Nat
    BY DEF JobRequestReview
  <2>3. [written EXCEPT !.rv = stored.rv + 1] \in JobRequestReview
    <3> HIDE DEF written
    <3> QED BY <2>1, <2>2, UpdatedFieldTypes
  <2> QED
    BY <2>1, <2>3 DEF ReviewStatusUpdated, Written
<1> QED
  BY <1>1, <1>2

(* Every action of users and of Kubernetes keeps the types.                 *)
LEMMA ClusterStepType ==
    ASSUME TypeOK, ClusterNext
    PROVE  ClusterTypeOK'
<1> USE DEF TypeOK, ClusterTypeOK
<1>1. /\ MaxClock \in Nat /\ MaxOps \in Nat /\ MaxFaults \in Nat
      /\ MaxCrashes \in Nat /\ MaxResyncs \in Nat
      /\ RequesterAnnotations \subseteq Annotations
      /\ ReviewerAnnotations \subseteq Annotations
  BY ClusterAssumption
<1>2. ASSUME NEW n \in Requests, NEW by \in RequesterAnnotations, CreateRequest(n, by)
      PROVE  ClusterTypeOK'
  <2> DEFINE version == requests[n].rv + 1
             fresh == [NoRequest(version) EXCEPT !.uid = version, !.created = clock, !.by = by]
  <2>1. version \in Nat /\ clock \in Nat /\ by \in Annotations
    BY <1>1 DEF JobRequest
  <2>2. fresh \in JobRequest
    BY <2>1, NoObjectTypes, UpdatedFieldTypes
  <2>3. requests' \in [Requests -> JobRequest]
    BY <1>2, <2>2 DEF CreateRequest
  <2> QED
    BY <1>1, <1>2, <2>3 DEF CreateRequest, UserOp, QueueRequests, RequestEvents
<1>3. ASSUME NEW n \in Requests, DeleteRequest(n)
      PROVE  ClusterTypeOK'
  <2>1. requests[n].rv + 1 \in Nat
    BY DEF JobRequest
  <2>2. requests' \in [Requests -> JobRequest]
    BY <1>3, <2>1, NoObjectTypes DEF DeleteRequest, RequestDeleted
  <2> QED
    BY <1>1, <1>3, <2>2 DEF DeleteRequest, UserOp, QueueRequests, RequestEvents
<1>4. ASSUME NEW n \in Requests, EditRequest(n)
      PROVE  ClusterTypeOK'
  <2>1. requests' \in [Requests -> JobRequest]
    BY <1>4 DEF EditRequest, JobRequest
  <2> QED
    BY <1>1, <1>4, <2>1 DEF EditRequest, UserOp, QueueRequests, RequestEvents
<1>5. ASSUME NEW n \in Requests, DeleteJob(n) \/ CreateForeignJob(n)
      PROVE  ClusterTypeOK'
  <2>1. jobs' \in [Requests -> Job]
    BY <1>5, NoObjectTypes DEF DeleteJob, CreateForeignJob, Job, JobPhases
  <2> QED
    BY <1>1, <1>5, <2>1 DEF DeleteJob, CreateForeignJob, UserOp, QueueRequests, RequestEvents,
                            queues
<1>6. ASSUME NEW r \in Reviews, NEW decision \in Decisions, NEW n \in Requests,
             NEW by \in ReviewerAnnotations, CreateReview(r, n, decision, by)
      PROVE  ClusterTypeOK'
  <2> DEFINE version == reviews[r].rv + 1
             fresh == [NoReview(version) EXCEPT !.uid = version, !.created = clock, !.by = by,
                                                !.request = n, !.decision = decision]
  <2>1. version \in Nat /\ clock \in Nat /\ by \in Annotations
    BY <1>1 DEF JobRequestReview
  <2>2. fresh \in JobRequestReview
    BY <2>1, NoObjectTypes, UpdatedFieldTypes
  <2>3. reviews' \in [Reviews -> JobRequestReview]
    BY <1>6, <2>2 DEF CreateReview
  <2>4. /\ UserOp
        /\ UNCHANGED <<requests, jobs, clock, reqQueue, revQueue, revCache, faults, crashes,
                       resyncs>>
    BY <1>6, Zenon DEF CreateReview, queues
  <2> HIDE DEF fresh, version
  <2> QED
    BY <1>1, <2>3, <2>4 DEF UserOp
<1>7. ASSUME NEW r \in Reviews, DeleteReview(r)
      PROVE  ClusterTypeOK'
  <2>1. reviews[r].rv + 1 \in Nat
    BY DEF JobRequestReview
  <2>2. reviews' \in [Reviews -> JobRequestReview]
    BY <1>7, <2>1, NoObjectTypes DEF DeleteReview, ReviewDeleted
  <2> QED
    BY <1>1, <1>7, <2>2 DEF DeleteReview, UserOp, queues
<1>8. ASSUME NEW r \in Reviews, NEW decision \in Decisions, EditReview(r, decision)
      PROVE  ClusterTypeOK'
  <2>1. reviews' \in [Reviews -> JobRequestReview]
    BY <1>8 DEF EditReview, JobRequestReview
  <2> QED
    BY <1>1, <1>8, <2>1 DEF EditReview, UserOp, queues
<1>9. ASSUME Tick
      PROVE  ClusterTypeOK'
  BY <1>1, <1>9 DEF Tick, store, queues
<1>10. ASSUME NEW n \in Requests, NEW outcome \in {"Complete", "Failed"}, FinishJob(n, outcome)
       PROVE  ClusterTypeOK'
  <2>1. jobs' \in [Requests -> Job]
    BY <1>10 DEF FinishJob, Job, JobPhases
  <2> QED
    BY <1>10, <2>1 DEF FinishJob, QueueRequests, RequestEvents
<1>11. ASSUME NEW n \in Requests, CollectJob(n)
       PROVE  ClusterTypeOK'
  <2>1. jobs' \in [Requests -> Job]
    BY <1>11, NoObjectTypes DEF CollectJob
  <2> QED
    BY <1>11, <2>1 DEF CollectJob, QueueRequests, RequestEvents
<1>12. ASSUME NEW n \in Requests, ResyncRequest(n)
       PROVE  ClusterTypeOK'
  BY <1>1, <1>12 DEF ResyncRequest, store
<1>13. ASSUME NEW r \in Reviews, SyncReview(r) \/ ResyncReview(r)
       PROVE  ClusterTypeOK'
  BY <1>1, <1>13 DEF SyncReview, ResyncReview, store
<1> QED
  BY <1>2, <1>3, <1>4, <1>5, <1>6, <1>7, <1>8, <1>9, <1>10, <1>11, <1>12, <1>13
  DEF ClusterNext, UserNext, KubernetesNext

-----------------------------------------------------------------------------
(* What the steps of the workers leave in the workers. *)

LEMMA ReqWorkerSteps ==
    /\ ReqIdle \in ReqWorkers
    /\ \A n \in Requests, obj \in JobRequest, pc \in ReqWorkerPcs, to \in JobRequestStates :
          Hold(n, obj, pc, to) =>
             /\ reqWorker' \in ReqWorkers
             /\ reqWorker' = [pc |-> pc, key |-> n, obj |-> obj, to |-> to, retry |-> FALSE]
    /\ reqWorker \in ReqWorkers =>
          \A pc \in ReqWorkerPcs, to \in JobRequestStates, retry \in BOOLEAN :
             /\ Continue(pc) =>
                   /\ reqWorker' \in ReqWorkers /\ reqWorker'.pc = pc
                   /\ reqWorker'.key = reqWorker.key /\ reqWorker'.obj = reqWorker.obj
                   /\ reqWorker'.to = reqWorker.to
             /\ ThenSetState(to, retry) =>
                   /\ reqWorker' \in ReqWorkers /\ reqWorker'.pc = "SetState"
                   /\ reqWorker'.key = reqWorker.key /\ reqWorker'.obj = reqWorker.obj
                   /\ reqWorker'.to = to
<1>1. ReqIdle \in ReqWorkers
  BY NoObjectTypes DEF ReqIdle, ReqWorkers, ReqWorkerPcs, JobRequestStates
<1>2. ASSUME NEW n \in Requests, NEW obj \in JobRequest, NEW pc \in ReqWorkerPcs,
             NEW to \in JobRequestStates, Hold(n, obj, pc, to)
      PROVE  /\ reqWorker' \in ReqWorkers
             /\ reqWorker' = [pc |-> pc, key |-> n, obj |-> obj, to |-> to, retry |-> FALSE]
  <2>1. reqWorker' = [pc |-> pc, key |-> n, obj |-> obj, to |-> to, retry |-> FALSE]
    BY <1>2 DEF Hold, ReqIdle
  <2> QED
    BY <2>1 DEF ReqWorkers
<1>3. ASSUME reqWorker \in ReqWorkers, NEW pc \in ReqWorkerPcs, Continue(pc)
      PROVE  /\ reqWorker' \in ReqWorkers /\ reqWorker'.pc = pc
             /\ reqWorker'.key = reqWorker.key /\ reqWorker'.obj = reqWorker.obj
             /\ reqWorker'.to = reqWorker.to
  BY <1>3 DEF Continue, ReqWorkers
<1>4. ASSUME reqWorker \in ReqWorkers, NEW to \in JobRequestStates, NEW retry \in BOOLEAN,
             ThenSetState(to, retry)
      PROVE  /\ reqWorker' \in ReqWorkers /\ reqWorker'.pc = "SetState"
             /\ reqWorker'.key = reqWorker.key /\ reqWorker'.obj = reqWorker.obj
             /\ reqWorker'.to = to
  BY <1>4 DEF ThenSetState, ReqWorkers, ReqWorkerPcs
<1> QED
  BY <1>1, <1>2, <1>3, <1>4

(* What the helpers of its actions leave in the worker of the review         *)
(* controller.                                                               *)
LEMMA RevWorkerSteps ==
    /\ RevIdle \in RevWorkers
    /\ \A r \in Reviews, obj \in JobRequestReview, pc \in RevWorkerPcs,
          to \in JobRequestReviewStates :
          HoldReview(r, obj, pc, to) =>
             /\ revWorker' \in RevWorkers
             /\ revWorker' = [pc |-> pc, key |-> r, obj |-> obj, req |-> NoRequest(0),
                              to |-> to, retry |-> FALSE]
    /\ revWorker \in RevWorkers =>
          \A to \in JobRequestReviewStates, retry \in BOOLEAN :
             ThenSetReviewState(to, retry) =>
                /\ revWorker' \in RevWorkers /\ revWorker'.pc = "SetState"
                /\ revWorker'.key = revWorker.key
<1>1. RevIdle \in RevWorkers
  BY NoObjectTypes DEF RevIdle, RevWorkers, RevWorkerPcs, JobRequestReviewStates
<1>2. ASSUME NEW r \in Reviews, NEW obj \in JobRequestReview, NEW pc \in RevWorkerPcs,
             NEW to \in JobRequestReviewStates, HoldReview(r, obj, pc, to)
      PROVE  /\ revWorker' \in RevWorkers
             /\ revWorker' = [pc |-> pc, key |-> r, obj |-> obj, req |-> NoRequest(0),
                              to |-> to, retry |-> FALSE]
  <2>1. revWorker' = [pc |-> pc, key |-> r, obj |-> obj, req |-> NoRequest(0),
                      to |-> to, retry |-> FALSE]
    BY <1>2 DEF HoldReview, RevIdle
  <2> QED
    BY <2>1, NoObjectTypes DEF RevWorkers
<1>3. ASSUME revWorker \in RevWorkers, NEW to \in JobRequestReviewStates,
             NEW retry \in BOOLEAN, ThenSetReviewState(to, retry)
      PROVE  /\ revWorker' \in RevWorkers /\ revWorker'.pc = "SetState"
             /\ revWorker'.key = revWorker.key
  BY <1>3 DEF ThenSetReviewState, RevWorkers, RevWorkerPcs
<1> QED
  BY <1>1, <1>2, <1>3

(* The history variables keep their types when the objects do.              *)
LEMMA HistoryType ==
    ASSUME TypeOK, requests' \in [Requests -> JobRequest], jobs' \in [Requests -> Job], Observe
    PROVE  approved' \subseteq Requests \X Nat /\ launched' \subseteq Requests \X Nat
<1>1. \A n \in Requests : requests[n].uid \in Nat /\ jobs'[n].owner \in Nat
  BY DEF TypeOK, ClusterTypeOK, JobRequest, Job
<1>2. approved' \subseteq Requests \X Nat
  BY <1>1 DEF TypeOK, Observe
<1>3. launched' \subseteq Requests \X Nat
  BY <1>1 DEF TypeOK, Observe
<1> QED
  BY <1>2, <1>3

(* A reconcile that ends leaves the queue and the worker well typed.         *)
LEMMA FinishType ==
    ASSUME reqQueue \subseteq Requests, reqWorker.key \in Requests, NEW retry \in BOOLEAN,
           Finish(retry)
    PROVE  reqWorker' = ReqIdle /\ reqQueue' \subseteq Requests
  BY DEF Finish, QueueRequests, RequestEvents

(* Counted faults stay in their bound.                                       *)
LEMMA FaultsType ==
    ASSUME TypeOK, ApiFault \/ ApiAnswers
    PROVE  faults' \in 0..MaxFaults
  BY ClusterAssumption DEF TypeOK, ClusterTypeOK, ApiFault, ApiAnswers

(* The steps of the JobRequest controller keep the types, and its worker     *)
(* holds the name of a request when it is busy.                              *)
LEMMA ReqStepType ==
    ASSUME TypeOK, KeysOK,
           ReqWorkerStep \/ \E n \in Requests : ReconcileRequest(n)
    PROVE  ClusterTypeOK' /\ ReqWorkerTypeOK' /\ (ReqBusy => reqWorker.key \in Requests)'
<1> DEFINE Typed == ClusterTypeOK' /\ ReqWorkerTypeOK' /\ (ReqBusy => reqWorker.key \in Requests)'
<1> USE DEF TypeOK, ReqWorkerTypeOK, ReqBusy
<1>1. \A n \in Requests : requests[n] \in JobRequest
  BY DEF ClusterTypeOK
<1>2. /\ reqWorker.obj \in JobRequest /\ reqWorker.to \in JobRequestStates
      /\ reqWorker.retry \in BOOLEAN
      /\ reqWorker.pc # "Idle" => reqWorker.key \in Requests
  BY DEF ReqWorkers, KeysOK
<1>3. ReqIdle \in ReqWorkers /\ ReqIdle.pc = "Idle"
  BY ReqWorkerSteps DEF ReqIdle
<1>4. ASSUME NEW n \in Requests, ReconcileRequest(n)
      PROVE  Typed
  <2>1. ASSUME StartOfReconcile(n, requests[n])
        PROVE  reqWorker' \in ReqWorkers /\ (reqWorker'.pc # "Idle" => reqWorker'.key \in Requests)
    <3>1. {"Delete", "SetState", "ListTarget"} \subseteq ReqWorkerPcs
          /\ {"", "Malformed"} \subseteq JobRequestStates
      BY DEF ReqWorkerPcs, JobRequestStates
    <3>2. CASE reqWorker' = ReqIdle
      BY <3>2, <1>3
    <3>3. CASE \E pc \in ReqWorkerPcs, to \in JobRequestStates : Hold(n, requests[n], pc, to)
      BY <3>3, <1>1, ReqWorkerSteps
    <3> QED
      BY <2>1, <3>1, <3>2, <3>3 DEF StartOfReconcile
  <2>2. /\ reqWorker' \in ReqWorkers
        /\ reqWorker'.pc # "Idle" => reqWorker'.key \in Requests
    BY <1>2, <1>4, <2>1 DEF ReconcileRequest
  <2>3. faults' \in 0..MaxFaults
    BY <1>4, FaultsType DEF ReconcileRequest
  <2> QED
    BY <1>4, <2>2, <2>3 DEF ReconcileRequest, NoWrite, ReqFrame, ClusterTypeOK, store
<1>5. ASSUME PruneRequest
      PROVE  Typed
  <2>1. reqWorker.key \in Requests
    BY <1>2, <1>5 DEF PruneRequest
  <2>2. requests' \in [Requests -> JobRequest]
    <3>1. CASE RequestDeleted(reqWorker.key)
      <4>1. requests[reqWorker.key].rv + 1 \in Nat
        BY <1>1, <2>1 DEF JobRequest
      <4> QED
        BY <3>1, <4>1, NoObjectTypes DEF RequestDeleted, ClusterTypeOK
    <3> QED
      BY <1>5, <3>1 DEF PruneRequest, ClusterTypeOK
  <2>3. reqWorker' = ReqIdle /\ reqQueue' \subseteq Requests
    BY <1>5, <2>1, FinishType DEF PruneRequest, ClusterTypeOK
  <2>4. faults' \in 0..MaxFaults
    BY <1>5, FaultsType DEF PruneRequest
  <2> QED
    BY <1>3, <1>5, <2>2, <2>3, <2>4 DEF PruneRequest, ReqFrame, ClusterTypeOK
<1>6. ASSUME LookUpTarget
      PROVE  Typed
  <2>1. reqWorker.key \in Requests
    BY <1>2, <1>6 DEF LookUpTarget
  <2>2. /\ reqWorker' \in ReqWorkers /\ reqQueue' \subseteq Requests
        /\ reqWorker'.pc # "Idle" => reqWorker'.key \in Requests
    <3>1. CASE Continue("ListReviews") /\ UNCHANGED reqQueue
      BY <2>1, <3>1, ReqWorkerSteps DEF ReqWorkerPcs, JobRequestStates, ClusterTypeOK
    <3>2. CASE ThenSetState("Malformed", FALSE) /\ UNCHANGED reqQueue
      BY <2>1, <3>2, ReqWorkerSteps DEF ReqWorkerPcs, JobRequestStates, ClusterTypeOK
    <3>3. CASE Finish(TRUE)
      BY <1>3, <2>1, <3>3, FinishType DEF ClusterTypeOK
    <3> QED
      BY <1>6, <3>1, <3>2, <3>3 DEF LookUpTarget
  <2>3. faults' \in 0..MaxFaults
    BY <1>6, FaultsType DEF LookUpTarget
  <2> QED
    BY <1>6, <2>2, <2>3 DEF LookUpTarget, NoWrite, ReqFrame, ClusterTypeOK, store
<1>7. ASSUME CalculateState
      PROVE  Typed
  <2>1. reqWorker.key \in Requests
    BY <1>2, <1>7 DEF CalculateState
  <2>2. ASSUME NEW state, HandleState(state)
        PROVE  /\ reqWorker' \in ReqWorkers /\ reqQueue' \subseteq Requests
               /\ reqWorker'.pc # "Idle" => reqWorker'.key \in Requests
    <3>1. CASE Continue("GetJob") /\ UNCHANGED reqQueue
      BY <2>1, <3>1, ReqWorkerSteps DEF ReqWorkerPcs, JobRequestStates, ClusterTypeOK
    <3>2. CASE ThenSetState("Pending", FALSE) /\ UNCHANGED reqQueue
      BY <2>1, <3>2, ReqWorkerSteps DEF ReqWorkerPcs, JobRequestStates, ClusterTypeOK
    <3>3. CASE Finish(FALSE)
      BY <1>3, <2>1, <3>3, FinishType DEF ClusterTypeOK
    <3> QED
      BY <2>2, <3>1, <3>2, <3>3 DEF HandleState
  <2>3. /\ reqWorker' \in ReqWorkers /\ reqQueue' \subseteq Requests
        /\ reqWorker'.pc # "Idle" => reqWorker'.key \in Requests
    BY <1>7, <2>2 DEF CalculateState
  <2>4. faults' \in 0..MaxFaults
    BY <1>7, FaultsType DEF CalculateState
  <2> QED
    BY <1>7, <2>3, <2>4 DEF CalculateState, NoWrite, ReqFrame, ClusterTypeOK, store
<1>8. ASSUME CheckNoJob
      PROVE  Typed
  <2>1. reqWorker.key \in Requests
    BY <1>2, <1>8 DEF CheckNoJob
  <2>2. /\ reqWorker' \in ReqWorkers /\ reqQueue' \subseteq Requests
        /\ reqWorker'.pc # "Idle" => reqWorker'.key \in Requests
    <3>1. CASE Continue("CreateJob") /\ UNCHANGED reqQueue
      BY <2>1, <3>1, ReqWorkerSteps DEF ReqWorkerPcs, JobRequestStates, ClusterTypeOK
    <3>2. CASE ThenSetState("Conflicted", FALSE) /\ UNCHANGED reqQueue
      BY <2>1, <3>2, ReqWorkerSteps DEF ReqWorkerPcs, JobRequestStates, ClusterTypeOK
    <3>3. CASE Finish(TRUE)
      BY <1>3, <2>1, <3>3, FinishType DEF ClusterTypeOK
    <3> QED
      BY <1>8, <3>1, <3>2, <3>3 DEF CheckNoJob
  <2>3. faults' \in 0..MaxFaults
    BY <1>8, FaultsType DEF CheckNoJob
  <2> QED
    BY <1>8, <2>2, <2>3 DEF CheckNoJob, NoWrite, ReqFrame, ClusterTypeOK, store
<1>9. ASSUME CreateJob
      PROVE  Typed
  <2>1. reqWorker.key \in Requests /\ reqWorker.obj.uid \in Nat
    BY <1>2, <1>9 DEF CreateJob, JobRequest
  <2>2. /\ reqWorker' \in ReqWorkers
        /\ reqWorker'.pc # "Idle" => reqWorker'.key \in Requests
    <3>1. CASE ThenSetState("Malformed", TRUE)
      BY <2>1, <3>1, ReqWorkerSteps DEF ReqWorkerPcs, JobRequestStates
    <3>2. CASE reqWorker' = [reqWorker EXCEPT !.pc = "SetState", !.to = "Started",
                                              !.obj.jobName = reqWorker.key]
      <4>1. [reqWorker.obj EXCEPT !.jobName = reqWorker.key] \in JobRequest
        BY <1>2, <2>1 DEF JobRequest
      <4>2. reqWorker' = [reqWorker EXCEPT !.pc = "SetState", !.to = "Started",
                             !.obj = [reqWorker.obj EXCEPT !.jobName = reqWorker.key]]
        BY <3>2 DEF ReqWorkers
      <4> QED
        BY <2>1, <4>1, <4>2 DEF ReqWorkers, ReqWorkerPcs, JobRequestStates
    <3> QED
      BY <1>9, <3>1, <3>2 DEF CreateJob
  <2>3. jobs' \in [Requests -> Job]
    <3>1. [owner |-> reqWorker.obj.uid, phase |-> "Running"] \in Job
      BY <2>1 DEF Job, JobPhases
    <3>2. CASE StoreJob(reqWorker.key, reqWorker.obj.uid)
      BY <3>1, <3>2 DEF StoreJob, ClusterTypeOK
    <3>3. CASE UNCHANGED jobs
      BY <3>3 DEF ClusterTypeOK
    <3> QED
      BY <1>9, <3>2, <3>3, Zenon DEF CreateJob
  <2>4. faults' \in 0..MaxFaults
    BY <1>9, FaultsType DEF CreateJob
  <2> QED
    BY <1>9, <2>2, <2>3, <2>4 DEF CreateJob, ReqFrame, ClusterTypeOK, QueueRequests, RequestEvents
<1>10. ASSUME CheckJob
       PROVE  Typed
  <2>1. reqWorker.key \in Requests
    BY <1>2, <1>10 DEF CheckJob
  <2>2. Outcome(jobs[reqWorker.key].phase) \in JobRequestStates
    BY DEF Outcome, JobRequestStates
  <2>3. /\ reqWorker' \in ReqWorkers
        /\ reqWorker'.pc # "Idle" => reqWorker'.key \in Requests
    <3>1. CASE ThenSetState("Malformed", FALSE)
      BY <2>1, <3>1, ReqWorkerSteps DEF ReqWorkerPcs, JobRequestStates
    <3>2. CASE reqWorker' = [reqWorker EXCEPT !.pc = "GetAgain",
                                              !.to = Outcome(jobs[reqWorker.key].phase)]
      BY <2>1, <2>2, <3>2 DEF ReqWorkers, ReqWorkerPcs
    <3> QED
      BY <1>10, <3>1, <3>2 DEF CheckJob
  <2>4. faults' \in 0..MaxFaults
    BY <1>10, FaultsType DEF CheckJob
  <2> QED
    BY <1>10, <2>3, <2>4 DEF CheckJob, NoWrite, ReqFrame, ClusterTypeOK, store
<1>11. ASSUME RefreshRequest
       PROVE  Typed
  <2>1. reqWorker.key \in Requests
    BY <1>2, <1>11 DEF RefreshRequest
  <2>2. /\ reqWorker' \in ReqWorkers /\ reqQueue' \subseteq Requests
        /\ reqWorker'.pc # "Idle" => reqWorker'.key \in Requests
    <3>1. CASE /\ reqWorker' = [reqWorker EXCEPT !.pc = "SetState",
                                                 !.obj = requests[reqWorker.key]]
               /\ UNCHANGED reqQueue
      BY <1>1, <2>1, <3>1 DEF ReqWorkers, ReqWorkerPcs, ClusterTypeOK
    <3>2. CASE Finish(FALSE)
      BY <1>3, <2>1, <3>2, FinishType DEF ClusterTypeOK
    <3> QED
      BY <1>11, <3>1, <3>2 DEF RefreshRequest
  <2>3. faults' \in 0..MaxFaults
    BY <1>11, FaultsType DEF RefreshRequest
  <2> QED
    BY <1>11, <2>2, <2>3 DEF RefreshRequest, NoWrite, ReqFrame, ClusterTypeOK, store
<1>12. ASSUME SetRequestState
       PROVE  Typed
  <2> DEFINE copy == [reqWorker.obj EXCEPT !.state = reqWorker.to]
  <2>1. reqWorker.key \in Requests
    BY <1>2, <1>12 DEF SetRequestState
  <2>2. copy \in JobRequest
    BY <1>2 DEF JobRequest
  <2>3. requests' \in [Requests -> JobRequest]
    <3>1. CASE requests' = [requests EXCEPT ![reqWorker.key] =
                               RequestStatusUpdated(requests[reqWorker.key], copy)]
      <4>1. RequestStatusUpdated(requests[reqWorker.key], copy) \in JobRequest
        BY <1>1, <2>1, <2>2, WrittenType
      <4> HIDE DEF copy
      <4> QED
        BY <3>1, <4>1 DEF ClusterTypeOK
    <3> QED
      BY <1>12, <3>1, Zenon DEF SetRequestState, ClusterTypeOK
  <2>4. reqWorker' = ReqIdle /\ reqQueue' \subseteq Requests
    BY <1>2, <1>12, <2>1, FinishType DEF SetRequestState, ClusterTypeOK
  <2>5. faults' \in 0..MaxFaults
    BY <1>12, FaultsType DEF SetRequestState
  <2>6. UNCHANGED <<reviews, jobs, clock, revQueue, revCache, ops, crashes, resyncs>>
    BY <1>12, Zenon DEF SetRequestState, ReqFrame
  <2> QED
    BY <1>3, <2>3, <2>4, <2>5, <2>6 DEF ClusterTypeOK
<1> QED
  BY <1>4, <1>5, <1>6, <1>7, <1>8, <1>9, <1>10, <1>11, <1>12 DEF ReqWorkerStep

(* The same of a reconcile of a review.                                      *)
LEMMA FinishReviewType ==
    ASSUME revQueue \subseteq Reviews, revWorker.key \in Reviews, NEW retry \in BOOLEAN,
           FinishReview(retry)
    PROVE  revWorker' = RevIdle /\ revQueue' \subseteq Reviews
  BY DEF FinishReview

(* The steps of the JobRequestReview controller keep the types, and its      *)
(* worker holds the name of a review, and of a request where it needs one.   *)
LEMMA RevStepType ==
    ASSUME TypeOK, KeysOK,
           RevWorkerStep \/ \E r \in Reviews : ReconcileReview(r)
    PROVE  /\ ClusterTypeOK' /\ RevWorkerTypeOK'
           /\ (revWorker.pc # "Idle" => revWorker.key \in Reviews)'
           /\ (revWorker.pc \in {"ListRequest", "UpdateRequest"}
                 => revWorker.obj.request \in Requests)'
<1> DEFINE WorkerOK == /\ revWorker \in RevWorkers
                       /\ revWorker.pc # "Idle" => revWorker.key \in Reviews
                       /\ revWorker.pc \in {"ListRequest", "UpdateRequest"}
                             => revWorker.obj.request \in Requests
           Typed == ClusterTypeOK' /\ WorkerOK'
<1> USE DEF TypeOK, RevWorkerTypeOK
<1>1. /\ \A n \in Requests : requests[n] \in JobRequest
      /\ \A r \in Reviews : reviews[r] \in JobRequestReview /\ revCache[r] \in JobRequestReview
  BY DEF ClusterTypeOK
<1>2. /\ revWorker.obj \in JobRequestReview /\ revWorker.req \in JobRequest
      /\ revWorker.to \in JobRequestReviewStates /\ revWorker.retry \in BOOLEAN
      /\ WorkerOK
  BY DEF RevWorkers, KeysOK
<1>3. RevIdle \in RevWorkers /\ RevIdle.pc = "Idle"
  BY RevWorkerSteps DEF RevIdle
<1>4. ASSUME NEW state \in JobRequestReviewStates, NEW retry \in BOOLEAN,
             revWorker.key \in Reviews, ThenSetReviewState(state, retry)
      PROVE  WorkerOK'
  BY <1>4, RevWorkerSteps
<1>5. ASSUME revWorker.key \in Reviews, NEW retry \in BOOLEAN, FinishReview(retry)
      PROVE  WorkerOK' /\ revQueue' \subseteq Reviews
  BY <1>3, <1>5, FinishReviewType DEF ClusterTypeOK
<1>6. ASSUME NEW r \in Reviews, ReconcileReview(r)
      PROVE  Typed
  <2>1. ASSUME Exists(revCache[r]), StartOfReview(r, revCache[r])
        PROVE  WorkerOK'
    <3>1. {"Delete", "SetState", "ListRequest"} \subseteq RevWorkerPcs
          /\ {"", "JobRequestMalformed"} \subseteq JobRequestReviewStates
      BY DEF RevWorkerPcs, JobRequestReviewStates
    <3>2. CASE UNCHANGED revWorker
      BY <1>2, <3>2
    <3>3. CASE \E pc \in RevWorkerPcs, to \in JobRequestReviewStates :
                  HoldReview(r, revCache[r], pc, to)
      <4>1. revCache[r].request \in Requests
        BY <2>1 DEF KeysOK
      <4>2. PICK pc \in RevWorkerPcs, to \in JobRequestReviewStates :
                  HoldReview(r, revCache[r], pc, to)
        BY <3>3
      <4>3. /\ revWorker' \in RevWorkers
            /\ revWorker' = [pc |-> pc, key |-> r, obj |-> revCache[r], req |-> NoRequest(0),
                             to |-> to, retry |-> FALSE]
        BY <1>1, <4>2, RevWorkerSteps
      <4> QED
        BY <4>1, <4>3
    <3> QED
      BY <2>1, <3>1, <3>2, <3>3 DEF StartOfReview
  <2>2. WorkerOK'
    BY <1>2, <1>6, <2>1 DEF ReconcileReview
  <2> QED
    BY <1>6, <2>2 DEF ReconcileReview, RevFrame, ClusterTypeOK
<1>7. ASSUME PruneReview
      PROVE  Typed
  <2>1. revWorker.key \in Reviews
    BY <1>2, <1>7 DEF PruneReview
  <2>2. reviews' \in [Reviews -> JobRequestReview]
    <3>1. CASE ReviewDeleted(revWorker.key)
      <4>1. reviews[revWorker.key].rv + 1 \in Nat
        BY <1>1, <2>1 DEF JobRequestReview
      <4> QED
        BY <3>1, <4>1, NoObjectTypes DEF ReviewDeleted, ClusterTypeOK
    <3> QED
      BY <1>7, <3>1 DEF PruneReview, ClusterTypeOK
  <2>3. WorkerOK' /\ revQueue' \subseteq Reviews
    BY <1>5, <1>7, <2>1 DEF PruneReview
  <2>4. faults' \in 0..MaxFaults
    BY <1>7, FaultsType DEF PruneReview
  <2> QED
    BY <1>7, <2>2, <2>3, <2>4 DEF PruneReview, RevFrame, ClusterTypeOK
<1>8. ASSUME ListRequest
      PROVE  Typed
  <2>1. revWorker.key \in Reviews /\ revWorker.obj.request \in Requests
    BY <1>2, <1>8 DEF ListRequest
  <2>2. requests[revWorker.obj.request] \in JobRequest
    BY <1>1, <2>1
  <2>3. {"JobRequestMalformed", "JobRequestNotFound", "Conflict"} \subseteq JobRequestReviewStates
    BY DEF JobRequestReviewStates
  <2>4. ASSUME NEW req \in JobRequest, ReviewPending(req)
        PROVE  WorkerOK'
    <3>1. CASE revWorker' = [revWorker EXCEPT !.pc = "UpdateRequest", !.req = req]
      BY <2>1, <3>1 DEF RevWorkers, RevWorkerPcs
    <3> QED
      BY <1>4, <2>1, <2>3, <2>4, <3>1 DEF ReviewPending
  <2>5. ASSUME NEW req \in JobRequest, HandleRequest(req)
        PROVE  WorkerOK' /\ revQueue' \subseteq Reviews
    <3>1. CASE \E retry \in BOOLEAN : FinishReview(retry)
      BY <1>5, <2>1, <3>1
    <3>2. CASE /\ \E state \in JobRequestReviewStates : ThenSetReviewState(state, FALSE)
               /\ UNCHANGED revQueue
      BY <1>4, <2>1, <3>2 DEF ClusterTypeOK
    <3>3. CASE ReviewPending(req) /\ UNCHANGED revQueue
      BY <2>4, <3>3 DEF ClusterTypeOK
    <3> QED
      BY <2>3, <2>5, <3>1, <3>2, <3>3 DEF HandleRequest
  <2>6. WorkerOK' /\ revQueue' \subseteq Reviews
    BY <1>4, <1>5, <1>8, <2>1, <2>2, <2>3, <2>5 DEF ListRequest, ClusterTypeOK
  <2>7. faults' \in 0..MaxFaults
    BY <1>8, FaultsType DEF ListRequest
  <2> QED
    BY <1>8, <2>6, <2>7 DEF ListRequest, RevFrame, ClusterTypeOK
<1>9. ASSUME UpdateRequest
      PROVE  Typed
  <2> DEFINE n == revWorker.obj.request
             copy == Decided(revWorker.req, revWorker.key, revWorker.obj.decision)
  <2>1. revWorker.key \in Reviews /\ n \in Requests
    BY <1>2, <1>9 DEF UpdateRequest
  <2>2. copy \in JobRequest
    BY <1>2, <2>1 DEF Decided, JobRequest, JobRequestReview, Decisions, JobRequestStates
  <2>3. requests' \in [Requests -> JobRequest]
    <3>1. CASE requests' = [requests EXCEPT ![n] = RequestStatusUpdated(requests[n], copy)]
      <4>1. RequestStatusUpdated(requests[n], copy) \in JobRequest
        BY <1>1, <2>1, <2>2, WrittenType
      <4> HIDE DEF copy
      <4> QED
        BY <3>1, <4>1 DEF ClusterTypeOK
    <3> QED
      BY <1>9, <3>1, Zenon DEF UpdateRequest, ClusterTypeOK
  <2>4. revWorker.obj.decision \in JobRequestReviewStates
    BY <1>2 DEF JobRequestReview, JobRequestReviewStates
  <2>5. WorkerOK'
    BY <1>4, <1>9, <2>1, <2>4 DEF UpdateRequest
  <2>6. faults' \in 0..MaxFaults
    BY <1>9, FaultsType DEF UpdateRequest
  <2>7. /\ UNCHANGED <<reviews, revQueue, jobs, clock, revCache, ops, crashes, resyncs>>
        /\ QueueRequests(reqQueue)
    BY <1>9, Zenon DEF UpdateRequest, RevFrame
  <2> QED
    BY <2>3, <2>5, <2>6, <2>7 DEF ClusterTypeOK, QueueRequests, RequestEvents
<1>10. ASSUME SetReviewState
       PROVE  Typed
  <2> DEFINE copy == [revWorker.obj EXCEPT !.state = revWorker.to]
  <2>1. revWorker.key \in Reviews
    BY <1>2, <1>10 DEF SetReviewState
  <2>2. copy \in JobRequestReview
    BY <1>2 DEF JobRequestReview
  <2>3. reviews' \in [Reviews -> JobRequestReview]
    <3>1. CASE reviews' = [reviews EXCEPT ![revWorker.key] =
                              ReviewStatusUpdated(reviews[revWorker.key], copy)]
      <4>1. ReviewStatusUpdated(reviews[revWorker.key], copy) \in JobRequestReview
        BY <1>1, <2>1, <2>2, WrittenType
      <4> HIDE DEF copy
      <4> QED
        BY <3>1, <4>1 DEF ClusterTypeOK
    <3> QED
      BY <1>10, <3>1, Zenon DEF SetReviewState, ClusterTypeOK
  <2>4. WorkerOK' /\ revQueue' \subseteq Reviews
    BY <1>2, <1>5, <1>10, <2>1 DEF SetReviewState
  <2>5. faults' \in 0..MaxFaults
    BY <1>10, FaultsType DEF SetReviewState
  <2>6. UNCHANGED <<requests, reqQueue, jobs, clock, revCache, ops, crashes, resyncs>>
    BY <1>10, Zenon DEF SetReviewState, RevFrame
  <2> QED
    BY <2>3, <2>4, <2>5, <2>6 DEF ClusterTypeOK
<1> QED
  BY <1>6, <1>7, <1>8, <1>9, <1>10 DEF RevWorkerStep

(* A review that exists names a request, whoever wrote it.                   *)
LEMMA ReviewsNameRequests ==
    ASSUME TypeOK, KeysOK, Next
    PROVE  \A r \in Reviews : Exists(reviews[r])' => reviews'[r].request \in Requests
<1> DEFINE Named(r) == Exists(reviews[r])' => reviews'[r].request \in Requests
<1> USE DEF TypeOK, ClusterTypeOK, Exists
<1>1. CASE UNCHANGED reviews
  BY <1>1 DEF KeysOK
<1>2. ASSUME NEW r \in Reviews, NEW decision \in Decisions, NEW n \in Requests,
             NEW by \in ReviewerAnnotations, CreateReview(r, n, decision, by)
      PROVE  \A q \in Reviews : Named(q)
  <2> DEFINE fresh == [NoReview(reviews[r].rv + 1) EXCEPT
                         !.uid = reviews[r].rv + 1, !.created = clock, !.by = by,
                         !.request = n, !.decision = decision]
  <2>1. fresh.request = n
    BY DEF NoReview
  <2>2. reviews' = [reviews EXCEPT ![r] = fresh]
    BY <1>2 DEF CreateReview
  <2> HIDE DEF fresh
  <2> QED
    BY <2>1, <2>2 DEF KeysOK
<1>3. ASSUME NEW r \in Reviews, ReviewDeleted(r)
      PROVE  \A q \in Reviews : Named(q)
  BY <1>3 DEF ReviewDeleted, NoReview, KeysOK
<1>4. ASSUME NEW r \in Reviews, NEW decision \in Decisions, EditReview(r, decision)
      PROVE  \A q \in Reviews : Named(q)
  BY <1>4 DEF EditReview, KeysOK, JobRequestReview
<1>5. ASSUME SetReviewState
      PROVE  \A q \in Reviews : Named(q)
  <2> DEFINE r == revWorker.key
             copy == [revWorker.obj EXCEPT !.state = revWorker.to]
  <2>1. CASE UNCHANGED reviews
    BY <1>1, <2>1
  <2>2. CASE Exists(reviews[r])
             /\ reviews' = [reviews EXCEPT ![r] = ReviewStatusUpdated(reviews[r], copy)]
    <3>1. r \in Reviews
      BY <1>5 DEF SetReviewState, KeysOK
    <3>2. ReviewStatusUpdated(reviews[r], copy).request = reviews[r].request
      BY <3>1 DEF ReviewStatusUpdated, Written, JobRequestReview
    <3> HIDE DEF copy
    <3> QED
      BY <2>2, <3>1, <3>2 DEF KeysOK
  <2> QED
    BY <1>5, <2>1, <2>2 DEF SetReviewState, Current
<1>6. ASSUME PruneReview
      PROVE  \A q \in Reviews : Named(q)
  BY <1>1, <1>3, <1>6 DEF PruneReview, KeysOK
<1>7. CASE ClusterNext
  <2>1. CASE UserNext
    BY <1>1, <1>2, <1>3, <1>4, <2>1
    DEF UserNext, CreateRequest, DeleteRequest, EditRequest, DeleteJob, CreateForeignJob,
        DeleteReview
  <2>2. CASE KubernetesNext
    BY <1>1, <2>2
    DEF KubernetesNext, Tick, FinishJob, CollectJob, ResyncRequest, SyncReview, ResyncReview, store
  <2> QED
    BY <1>7, <2>1, <2>2 DEF ClusterNext
<1>8. CASE RevWorkerStep \/ \E r \in Reviews : ReconcileReview(r)
  BY <1>1, <1>5, <1>6, <1>8 DEF RevWorkerStep, ListRequest, UpdateRequest, ReconcileReview
<1>9. CASE ReqWorkerStep \/ \E n \in Requests : ReconcileRequest(n)
  <2>1. UNCHANGED reviews
    BY <1>9
    DEF ReqWorkerStep, PruneRequest, LookUpTarget, CalculateState, CheckNoJob, CreateJob,
        CheckJob, RefreshRequest, SetRequestState, ReconcileRequest, NoWrite, store
  <2> QED
    BY <1>1, <2>1
<1>10. CASE Restart
  BY <1>1, <1>10 DEF Restart, store
<1> QED
  BY <1>7, <1>8, <1>9, <1>10
  DEF Next, RequestWorkerNext, PickRequest, ReviewWorkerNext, PickReview

(* The manager's restart keeps the types.                                    *)
LEMMA RestartType ==
    ASSUME TypeOK, Restart
    PROVE  ClusterTypeOK' /\ ReqWorkerTypeOK' /\ RevWorkerTypeOK'
<1>1. crashes' \in 0..MaxCrashes
  BY ClusterAssumption DEF Restart, TypeOK, ClusterTypeOK
<1> QED
  BY <1>1, ReqWorkerSteps, RevWorkerSteps
  DEF Restart, TypeOK, ClusterTypeOK, ReqWorkerTypeOK, RevWorkerTypeOK, store

(* An empty cluster is well typed.                                           *)
LEMMA TypeInit == Init => TypeOK /\ KeysOK
<1> SUFFICES ASSUME Init PROVE TypeOK /\ KeysOK
  OBVIOUS
<1> USE DEF Init, ClusterInit
<1>1. ClusterTypeOK
  BY ClusterAssumption, NoObjectTypes DEF ClusterTypeOK
<1>2. ReqWorkerTypeOK /\ RevWorkerTypeOK
  BY ReqWorkerSteps, RevWorkerSteps
  DEF ReqWorkerInit, RevWorkerInit, ReqWorkerTypeOK, RevWorkerTypeOK
<1>3. KeysOK
  BY DEF KeysOK, ReqBusy, ReqWorkerInit, RevWorkerInit, ReqIdle, RevIdle, Exists, NoReview
<1> QED
  BY <1>1, <1>2, <1>3 DEF TypeOK

(* Every step keeps types and keys.                                          *)
LEMMA TypeNext == TypeOK /\ KeysOK /\ [Next]_vars => TypeOK' /\ KeysOK'
<1> SUFFICES ASSUME TypeOK, KeysOK, [Next]_vars PROVE TypeOK' /\ KeysOK'
  OBVIOUS
<1>1. CASE UNCHANGED vars
  BY <1>1
  DEF vars, clusterVars, store, queues, workers, history, TypeOK, ClusterTypeOK,
      ReqWorkerTypeOK, RevWorkerTypeOK, KeysOK, ReqBusy
<1>2. CASE Next
  <2>1. ClusterTypeOK' /\ ReqWorkerTypeOK' /\ RevWorkerTypeOK'
    <3>1. CASE ClusterNext /\ UNCHANGED workers
      BY <3>1, ClusterStepType DEF workers, TypeOK, ReqWorkerTypeOK, RevWorkerTypeOK
    <3>2. CASE (ReqWorkerStep \/ \E n \in Requests : ReconcileRequest(n)) /\ UNCHANGED revWorker
      BY <3>2, ReqStepType DEF TypeOK, RevWorkerTypeOK
    <3>3. CASE (RevWorkerStep \/ \E r \in Reviews : ReconcileReview(r)) /\ UNCHANGED reqWorker
      BY <3>3, RevStepType DEF TypeOK, ReqWorkerTypeOK
    <3>4. CASE Restart
      BY <3>4, RestartType
    <3> QED
      BY <1>2, <3>1, <3>2, <3>3, <3>4
      DEF Next, RequestWorkerNext, PickRequest, ReviewWorkerNext, PickReview
  <2>2. Observe
    BY <1>2 DEF Next, RequestWorkerNext, PickRequest, ReviewWorkerNext, PickReview
  <2>3. TypeOK'
    BY <2>1, <2>2, HistoryType DEF TypeOK, ClusterTypeOK
  <2>4. (ReqBusy => reqWorker.key \in Requests)'
    <3>1. CASE UNCHANGED reqWorker
      BY <3>1 DEF KeysOK, ReqBusy
    <3>2. CASE ReqWorkerStep \/ \E n \in Requests : ReconcileRequest(n)
      BY <3>2, ReqStepType
    <3>3. CASE Restart
      BY <3>3 DEF Restart, ReqIdle, ReqBusy
    <3> QED
      BY <1>2, <3>1, <3>2, <3>3
      DEF Next, RequestWorkerNext, PickRequest, ReviewWorkerNext, PickReview, workers
  <2>5. /\ (revWorker.pc # "Idle" => revWorker.key \in Reviews)'
        /\ (revWorker.pc \in {"ListRequest", "UpdateRequest"}
              => revWorker.obj.request \in Requests)'
    <3>1. CASE UNCHANGED revWorker
      BY <3>1 DEF KeysOK
    <3>2. CASE RevWorkerStep \/ \E r \in Reviews : ReconcileReview(r)
      BY <3>2, RevStepType
    <3>3. CASE Restart
      BY <3>3 DEF Restart, RevIdle
    <3> QED
      BY <1>2, <3>1, <3>2, <3>3
      DEF Next, RequestWorkerNext, PickRequest, ReviewWorkerNext, PickReview, workers
  <2>6. \A r \in Reviews : Exists(reviews[r])' => reviews'[r].request \in Requests
    BY <1>2, ReviewsNameRequests
  <2>7. \A r \in Reviews : \/ revCache'[r] = revCache[r]
                           \/ revCache'[r] = reviews[r]
    <3>1. CASE UNCHANGED revCache
      BY <3>1
    <3>2. CASE \E r \in Reviews : SyncReview(r)
      BY <3>2 DEF SyncReview, TypeOK, ClusterTypeOK
    <3>3. CASE Restart
      BY <3>3 DEF Restart
    <3>4. CASE ClusterNext
      BY <3>1, <3>2, <3>4
      DEF ClusterNext, UserNext, KubernetesNext, CreateRequest, DeleteRequest, EditRequest,
          DeleteJob, CreateForeignJob, CreateReview, EditReview, DeleteReview, Tick, FinishJob,
          CollectJob, ResyncRequest, ResyncReview
    <3>5. CASE ReqWorkerStep \/ \E n \in Requests : ReconcileRequest(n)
      BY <3>1, <3>5
      DEF ReqWorkerStep, PruneRequest, LookUpTarget, CalculateState, CheckNoJob, CreateJob,
          CheckJob, RefreshRequest, SetRequestState, ReconcileRequest, ReqFrame
    <3>6. CASE RevWorkerStep \/ \E r \in Reviews : ReconcileReview(r)
      BY <3>1, <3>6
      DEF RevWorkerStep, PruneReview, ListRequest, UpdateRequest, SetReviewState,
          ReconcileReview, RevFrame
    <3> QED
      BY <1>2, <3>3, <3>4, <3>5, <3>6
      DEF Next, RequestWorkerNext, PickRequest, ReviewWorkerNext, PickReview
  <2>8. \A r \in Reviews : Exists(revCache[r])' => revCache'[r].request \in Requests
    BY <2>7 DEF KeysOK, Exists
  <2> QED
    BY <2>3, <2>4, <2>5, <2>6, <2>8 DEF KeysOK
<1> QED
  BY <1>1, <1>2

(* Type correctness: every object stored, cached or held by a worker is one  *)
(* its API type allows, every state written is in the enumeration the CRD    *)
(* declares, and the bounds hold.                                            *)
THEOREM TypeCorrectness == Spec => []TypeOK
<1>1. Init => TypeOK /\ KeysOK
  BY TypeInit
<1>2. TypeOK /\ KeysOK /\ [Next]_vars => (TypeOK /\ KeysOK)'
  BY TypeNext
<1> QED
  BY <1>1, <1>2, PTL DEF Spec

-----------------------------------------------------------------------------
(* What a step can do to a request, to a Job and to the workers, whichever   *)
(* action it is.                                                             *)

RequestKept(n) == requests'[n] = requests[n]

OwnFieldsStay(n) ==
    requests'[n].created = requests[n].created /\ requests'[n].by = requests[n].by

ReviewNamed(n, review) == requests'[n].reviewName = review

RequestCreated(n) ==
    /\ ~Exists(requests[n])
    /\ requests'[n].uid = requests[n].rv + 1 /\ requests'[n].rv = requests[n].rv + 1
    /\ requests'[n].state = "" /\ ReviewNamed(n, NoName)

RequestGone(n) ==
    /\ Exists(requests[n])
    /\ requests'[n].uid = 0 /\ requests'[n].rv = requests[n].rv + 1 /\ requests'[n].state = ""

RequestEdited(n) ==
    /\ requests'[n].uid = requests[n].uid /\ requests'[n].rv = requests[n].rv + 1
    /\ requests'[n].state = requests[n].state
    /\ Allowed("EditRequest") /\ OwnFieldsStay(n) /\ ReviewNamed(n, requests[n].reviewName)

RequestDecided(n) ==
    /\ Deciding /\ n = revWorker.obj.request /\ Current(revWorker.req, requests[n])
    /\ requests'[n].uid = requests[n].uid /\ requests'[n].rv = requests[n].rv + 1
    /\ requests'[n].state = revWorker.obj.decision
    /\ OwnFieldsStay(n) /\ ReviewNamed(n, revWorker.key)
    /\ UpdateRequest /\ UNCHANGED reqWorker

RequestSet(n) ==
    /\ reqWorker.pc = "SetState" /\ n = reqWorker.key /\ Current(reqWorker.obj, requests[n])
    /\ requests'[n].uid = requests[n].uid /\ requests'[n].rv = requests[n].rv + 1
    /\ requests'[n].state = reqWorker.to
    /\ OwnFieldsStay(n) /\ ReviewNamed(n, reqWorker.obj.reviewName)
    /\ SetRequestState /\ reqWorker' = ReqIdle

(* A status update changes the version and the status of a request, and no   *)
(* more.                                                                     *)
LEMMA WrittenFields ==
    ASSUME NEW stored \in JobRequest, NEW copy \in JobRequest
    PROVE  \/ RequestStatusUpdated(stored, copy) = stored
           \/ /\ RequestStatusUpdated(stored, copy).uid = stored.uid
              /\ RequestStatusUpdated(stored, copy).rv = stored.rv + 1
              /\ RequestStatusUpdated(stored, copy).state = copy.state
              /\ RequestStatusUpdated(stored, copy).created = stored.created
              /\ RequestStatusUpdated(stored, copy).by = stored.by
              /\ RequestStatusUpdated(stored, copy).reviewName = copy.reviewName
  BY DEF RequestStatusUpdated, Written, JobRequest

(* What a step can do to a request.                                          *)
LEMMA RequestSteps ==
    ASSUME TypeOK, KeysOK, Next, NEW n \in Requests
    PROVE  \/ RequestKept(n) \/ RequestCreated(n) \/ RequestGone(n)
           \/ RequestEdited(n) \/ RequestDecided(n) \/ RequestSet(n)
<1> DEFINE Step == \/ RequestKept(n) \/ RequestCreated(n) \/ RequestGone(n)
                   \/ RequestEdited(n) \/ RequestDecided(n) \/ RequestSet(n)
<1> USE DEF TypeOK, ClusterTypeOK
<1>1. requests \in [Requests -> JobRequest]
  OBVIOUS
<1>2. CASE UNCHANGED requests
  BY <1>2 DEF RequestKept
<1>3. ASSUME NEW m \in Requests, NEW by \in RequesterAnnotations, CreateRequest(m, by)
      PROVE  Step
  <2> DEFINE version == requests[m].rv + 1
             fresh == [NoRequest(version) EXCEPT !.uid = version, !.created = clock, !.by = by]
  <2>1. /\ fresh.uid = version /\ fresh.rv = version /\ fresh.state = ""
        /\ fresh.reviewName = NoName
    BY DEF NoRequest
  <2>2. ~Exists(requests[m]) /\ requests' = [requests EXCEPT ![m] = fresh]
    BY <1>3 DEF CreateRequest
  <2> HIDE DEF fresh
  <2> QED
    BY <1>1, <2>1, <2>2 DEF RequestKept, RequestCreated, ReviewNamed
<1>4. ASSUME NEW m \in Requests, RequestDeleted(m)
      PROVE  Step
  BY <1>4 DEF RequestDeleted, NoRequest, RequestKept, RequestGone
<1>5. ASSUME NEW m \in Requests, EditRequest(m)
      PROVE  Step
  BY <1>5
  DEF EditRequest, RequestKept, RequestEdited, OwnFieldsStay, ReviewNamed, JobRequest
<1>6. ASSUME UpdateRequest, UNCHANGED reqWorker
      PROVE  Step
  <2> DEFINE m == revWorker.obj.request
             copy == Decided(revWorker.req, revWorker.key, revWorker.obj.decision)
  <2>1. m \in Requests
    BY <1>6 DEF UpdateRequest, KeysOK
  <2>2. /\ copy \in JobRequest /\ copy.rv = revWorker.req.rv
        /\ copy.state = revWorker.obj.decision /\ copy.reviewName = revWorker.key
    <3>1. /\ revWorker.req \in JobRequest /\ revWorker.obj.decision \in JobRequestStates
          /\ revWorker.key \in Reviews
      BY <1>6
      DEF RevWorkerTypeOK, RevWorkers, KeysOK, UpdateRequest, JobRequestReview, Decisions,
          JobRequestStates
    <3> QED
      BY <3>1 DEF Decided, JobRequest
  <2>3. CASE /\ Current(copy, requests[m])
             /\ requests' = [requests EXCEPT ![m] = RequestStatusUpdated(requests[m], copy)]
    <3>1. requests[m] \in JobRequest
      BY <2>1
    <3>2. Current(revWorker.req, requests[m])
      BY <2>2, <2>3 DEF Current
    <3>3. revWorker.pc = "UpdateRequest"
      BY <1>6 DEF UpdateRequest
    <3> HIDE DEF copy
    <3>4. requests'[m] = RequestStatusUpdated(requests[m], copy)
          /\ \A q \in Requests : q # m => requests'[q] = requests[q]
      BY <1>1, <2>1, <2>3
    <3> QED
      BY <1>6, <2>2, <3>1, <3>2, <3>3, <3>4, WrittenFields
      DEF RequestKept, RequestDecided, OwnFieldsStay, ReviewNamed, Deciding
  <2> QED
    BY <1>2, <1>6, <2>3, Zenon DEF UpdateRequest
<1>7. ASSUME SetRequestState
      PROVE  Step
  <2> DEFINE m == reqWorker.key
             copy == [reqWorker.obj EXCEPT !.state = reqWorker.to]
  <2>1. m \in Requests
    BY <1>7 DEF SetRequestState, KeysOK, ReqBusy
  <2>2. /\ copy \in JobRequest /\ copy.rv = reqWorker.obj.rv
        /\ copy.state = reqWorker.to /\ copy.reviewName = reqWorker.obj.reviewName
    <3>1. reqWorker.obj \in JobRequest /\ reqWorker.to \in JobRequestStates
      BY DEF ReqWorkerTypeOK, ReqWorkers
    <3> QED
      BY <3>1 DEF JobRequest
  <2>3. CASE /\ Current(copy, requests[m])
             /\ requests' = [requests EXCEPT ![m] = RequestStatusUpdated(requests[m], copy)]
    <3>1. requests[m] \in JobRequest
      BY <2>1
    <3>2. Current(reqWorker.obj, requests[m])
      BY <2>2, <2>3 DEF Current
    <3>3. reqWorker.pc = "SetState" /\ reqWorker' = ReqIdle
      BY <1>7, Zenon DEF SetRequestState, Finish
    <3> HIDE DEF copy
    <3>4. requests'[m] = RequestStatusUpdated(requests[m], copy)
          /\ \A q \in Requests : q # m => requests'[q] = requests[q]
      BY <1>1, <2>1, <2>3
    <3> QED
      BY <1>7, <2>2, <3>1, <3>2, <3>3, <3>4, WrittenFields
      DEF RequestKept, RequestSet, OwnFieldsStay, ReviewNamed
  <2> QED
    BY <1>2, <1>7, <2>3, Zenon DEF SetRequestState
<1>8. CASE ClusterNext
  <2>1. CASE UserNext
    BY <1>2, <1>3, <1>4, <1>5, <2>1
    DEF UserNext, DeleteRequest, DeleteJob, CreateForeignJob, CreateReview, EditReview,
        DeleteReview
  <2>2. CASE KubernetesNext
    BY <1>2, <2>2
    DEF KubernetesNext, Tick, FinishJob, CollectJob, ResyncRequest, SyncReview, ResyncReview, store
  <2> QED
    BY <1>8, <2>1, <2>2 DEF ClusterNext
<1>9. CASE ReqWorkerStep \/ \E m \in Requests : ReconcileRequest(m)
  <2>1. CASE PruneRequest
    BY <1>2, <1>4, <2>1 DEF PruneRequest, KeysOK, ReqBusy
  <2> QED
    BY <1>2, <1>7, <1>9, <2>1
    DEF ReqWorkerStep, LookUpTarget, CalculateState, CheckNoJob, CreateJob, CheckJob,
        RefreshRequest, ReconcileRequest, NoWrite, store
<1>10. CASE (RevWorkerStep \/ \E r \in Reviews : ReconcileReview(r)) /\ UNCHANGED reqWorker
  BY <1>2, <1>6, <1>10
  DEF RevWorkerStep, PruneReview, ListRequest, SetReviewState, ReconcileReview
<1>11. CASE Restart
  BY <1>2, <1>11 DEF Restart, store
<1> QED
  BY <1>8, <1>9, <1>10, <1>11
  DEF Next, RequestWorkerNext, PickRequest, ReviewWorkerNext, PickReview

(* A version names one content: what is stored at a version does not change  *)
(* while the version does not.                                               *)
LEMMA VersionsGrow ==
    ASSUME TypeOK, KeysOK, [Next]_vars, NEW n \in Requests
    PROVE  /\ requests[n].rv \in Nat /\ requests'[n].rv \in Nat
           /\ requests[n].rv <= requests'[n].rv
           /\ requests'[n].rv = requests[n].rv => requests'[n] = requests[n]
<1>1. requests[n].rv \in Nat
  BY DEF TypeOK, ClusterTypeOK, JobRequest
<1>2. CASE UNCHANGED vars
  BY <1>1, <1>2 DEF vars, clusterVars, store
<1>3. CASE Next
  <2>1. requests'[n] = requests[n] \/ requests'[n].rv = requests[n].rv + 1
    BY <1>3, RequestSteps
    DEF RequestKept, RequestCreated, RequestGone, RequestEdited, RequestDecided, RequestSet
  <2> QED
    BY <1>1, <2>1
<1> QED
  BY <1>2, <1>3

(* What a step can do to a review.                                           *)

ReviewKept(r) == reviews'[r] = reviews[r]

ReviewCreated(r) ==
    /\ ~Exists(reviews[r])
    /\ reviews'[r].uid = reviews[r].rv + 1 /\ reviews'[r].rv = reviews[r].rv + 1
    /\ reviews'[r].state = ""
    /\ UNCHANGED <<requests, revCache>>

ReviewGone(r) ==
    /\ Allowed("DeleteReview") \/ (revWorker.pc = "Delete" /\ r = revWorker.key)
    /\ reviews'[r].uid = 0 /\ reviews'[r].rv = reviews[r].rv + 1 /\ reviews'[r].state = ""
    /\ UNCHANGED requests

ReviewEdited(r) ==
    /\ reviews'[r].uid = reviews[r].uid /\ reviews'[r].rv = reviews[r].rv + 1
    /\ reviews'[r].request = reviews[r].request /\ reviews'[r].state = reviews[r].state
    /\ reviews'[r].by = reviews[r].by /\ reviews'[r].created = reviews[r].created
    /\ UNCHANGED requests

ReviewSet(r) ==
    /\ revWorker.pc = "SetState" /\ r = revWorker.key /\ Current(revWorker.obj, reviews[r])
    /\ reviews'[r].uid = reviews[r].uid /\ reviews'[r].rv = reviews[r].rv + 1
    /\ reviews'[r].request = reviews[r].request /\ reviews'[r].state = revWorker.to
    /\ reviews'[r].by = reviews[r].by /\ reviews'[r].created = reviews[r].created
    /\ SetReviewState /\ UNCHANGED requests

(* What a step can do to a review.                                           *)
LEMMA ReviewSteps ==
    ASSUME TypeOK, KeysOK, Next, NEW r \in Reviews
    PROVE  \/ ReviewKept(r) \/ ReviewCreated(r) \/ ReviewGone(r) \/ ReviewEdited(r)
           \/ ReviewSet(r)
<1> DEFINE Step == \/ ReviewKept(r) \/ ReviewCreated(r) \/ ReviewGone(r) \/ ReviewEdited(r)
                   \/ ReviewSet(r)
<1> USE DEF TypeOK, ClusterTypeOK
<1>1. reviews \in [Reviews -> JobRequestReview]
  OBVIOUS
<1>2. CASE UNCHANGED reviews
  BY <1>2 DEF ReviewKept
<1>3. ASSUME NEW q \in Reviews, NEW decision \in Decisions, NEW n \in Requests,
             NEW by \in ReviewerAnnotations, CreateReview(q, n, decision, by)
      PROVE  Step
  <2> DEFINE fresh == [NoReview(reviews[q].rv + 1) EXCEPT
                         !.uid = reviews[q].rv + 1, !.created = clock, !.by = by,
                         !.request = n, !.decision = decision]
  <2>1. /\ fresh.uid = reviews[q].rv + 1 /\ fresh.rv = reviews[q].rv + 1
        /\ fresh.state = ""
    BY DEF NoReview
  <2>2. ~Exists(reviews[q]) /\ reviews' = [reviews EXCEPT ![q] = fresh]
    BY <1>3 DEF CreateReview
  <2>3. UNCHANGED <<requests, revCache>>
    BY <1>3, Zenon DEF CreateReview
  <2> HIDE DEF fresh
  <2> QED
    BY <1>1, <2>1, <2>2, <2>3 DEF ReviewKept, ReviewCreated
<1>4. ASSUME NEW q \in Reviews, ReviewDeleted(q), UNCHANGED requests,
             Allowed("DeleteReview") \/ (revWorker.pc = "Delete" /\ q = revWorker.key)
      PROVE  Step
  BY <1>1, <1>4 DEF ReviewDeleted, NoReview, ReviewKept, ReviewGone
<1>5. ASSUME NEW q \in Reviews, NEW decision \in Decisions, EditReview(q, decision)
      PROVE  Step
  BY <1>1, <1>5 DEF EditReview, JobRequestReview, ReviewKept, ReviewEdited
<1>6. ASSUME SetReviewState
      PROVE  Step
  <2> DEFINE q == revWorker.key
             copy == [revWorker.obj EXCEPT !.state = revWorker.to]
             written == ReviewStatusUpdated(reviews[q], copy)
  <2>1. q \in Reviews /\ revWorker.pc = "SetState"
    BY <1>6 DEF SetReviewState, KeysOK
  <2>2. /\ copy \in JobRequestReview /\ copy.rv = revWorker.obj.rv
        /\ copy.state = revWorker.to
    <3>1. revWorker.obj \in JobRequestReview /\ revWorker.to \in JobRequestReviewStates
      BY DEF RevWorkerTypeOK, RevWorkers
    <3> QED
      BY <3>1 DEF JobRequestReview
  <2>3. CASE Current(copy, reviews[q]) /\ reviews' = [reviews EXCEPT ![q] = written]
    <3>1. \/ written = reviews[q]
          \/ /\ written.uid = reviews[q].uid /\ written.rv = reviews[q].rv + 1
             /\ written.request = reviews[q].request /\ written.state = copy.state
             /\ written.by = reviews[q].by /\ written.created = reviews[q].created
      <4>1. reviews[q] \in JobRequestReview
        BY <2>1
      <4> HIDE DEF copy
      <4> QED
        BY <2>2, <4>1 DEF ReviewStatusUpdated, Written, JobRequestReview
    <3>2. Current(revWorker.obj, reviews[q])
      BY <2>2, <2>3 DEF Current
    <3>3. UNCHANGED requests
      BY <1>6, Zenon DEF SetReviewState
    <3> HIDE DEF copy, written
    <3> QED
      BY <1>1, <1>6, <2>1, <2>2, <2>3, <3>1, <3>2, <3>3 DEF ReviewKept, ReviewSet
  <2> QED
    BY <1>2, <1>6, <2>3, Zenon DEF SetReviewState
<1>7. CASE ClusterNext
  <2>1. CASE UserNext
    BY <1>2, <1>3, <1>4, <1>5, <2>1
    DEF UserNext, CreateRequest, DeleteRequest, EditRequest, DeleteJob, CreateForeignJob,
        DeleteReview
  <2>2. CASE KubernetesNext
    BY <1>2, <2>2
    DEF KubernetesNext, Tick, FinishJob, CollectJob, ResyncRequest, SyncReview, ResyncReview, store
  <2> QED
    BY <1>7, <2>1, <2>2 DEF ClusterNext
<1>8. CASE RevWorkerStep \/ \E q \in Reviews : ReconcileReview(q)
  <2>1. CASE PruneReview
    BY <1>2, <1>4, <2>1 DEF PruneReview, KeysOK
  <2> QED
    BY <1>2, <1>6, <1>8, <2>1 DEF RevWorkerStep, ListRequest, UpdateRequest, ReconcileReview
<1>9. CASE ReqWorkerStep \/ \E n \in Requests : ReconcileRequest(n)
  <2>1. UNCHANGED reviews
    BY <1>9
    DEF ReqWorkerStep, PruneRequest, LookUpTarget, CalculateState, CheckNoJob, CreateJob,
        CheckJob, RefreshRequest, SetRequestState, ReconcileRequest, NoWrite, store
  <2> QED
    BY <1>2, <2>1
<1>10. CASE Restart
  BY <1>2, <1>10 DEF Restart, store
<1> QED
  BY <1>7, <1>8, <1>9, <1>10
  DEF Next, RequestWorkerNext, PickRequest, ReviewWorkerNext, PickReview

JobKept(n) == jobs'[n] = jobs[n]

(* By a user, or because its request is gone.                               *)
RemovedFor(n) ==
    Allowed("DeleteJob") \/ (jobs[n].owner # 0 /\ requests[n].uid # jobs[n].owner)

JobRemoved(n) ==
    /\ jobs[n].phase # "Absent" /\ jobs'[n] = NoJob /\ RemovedFor(n)
    /\ UNCHANGED requests

JobMadeByOthers(n) == jobs[n].phase = "Absent" /\ jobs'[n].owner = 0 /\ UNCHANGED requests

JobFinished(n) ==
    /\ jobs[n].phase = "Running" /\ jobs'[n].phase \in {"Complete", "Failed"}
    /\ jobs'[n].owner = jobs[n].owner /\ UNCHANGED requests

(* The Create succeeds, unless it fails with the Job created.               *)
CreateIsAnswered ==
    \/ faults' # faults
    \/ /\ reqWorker'.pc = "SetState" /\ reqWorker'.to = "Started"
       /\ reqWorker'.key = reqWorker.key

JobMade(n) ==
    /\ reqWorker.pc = "CreateJob" /\ n = reqWorker.key
    /\ jobs[n].phase = "Absent"
    /\ jobs'[n].owner = reqWorker.obj.uid /\ jobs'[n].phase = "Running"
    /\ CreateIsAnswered /\ UNCHANGED requests

(* What a step can do to a Job.                                              *)
LEMMA JobSteps ==
    ASSUME TypeOK, KeysOK, JobsOK, Next, NEW n \in Requests
    PROVE  \/ JobKept(n) \/ JobRemoved(n) \/ JobMadeByOthers(n) \/ JobFinished(n) \/ JobMade(n)
<1> DEFINE Step == \/ JobKept(n) \/ JobRemoved(n) \/ JobMadeByOthers(n)
                   \/ JobFinished(n) \/ JobMade(n)
<1> USE DEF TypeOK, ClusterTypeOK
<1>1. jobs \in [Requests -> Job]
  OBVIOUS
<1>2. CASE UNCHANGED jobs
  BY <1>2 DEF JobKept
<1>3. ASSUME NEW m \in Requests, DeleteJob(m) \/ CollectJob(m)
      PROVE  Step
  BY <1>1, <1>3 DEF DeleteJob, CollectJob, JobExists, JobsOK, JobKept, JobRemoved, RemovedFor
<1>4. ASSUME NEW m \in Requests, CreateForeignJob(m)
      PROVE  Step
  BY <1>1, <1>4 DEF CreateForeignJob, JobExists, JobKept, JobMadeByOthers
<1>5. ASSUME NEW m \in Requests, NEW outcome \in {"Complete", "Failed"}, FinishJob(m, outcome)
      PROVE  Step
  BY <1>1, <1>5 DEF FinishJob, JobKept, JobFinished, Job
<1>6. ASSUME CreateJob
      PROVE  Step
  <2>1. CASE StoreJob(reqWorker.key, reqWorker.obj.uid)
    <3>1. CreateIsAnswered
      <4>1. ApiFault => faults' # faults
        BY DEF ApiFault
      <4>2. reqWorker' = [reqWorker EXCEPT !.pc = "SetState", !.to = "Started",
                                           !.obj.jobName = reqWorker.key]
              => CreateIsAnswered
        BY DEF CreateIsAnswered, ReqWorkerTypeOK, ReqWorkers
      <4>3. ~JobNameTaken(reqWorker.key)
        BY <2>1 DEF StoreJob
      <4> QED
        BY <1>6, <4>1, <4>2, <4>3, Zenon DEF CreateJob, CreateIsAnswered
    <3> QED
      BY <1>1, <1>6, <2>1, <3>1
      DEF CreateJob, StoreJob, JobNameTaken, JobExists, JobKept, JobMade
  <2> QED
    BY <1>2, <1>6, <2>1, Zenon DEF CreateJob
<1>7. CASE ClusterNext
  <2>1. CASE UserNext
    BY <1>2, <1>3, <1>4, <2>1
    DEF UserNext, CreateRequest, DeleteRequest, EditRequest, CreateReview, EditReview,
        DeleteReview
  <2>2. CASE KubernetesNext
    BY <1>2, <1>3, <1>5, <2>2
    DEF KubernetesNext, Tick, ResyncRequest, SyncReview, ResyncReview, store
  <2> QED
    BY <1>7, <2>1, <2>2 DEF ClusterNext
<1>8. CASE ReqWorkerStep \/ \E m \in Requests : ReconcileRequest(m)
  BY <1>2, <1>6, <1>8
  DEF ReqWorkerStep, PruneRequest, LookUpTarget, CalculateState, CheckNoJob, CheckJob,
      RefreshRequest, SetRequestState, ReconcileRequest, NoWrite, store
<1>9. CASE RevWorkerStep \/ \E r \in Reviews : ReconcileReview(r)
  BY <1>2, <1>9
  DEF RevWorkerStep, PruneReview, ListRequest, UpdateRequest, SetReviewState, ReconcileReview,
      RevFrame
<1>10. CASE Restart
  BY <1>2, <1>10 DEF Restart, store
<1> QED
  BY <1>7, <1>8, <1>9, <1>10
  DEF Next, RequestWorkerNext, PickRequest, ReviewWorkerNext, PickReview

PickedFor(n) ==
    /\ reqWorker'.pc = "Delete" => Expired(requests[n])
    /\ reqWorker'.pc = "SetState" => ~Identified(requests[n].by)

WorkerPicks(n) ==
    /\ Exists(requests[n])
    /\ reqWorker'.key = n /\ reqWorker'.obj = requests[n]
    /\ reqWorker'.pc \in {"Delete", "SetState", "ListTarget"}
    /\ reqWorker'.pc # "Delete" => ~InTerminalState(requests[n].state)
    /\ reqWorker'.pc = "SetState" => reqWorker'.to = "Malformed"
    /\ PickedFor(n) /\ UNCHANGED requests

MovedFor ==
    /\ reqWorker'.pc = "GetJob" => reqWorker.obj.state \in {"Approved", "Started"}
    /\ reqWorker'.pc = "GetAgain" =>
          /\ reqWorker.obj.state = "Started"
          /\ reqWorker'.to = Outcome(jobs[reqWorker.key].phase) /\ UNCHANGED jobs
    /\ reqWorker'.pc = "SetState" =>
          \/ /\ reqWorker'.to = "Started" /\ reqWorker.pc = "CreateJob"
             /\ jobs'[reqWorker.key].owner = reqWorker.obj.uid
          \/ reqWorker'.to = "Conflicted" /\ reqWorker.obj.state = "Approved"
          \/ /\ reqWorker'.to = "Pending"
             /\ \/ reqWorker.obj.state = "Pending" \/ ~Reviewed(reqWorker.key)
                \/ faults' # faults
          \/ /\ reqWorker'.to = "Malformed"
             /\ reqWorker.pc \in {"GetJob", "CreateJob"} \/ ~(Targets \subseteq {"Found"})
    /\ reqWorker'.obj = IF reqWorker'.pc = "SetState" /\ reqWorker'.to = "Started"
                        THEN [reqWorker.obj EXCEPT !.jobName = reqWorker.key]
                        ELSE reqWorker.obj

WorkerMoves ==
    /\ reqWorker.pc \notin {"Idle", "Delete", "SetState"}
    /\ reqWorker'.pc \in {"ListReviews", "GetJob", "CreateJob", "GetAgain", "SetState"}
    /\ reqWorker'.key = reqWorker.key
    /\ reqWorker'.obj.uid = reqWorker.obj.uid /\ reqWorker'.obj.rv = reqWorker.obj.rv
    /\ reqWorker'.obj.state = reqWorker.obj.state
    /\ reqWorker'.pc = "SetState" =>
          \/ reqWorker'.to \in {"Pending", "Malformed", "Conflicted"}
          \/ reqWorker.pc = "CreateJob" /\ reqWorker'.to = "Started"
    /\ reqWorker'.pc = "GetAgain" => reqWorker'.to \in {"", "Complete", "Failed"}
    /\ reqWorker'.pc = "CreateJob" => reqWorker.obj.state = "Approved"
    /\ MovedFor /\ UNCHANGED requests

WorkerRefreshes ==
    /\ reqWorker.pc = "GetAgain" /\ reqWorker'.pc = "SetState"
    /\ reqWorker'.key = reqWorker.key /\ reqWorker'.obj = requests[reqWorker.key]
    /\ reqWorker'.to = reqWorker.to /\ reqWorker.to # ""
    /\ Exists(requests[reqWorker.key])
    /\ UNCHANGED <<requests, jobs>>

(* What a step can do to the worker of the request controller.               *)
LEMMA ReqWorkerChanges ==
    ASSUME TypeOK, KeysOK, Next
    PROVE  \/ UNCHANGED reqWorker \/ reqWorker' = ReqIdle \/ WorkerMoves \/ WorkerRefreshes
           \/ \E n \in Requests : WorkerPicks(n)
<1> DEFINE Change == \/ UNCHANGED reqWorker \/ reqWorker' = ReqIdle
                     \/ WorkerMoves \/ WorkerRefreshes \/ \E n \in Requests : WorkerPicks(n)
<1> USE DEF TypeOK, ReqWorkerTypeOK
<1>1. reqWorker \in ReqWorkers
  OBVIOUS
<1>2. ASSUME NEW retry, Finish(retry)
      PROVE  Change
  BY <1>2 DEF Finish
<1>3. ASSUME NEW n \in Requests, ReconcileRequest(n)
      PROVE  Change
  <2>1. ASSUME Exists(requests[n]), StartOfReconcile(n, requests[n])
        PROVE  Change
    <3>1. UNCHANGED requests
      BY <1>3 DEF ReconcileRequest, NoWrite, store
    <3>2. requests[n] \in JobRequest
      BY DEF ClusterTypeOK
    <3>3. CASE Expired(requests[n]) /\ Hold(n, requests[n], "Delete", "")
      <4>1. reqWorker' = [pc |-> "Delete", key |-> n, obj |-> requests[n], to |-> "",
                          retry |-> FALSE]
        BY <3>2, <3>3, ReqWorkerSteps DEF ReqWorkerPcs, JobRequestStates
      <4> QED
        BY <2>1, <3>1, <3>3, <4>1 DEF WorkerPicks, PickedFor
    <3>4. CASE /\ ~InTerminalState(requests[n].state)
               /\ \/ /\ ~Identified(requests[n].by)
                     /\ Hold(n, requests[n], "SetState", "Malformed")
                  \/ Hold(n, requests[n], "ListTarget", "")
      <4>1. \/ /\ reqWorker' = [pc |-> "SetState", key |-> n, obj |-> requests[n],
                                to |-> "Malformed", retry |-> FALSE]
               /\ ~Identified(requests[n].by)
            \/ reqWorker' = [pc |-> "ListTarget", key |-> n, obj |-> requests[n],
                             to |-> "", retry |-> FALSE]
        BY <3>2, <3>4, ReqWorkerSteps DEF ReqWorkerPcs, JobRequestStates
      <4>2. /\ reqWorker'.key = n /\ reqWorker'.obj = requests[n]
            /\ reqWorker'.pc \in {"SetState", "ListTarget"}
            /\ reqWorker'.pc = "SetState" =>
                  reqWorker'.to = "Malformed" /\ ~Identified(requests[n].by)
        <5>1. CASE /\ reqWorker' = [pc |-> "SetState", key |-> n, obj |-> requests[n],
                                    to |-> "Malformed", retry |-> FALSE]
                   /\ ~Identified(requests[n].by)
          BY <5>1
        <5>2. CASE reqWorker' = [pc |-> "ListTarget", key |-> n, obj |-> requests[n],
                                 to |-> "", retry |-> FALSE]
          BY <5>2
        <5> QED
          BY <4>1, <5>1, <5>2
      <4> QED
        BY <2>1, <3>1, <3>4, <4>2 DEF WorkerPicks, PickedFor
    <3> QED
      BY <2>1, <3>3, <3>4 DEF StartOfReconcile
  <2> QED
    BY <1>3, <2>1 DEF ReconcileRequest
<1>4. ASSUME LookUpTarget \/ CalculateState \/ CheckNoJob \/ CheckJob
      PROVE  Change
  <2>1. UNCHANGED requests /\ reqWorker.pc \in {"ListTarget", "ListReviews", "GetJob"}
    BY <1>4 DEF LookUpTarget, CalculateState, CheckNoJob, CheckJob, NoWrite, store
  <2>2. CASE \/ Continue("ListReviews")
             \/ Continue("GetJob") /\ reqWorker.obj.state \in {"Approved", "Started"}
    BY <1>1, <2>1, <2>2, ReqWorkerSteps
    DEF WorkerMoves, MovedFor, ReqWorkerPcs, JobRequestStates
  <2>3. CASE Continue("CreateJob") /\ reqWorker.obj.state = "Approved"
    BY <1>1, <2>1, <2>3, ReqWorkerSteps
    DEF WorkerMoves, MovedFor, ReqWorkerPcs, JobRequestStates
  <2>4. CASE \/ /\ ThenSetState("Malformed", FALSE)
                /\ reqWorker.pc = "GetJob" \/ ~(Targets \subseteq {"Found"})
             \/ ThenSetState("Conflicted", FALSE) /\ reqWorker.obj.state = "Approved"
             \/ /\ ThenSetState("Pending", FALSE)
                /\ \/ reqWorker.obj.state = "Pending" \/ ~Reviewed(reqWorker.key)
                   \/ faults' # faults
    BY <1>1, <2>1, <2>4, ReqWorkerSteps
    DEF WorkerMoves, MovedFor, ReqWorkerPcs, JobRequestStates
  <2>5. CASE /\ reqWorker' = [reqWorker EXCEPT !.pc = "GetAgain",
                                               !.to = Outcome(jobs[reqWorker.key].phase)]
             /\ reqWorker.obj.state = "Started" /\ UNCHANGED jobs
    BY <1>1, <2>1, <2>5 DEF WorkerMoves, MovedFor, ReqWorkers, Outcome
  <2>6. CASE \E retry \in BOOLEAN : Finish(retry)
    BY <1>2, <2>6
  <2>7. CASE LookUpTarget
    <3>1. Targets \cap {"NotFound", "NoContainer"} # {} => ~(Targets \subseteq {"Found"})
      OBVIOUS
    <3> QED
      BY <2>2, <2>4, <2>6, <2>7, <3>1 DEF LookUpTarget
  <2>8. CASE CalculateState
    <3> DEFINE state == CalculatedState(reqWorker.obj, Reviewed(reqWorker.key))
    <3>1. /\ state = "Pending" => reqWorker.obj.state = "Pending" \/ ~Reviewed(reqWorker.key)
          /\ state # "Pending" => state = reqWorker.obj.state
      BY DEF CalculatedState
    <3>2. ApiFault => faults' # faults
      BY DEF ApiFault
    <3>3. CASE HandleState(state)
      <4> HIDE DEF state
      <4> QED
        BY <2>2, <2>4, <2>6, <3>1, <3>3 DEF HandleState
    <3>4. CASE HandleState("Pending") /\ ApiFault
      BY <2>4, <3>2, <3>4 DEF HandleState
    <3> QED
      BY <2>8, <3>3, <3>4 DEF CalculateState
  <2>9. CASE CheckNoJob
    BY <2>3, <2>4, <2>6, <2>9 DEF CheckNoJob
  <2>10. CASE CheckJob
    BY <2>4, <2>5, <2>10 DEF CheckJob, NoWrite, store
  <2> QED
    BY <1>4, <2>7, <2>8, <2>9, <2>10
<1>5. ASSUME CreateJob
      PROVE  Change
  <2>1. UNCHANGED requests /\ reqWorker.pc = "CreateJob"
    BY <1>5 DEF CreateJob
  <2>2. CASE ThenSetState("Malformed", TRUE)
    BY <1>1, <2>1, <2>2, ReqWorkerSteps
    DEF WorkerMoves, MovedFor, ReqWorkerPcs, JobRequestStates
  <2>3. CASE /\ StoreJob(reqWorker.key, reqWorker.obj.uid)
             /\ reqWorker' = [reqWorker EXCEPT !.pc = "SetState", !.to = "Started",
                                               !.obj.jobName = reqWorker.key]
    <3>1. reqWorker' = [reqWorker EXCEPT !.pc = "SetState", !.to = "Started",
                           !.obj = [reqWorker.obj EXCEPT !.jobName = reqWorker.key]]
      BY <1>1, <2>3 DEF ReqWorkers
    <3>2. /\ reqWorker'.pc = "SetState" /\ reqWorker'.to = "Started"
          /\ reqWorker'.key = reqWorker.key
          /\ reqWorker'.obj = [reqWorker.obj EXCEPT !.jobName = reqWorker.key]
      BY <1>1, <3>1 DEF ReqWorkers
    <3>3. reqWorker.obj \in JobRequest
      BY <1>1 DEF ReqWorkers
    <3>4. /\ reqWorker'.obj.uid = reqWorker.obj.uid /\ reqWorker'.obj.rv = reqWorker.obj.rv
          /\ reqWorker'.obj.state = reqWorker.obj.state
      BY <3>2, <3>3 DEF JobRequest
    <3>5. jobs'[reqWorker.key].owner = reqWorker.obj.uid
      BY <2>1, <2>3 DEF StoreJob, ClusterTypeOK, KeysOK, ReqBusy
    <3> QED
      BY <2>1, <3>2, <3>4, <3>5 DEF WorkerMoves, MovedFor
  <2> QED
    BY <1>5, <2>2, <2>3 DEF CreateJob
<1>6. ASSUME RefreshRequest
      PROVE  Change
  <2>1. CASE /\ Exists(requests[reqWorker.key]) /\ reqWorker.to # ""
             /\ reqWorker' = [reqWorker EXCEPT !.pc = "SetState",
                                               !.obj = requests[reqWorker.key]]
    BY <1>1, <1>6, <2>1 DEF RefreshRequest, NoWrite, store, WorkerRefreshes, ReqWorkers
  <2> QED
    BY <1>2, <1>6, <2>1 DEF RefreshRequest
<1>7. CASE ReqWorkerStep \/ \E n \in Requests : ReconcileRequest(n)
  BY <1>2, <1>3, <1>4, <1>5, <1>6, <1>7 DEF ReqWorkerStep, PruneRequest, SetRequestState
<1> QED
  BY <1>7
  DEF Next, RequestWorkerNext, PickRequest, ReviewWorkerNext, PickReview, workers, Restart

RevWorkerDecides ==
    /\ revWorker.pc = "ListRequest" /\ revWorker'.pc = "UpdateRequest"
    /\ revWorker'.obj = revWorker.obj
    /\ revWorker'.req = requests[revWorker.obj.request]
    /\ revWorker'.req.state = "Pending"
    /\ Identified(revWorker'.req.by) /\ revWorker'.req.by # revWorker.obj.by
    /\ UNCHANGED requests

(* What a step can do to the worker of the review controller.                *)
LEMMA RevWorkerChanges ==
    ASSUME TypeOK, KeysOK, Next
    PROVE  \/ UNCHANGED revWorker
           \/ RevWorkerDecides
           \/ /\ revWorker'.pc # "UpdateRequest"
              /\ revWorker'.pc = "ListRequest" => Identified(revWorker'.obj.by)
<1> DEFINE Change == \/ UNCHANGED revWorker
                     \/ RevWorkerDecides
                     \/ /\ revWorker'.pc # "UpdateRequest"
                        /\ revWorker'.pc = "ListRequest" => Identified(revWorker'.obj.by)
<1> USE DEF TypeOK, RevWorkerTypeOK
<1>1. revWorker \in RevWorkers
  OBVIOUS
<1>2. ASSUME NEW retry, FinishReview(retry)
      PROVE  Change
  BY <1>2 DEF FinishReview, RevIdle
<1>3. ASSUME NEW to, NEW retry, ThenSetReviewState(to, retry)
      PROVE  Change
  BY <1>1, <1>3 DEF ThenSetReviewState, RevWorkers
<1>4. ASSUME NEW r \in Reviews, ReconcileReview(r)
      PROVE  Change
  <2>1. ASSUME NEW obj, NEW pc \in {"Delete", "SetState"}, NEW to, HoldReview(r, obj, pc, to)
        PROVE  Change
    BY <2>1 DEF HoldReview, RevIdle
  <2>2. ASSUME NEW obj, Identified(obj.by), HoldReview(r, obj, "ListRequest", "")
        PROVE  Change
    BY <2>2 DEF HoldReview, RevIdle
  <2> QED
    BY <1>4, <2>1, <2>2 DEF ReconcileReview, StartOfReview
<1>5. ASSUME ListRequest
      PROVE  Change
  <2> DEFINE req == requests[revWorker.obj.request]
  <2>1. CASE Undecided(req.state) /\ ReviewPending(req)
    <3>1. CASE /\ Identified(req.by) /\ ~SameUser(req.by, revWorker.obj.by)
               /\ revWorker' = [revWorker EXCEPT !.pc = "UpdateRequest", !.req = req]
      BY <1>1, <1>5, <2>1, <3>1
      DEF ListRequest, RevWorkerDecides, RevWorkers, Undecided, SameUser
    <3> QED
      BY <1>3, <2>1, <3>1 DEF ReviewPending
  <2>2. CASE HandleRequest(req)
    BY <1>2, <1>3, <2>1, <2>2 DEF HandleRequest
  <2> QED
    BY <1>2, <1>3, <1>5, <2>2 DEF ListRequest
<1>6. CASE RevWorkerStep \/ \E r \in Reviews : ReconcileReview(r)
  BY <1>2, <1>3, <1>4, <1>5, <1>6 DEF RevWorkerStep, PruneReview, UpdateRequest, SetReviewState
<1>7. CASE Restart
  BY <1>7 DEF Restart, RevIdle
<1> QED
  BY <1>6, <1>7
  DEF Next, RequestWorkerNext, PickRequest, ReviewWorkerNext, PickReview, workers

-----------------------------------------------------------------------------
(* The inductive invariant. *)

LEMMA SafetyInit == Init => SafetyInv
<1> SUFFICES ASSUME Init PROVE SafetyInv
  OBVIOUS
<1> USE DEF Init, ClusterInit, ReqWorkerInit, RevWorkerInit, ReqIdle, RevIdle, ReqBusy, Deciding,
            InPart, NoRequest, NoJob
<1>1. VersionsOK
  <2>1. \A n \in Requests : requests[n].uid = 0 /\ requests[n].rv = 0
    OBVIOUS
  <2>2. ~ReqBusy /\ ~Deciding
    OBVIOUS
  <2>3. \A n \in Requests : requests[n].uid <= requests[n].rv
    <3> HIDE DEF Init, ClusterInit
    <3> QED
      BY <2>1
  <2> QED
    BY <2>2, <2>3 DEF VersionsOK
<1>2. CopiesOK /\ WritesOK /\ NotTerminalWhileBusy
  BY DEF CopiesOK, WritesOK, NotTerminalWhileBusy
<1>3. ApprovalsOK /\ JobsOK /\ LaunchesOK
  BY DEF ApprovalsOK, OnlyApprovedRequestsRun, JobsOK, LaunchesOK
<1> QED
  BY <1>1, <1>2, <1>3 DEF SafetyInv

(* Approvals are not taken back.                                             *)
LEMMA HistoryGrows == Next => approved \subseteq approved' /\ Observe
  BY DEF Next, RequestWorkerNext, PickRequest, ReviewWorkerNext, PickReview, Observe

(* Versions only grow.                                                       *)
LEMMA VersionsNext ==
    ASSUME TypeOK, KeysOK, VersionsOK, Next
    PROVE  VersionsOK'
<1> USE DEF TypeOK, ClusterTypeOK
<1>1. \A n \in Requests : requests[n].uid \in Nat /\ requests[n].rv \in Nat
  BY DEF JobRequest
<1>2. ASSUME NEW n \in Requests
      PROVE  requests'[n].uid <= requests'[n].rv
  <2>1. \/ requests'[n] = requests[n]
        \/ /\ requests'[n].uid \in {0, requests[n].uid, requests[n].rv + 1}
           /\ requests'[n].rv = requests[n].rv + 1
    BY RequestSteps
    DEF RequestKept, RequestCreated, RequestGone, RequestEdited, RequestDecided, RequestSet
  <2>2. requests[n].uid <= requests[n].rv
    BY DEF VersionsOK
  <2> QED
    BY <1>1, <2>1, <2>2
<1>3. ASSUME ReqBusy'
      PROVE  /\ reqWorker'.obj.rv <= requests'[reqWorker'.key].rv
             /\ reqWorker'.obj.uid <= requests'[reqWorker'.key].rv
  <2> DEFINE n == reqWorker.key
  <2>1. CASE ReqBusy /\ reqWorker'.key = n /\ reqWorker'.obj.rv = reqWorker.obj.rv
             /\ reqWorker'.obj.uid = reqWorker.obj.uid
    <3>1. n \in Requests
      BY <2>1 DEF KeysOK
    <3>2. reqWorker.obj.rv \in Nat /\ reqWorker.obj.uid \in Nat
      BY DEF ReqWorkerTypeOK, ReqWorkers, JobRequest
    <3>3. reqWorker.obj.rv <= requests[n].rv /\ reqWorker.obj.uid <= requests[n].rv
      BY <2>1 DEF VersionsOK
    <3>4. requests'[n].rv \in Nat /\ requests[n].rv <= requests'[n].rv
      BY <3>1, VersionsGrow
    <3> QED
      BY <1>1, <2>1, <3>1, <3>2, <3>3, <3>4
  <2>2. CASE \E m \in Requests : /\ reqWorker'.key = m /\ reqWorker'.obj = requests[m]
                                 /\ UNCHANGED requests
    BY <1>1, <2>2 DEF VersionsOK
  <2>3. CASE UNCHANGED reqWorker
    BY <1>3, <2>1, <2>3 DEF ReqBusy
  <2>4. CASE reqWorker' = ReqIdle
    BY <1>3, <2>4 DEF ReqBusy, ReqIdle
  <2>5. CASE WorkerMoves
    BY <2>1, <2>5 DEF WorkerMoves, ReqBusy
  <2>6. CASE WorkerRefreshes
    BY <2>2, <2>6 DEF WorkerRefreshes, KeysOK, ReqBusy
  <2>7. CASE \E m \in Requests : WorkerPicks(m)
    BY <2>2, <2>7 DEF WorkerPicks
  <2> QED
    BY <2>3, <2>4, <2>5, <2>6, <2>7, ReqWorkerChanges
<1>4. ASSUME Deciding'
      PROVE  revWorker'.req.rv <= requests'[revWorker'.obj.request].rv
  <2>1. CASE UNCHANGED revWorker
    <3> DEFINE n == revWorker.obj.request
    <3>1. Deciding
      BY <1>4, <2>1 DEF Deciding
    <3>2. n \in Requests /\ revWorker.req.rv <= requests[n].rv
      BY <3>1 DEF KeysOK, VersionsOK, Deciding
    <3>3. revWorker.req.rv \in Nat
      BY DEF RevWorkerTypeOK, RevWorkers, JobRequest
    <3>4. requests'[n].rv \in Nat /\ requests[n].rv <= requests'[n].rv
      BY <3>2, VersionsGrow
    <3> QED
      BY <1>1, <2>1, <3>2, <3>3, <3>4
  <2>2. CASE RevWorkerDecides
    BY <1>1, <2>2 DEF RevWorkerDecides, KeysOK
  <2> QED
    BY <1>4, <2>1, <2>2, RevWorkerChanges DEF Deciding
<1> QED
  BY <1>2, <1>3, <1>4 DEF VersionsOK

(* A copy of the stored version stays one until that version is replaced.    *)
LEMMA CopiesNext ==
    ASSUME TypeOK, KeysOK, VersionsOK, CopiesOK, Next
    PROVE  CopiesOK'
<1> USE DEF TypeOK, ClusterTypeOK
<1>1. \A n \in Requests : requests[n].uid \in Nat /\ requests[n].rv \in Nat
  BY DEF JobRequest
<1>2. ASSUME ReqBusy', Current(reqWorker.obj, requests[reqWorker.key])'
      PROVE  reqWorker'.obj.uid = requests'[reqWorker'.key].uid
  <2> DEFINE n == reqWorker.key
  <2>1. CASE ReqBusy /\ reqWorker'.key = n /\ reqWorker'.obj.rv = reqWorker.obj.rv
             /\ reqWorker'.obj.uid = reqWorker.obj.uid
    <3>1. n \in Requests
      BY <2>1 DEF KeysOK
    <3>2. reqWorker.obj.rv \in Nat /\ reqWorker.obj.rv <= requests[n].rv
      BY <2>1 DEF VersionsOK, ReqWorkerTypeOK, ReqWorkers, JobRequest
    <3>3. Exists(requests'[n]) /\ requests'[n].rv = reqWorker.obj.rv
      BY <1>2, <2>1 DEF Current, Exists
    <3>4. requests'[n] = requests[n]
      <4>1. /\ requests[n].rv \in Nat /\ requests[n].rv <= requests'[n].rv
            /\ requests'[n].rv = requests[n].rv => requests'[n] = requests[n]
        BY <3>1, VersionsGrow
      <4> QED
        BY <3>2, <3>3, <4>1
    <3> QED
      BY <2>1, <3>3, <3>4 DEF CopiesOK, Current
  <2>2. CASE \E m \in Requests : /\ reqWorker'.key = m /\ reqWorker'.obj = requests[m]
                                 /\ UNCHANGED requests
    BY <2>2
  <2>3. CASE UNCHANGED reqWorker
    BY <1>2, <2>1, <2>3 DEF ReqBusy
  <2>4. CASE reqWorker' = ReqIdle
    BY <1>2, <2>4 DEF ReqBusy, ReqIdle
  <2>5. CASE WorkerMoves
    BY <2>1, <2>5 DEF WorkerMoves, ReqBusy
  <2>6. CASE WorkerRefreshes
    BY <2>2, <2>6 DEF WorkerRefreshes, KeysOK, ReqBusy
  <2>7. CASE \E m \in Requests : WorkerPicks(m)
    BY <2>2, <2>7 DEF WorkerPicks
  <2> QED
    BY <2>3, <2>4, <2>5, <2>6, <2>7, ReqWorkerChanges
<1>3. ASSUME Deciding', Current(revWorker.req, requests[revWorker.obj.request])'
      PROVE  revWorker'.req = requests'[revWorker'.obj.request]
  <2>1. CASE UNCHANGED revWorker
    <3> DEFINE n == revWorker.obj.request
    <3>1. Deciding
      BY <1>3, <2>1 DEF Deciding
    <3>2. n \in Requests /\ revWorker.req.rv <= requests[n].rv
      BY <3>1 DEF KeysOK, VersionsOK, Deciding
    <3>3. revWorker.req.rv \in Nat
      BY DEF RevWorkerTypeOK, RevWorkers, JobRequest
    <3>4. Exists(requests'[n]) /\ requests'[n].rv = revWorker.req.rv
      BY <1>3, <2>1 DEF Current, Exists
    <3>5. requests'[n] = requests[n]
      <4>1. /\ requests[n].rv \in Nat /\ requests[n].rv <= requests'[n].rv
            /\ requests'[n].rv = requests[n].rv => requests'[n] = requests[n]
        BY <3>2, VersionsGrow
      <4> QED
        BY <3>2, <3>3, <3>4, <4>1
    <3> QED
      BY <2>1, <3>1, <3>4, <3>5 DEF CopiesOK, Current
  <2>2. CASE RevWorkerDecides
    BY <2>2 DEF RevWorkerDecides
  <2> QED
    BY <1>3, <2>1, <2>2, RevWorkerChanges DEF Deciding
<1> QED
  BY <1>2, <1>3 DEF CopiesOK

(* Each worker is about to write only what its controller writes.            *)
LEMMA WritesNext ==
    ASSUME TypeOK, KeysOK, WritesOK, Next
    PROVE  WritesOK'
<1>1. /\ reqWorker'.pc = "SetState" => reqWorker'.to \notin Decisions \cup {""}
      /\ reqWorker'.pc = "GetAgain" => reqWorker'.to \in {"", "Complete", "Failed"}
      /\ reqWorker'.pc = "CreateJob" => reqWorker'.obj.state = "Approved"
  <2>1. CASE UNCHANGED reqWorker
    BY <2>1 DEF WritesOK
  <2>2. CASE reqWorker' = ReqIdle
    BY <2>2 DEF ReqIdle
  <2>3. CASE WorkerMoves
    BY <2>3 DEF WorkerMoves, Decisions
  <2>4. CASE WorkerRefreshes
    BY <2>4 DEF WorkerRefreshes, WritesOK, Decisions
  <2>5. CASE \E n \in Requests : WorkerPicks(n)
    BY <2>5 DEF WorkerPicks, Decisions
  <2> QED
    BY <2>1, <2>2, <2>3, <2>4, <2>5, ReqWorkerChanges
<1>2. /\ revWorker'.pc = "ListRequest" => Identified(revWorker'.obj.by)
      /\ Deciding' => /\ revWorker'.req.state = "Pending"
                      /\ FourEyes(revWorker'.req.by, revWorker'.obj.by)
  <2>1. CASE UNCHANGED revWorker
    BY <2>1 DEF WritesOK, Deciding
  <2>2. CASE RevWorkerDecides
    BY <2>2 DEF RevWorkerDecides, WritesOK, FourEyes
  <2> QED
    BY <2>1, <2>2, RevWorkerChanges DEF Deciding
<1> QED
  BY <1>1, <1>2 DEF WritesOK, Identified

(* Nobody but the worker that holds a request gives it a terminal state.     *)
LEMMA TerminalNext ==
    ASSUME TypeOK, KeysOK, NotTerminalWhileBusy, Next
    PROVE  NotTerminalWhileBusy'
<1> SUFFICES ASSUME InPart'
             PROVE  ~InTerminalState(requests'[reqWorker'.key].state)
  BY DEF NotTerminalWhileBusy, InTerminalState
<1>1. CASE UNCHANGED reqWorker
  <2> DEFINE n == reqWorker.key
  <2>1. InPart /\ n \in Requests /\ ~InTerminalState(requests[n].state)
    BY <1>1 DEF InPart, ReqBusy, KeysOK, NotTerminalWhileBusy
  <2>2. ~RequestSet(n)
    <3>1. ReqIdle.pc # "SetState"
      BY DEF ReqIdle
    <3> QED
      BY <1>1, <3>1 DEF RequestSet
  <2>3. revWorker.obj.decision \in Decisions
    BY DEF TypeOK, RevWorkerTypeOK, RevWorkers, JobRequestReview
  <2> QED
    BY <1>1, <2>1, <2>2, <2>3, RequestSteps
    DEF RequestKept, RequestCreated, RequestGone, RequestEdited, RequestDecided,
        InTerminalState, Decisions
<1>2. CASE reqWorker' = ReqIdle
  BY <1>2 DEF ReqIdle, InPart, ReqBusy
<1>3. CASE WorkerMoves
  BY <1>3 DEF WorkerMoves, NotTerminalWhileBusy, InPart, ReqBusy
<1>4. CASE WorkerRefreshes
  BY <1>4 DEF WorkerRefreshes, NotTerminalWhileBusy, InPart, ReqBusy
<1>5. CASE \E n \in Requests : WorkerPicks(n)
  BY <1>5 DEF WorkerPicks, InPart, ReqBusy
<1> QED
  BY <1>1, <1>2, <1>3, <1>4, <1>5, ReqWorkerChanges

(* A Job that is absent has no controller.                                   *)
LEMMA JobsNext ==
    ASSUME TypeOK, KeysOK, JobsOK, Next
    PROVE  JobsOK'
<1> SUFFICES ASSUME NEW n \in Requests, jobs'[n].owner # 0
             PROVE  jobs'[n].phase # "Absent"
  BY DEF JobsOK, JobExists
<1> QED
  BY JobSteps
  DEF JobKept, JobRemoved, JobMadeByOthers, JobFinished, JobMade, NoJob, JobsOK, JobExists

(* An approval precedes whatever relies on it.                               *)
LEMMA ApprovalsNext ==
    ASSUME TypeOK, KeysOK, CopiesOK, WritesOK, ApprovalsOK, JobsOK, Next
    PROVE  ApprovalsOK'
<1>1. approved \subseteq approved'
  BY HistoryGrows
<1>2. ASSUME NEW n \in Requests, requests'[n].state \in {"Approved", "Started"}
      PROVE  <<n, requests'[n].uid>> \in approved'
  <2>1. CASE RequestKept(n) \/ RequestEdited(n)
    BY <1>1, <1>2, <2>1 DEF RequestKept, RequestEdited, ApprovalsOK
  <2>2. CASE RequestCreated(n) \/ RequestGone(n)
    BY <1>2, <2>2 DEF RequestCreated, RequestGone
  <2>3. CASE RequestDecided(n)
    <3>1. revWorker.req = requests[n] /\ n = revWorker.obj.request
      BY <2>3 DEF RequestDecided, CopiesOK
    <3>2. requests[n].state = "Pending" /\ FourEyes(requests[n].by, revWorker.obj.by)
      BY <2>3, <3>1 DEF RequestDecided, WritesOK
    <3>3. requests'[n].state = "Approved" /\ requests'[n].uid = requests[n].uid
      <4>1. revWorker.obj.decision \in Decisions
        BY DEF TypeOK, RevWorkerTypeOK, RevWorkers, JobRequestReview
      <4> QED
        BY <1>2, <2>3, <4>1 DEF RequestDecided, Decisions
    <3>4. ApprovedNow(n)
      BY <3>1, <3>2, <3>3 DEF ApprovedNow
    <3> QED
      BY <3>3, <3>4, HistoryGrows DEF Observe
  <2>4. CASE RequestSet(n)
    <3>1. reqWorker.to = "Started"
      BY <1>2, <2>4 DEF RequestSet, WritesOK, Decisions
    <3>2. <<n, reqWorker.obj.uid>> \in approved
      BY <2>4, <3>1 DEF RequestSet, ApprovalsOK
    <3>3. reqWorker.obj.uid = requests[n].uid
      BY <2>4 DEF RequestSet, CopiesOK, ReqBusy
    <3> QED
      BY <1>1, <2>4, <3>2, <3>3 DEF RequestSet
  <2> QED
    BY <2>1, <2>2, <2>3, <2>4, RequestSteps
<1>3. ASSUME InPart', reqWorker'.obj.state \in {"Approved", "Started"}
      PROVE  <<reqWorker'.key, reqWorker'.obj.uid>> \in approved'
  <2>1. CASE UNCHANGED reqWorker
    BY <1>1, <1>3, <2>1 DEF InPart, ReqBusy, ApprovalsOK
  <2>2. CASE reqWorker' = ReqIdle
    BY <1>3, <2>2 DEF ReqIdle, InPart, ReqBusy
  <2>3. CASE WorkerMoves
    BY <1>1, <1>3, <2>3 DEF WorkerMoves, InPart, ReqBusy, ApprovalsOK
  <2>4. CASE WorkerRefreshes
    BY <1>1, <1>3, <2>4 DEF WorkerRefreshes, KeysOK, ReqBusy, ApprovalsOK
  <2>5. CASE \E n \in Requests : WorkerPicks(n)
    BY <1>1, <1>3, <2>5 DEF WorkerPicks, ApprovalsOK
  <2> QED
    BY <2>1, <2>2, <2>3, <2>4, <2>5, ReqWorkerChanges
<1>4. ASSUME reqWorker'.pc = "SetState", reqWorker'.to = "Started"
      PROVE  <<reqWorker'.key, reqWorker'.obj.uid>> \in approved'
  <2>1. CASE UNCHANGED reqWorker
    BY <1>1, <1>4, <2>1 DEF ApprovalsOK
  <2>2. CASE reqWorker' = ReqIdle
    BY <1>4, <2>2 DEF ReqIdle
  <2>3. CASE WorkerMoves
    BY <1>1, <1>4, <2>3 DEF WorkerMoves, InPart, ReqBusy, ApprovalsOK, WritesOK
  <2>4. CASE WorkerRefreshes
    BY <1>4, <2>4 DEF WorkerRefreshes, WritesOK
  <2>5. CASE \E n \in Requests : WorkerPicks(n)
    BY <1>4, <2>5 DEF WorkerPicks
  <2> QED
    BY <2>1, <2>2, <2>3, <2>4, <2>5, ReqWorkerChanges
<1>5. ASSUME NEW n \in Requests, jobs'[n].owner # 0
      PROVE  <<n, jobs'[n].owner>> \in approved'
  <2>1. CASE JobMade(n)
    BY <1>1, <2>1 DEF JobMade, ApprovalsOK, WritesOK, InPart, ReqBusy
  <2>2. CASE JobKept(n) \/ JobFinished(n)
    BY <1>1, <1>5, <2>2 DEF JobKept, JobFinished, ApprovalsOK, OnlyApprovedRequestsRun
  <2>3. CASE JobRemoved(n) \/ JobMadeByOthers(n)
    BY <1>5, <2>3 DEF JobRemoved, JobMadeByOthers, NoJob
  <2> QED
    BY <2>1, <2>2, <2>3, JobSteps
<1> QED
  BY <1>2, <1>3, <1>4, <1>5 DEF ApprovalsOK, OnlyApprovedRequestsRun

(* A Job that was made stays by its name until it is deleted.                *)
LEMMA LaunchesNext ==
    ASSUME TypeOK, KeysOK, VersionsOK, JobsOK, LaunchesOK, Next
    PROVE  LaunchesOK'
<1>1. /\ launched \subseteq Requests \X Nat
      /\ \A n \in Requests : requests[n].uid \in Nat /\ requests[n].rv \in Nat
  BY DEF TypeOK, ClusterTypeOK, JobRequest
<1>2. ASSUME NEW l \in launched'
      PROVE  l \in launched \/ \E n \in Requests : LaunchedNow(n) /\ l = <<n, jobs'[n].owner>>
  BY HistoryGrows DEF Observe
<1>3. ASSUME NEW n \in Requests, LaunchedNow(n)
      PROVE  JobMade(n)
  BY <1>3, JobSteps
  DEF LaunchedNow, JobKept, JobRemoved, JobMadeByOthers, JobFinished, NoJob
<1>4. ASSUME NEW l \in launched'
      PROVE  l[2] <= requests'[l[1]].rv
  <2>1. CASE l \in launched
    <3>1. l[1] \in Requests /\ l[2] \in Nat /\ l[2] <= requests[l[1]].rv
      BY <1>1, <2>1 DEF LaunchesOK
    <3>2. /\ requests[l[1]].rv \in Nat /\ requests'[l[1]].rv \in Nat
          /\ requests[l[1]].rv <= requests'[l[1]].rv
      BY <3>1, VersionsGrow
    <3> QED
      BY <3>1, <3>2
  <2>2. ASSUME NEW n \in Requests, LaunchedNow(n), l = <<n, jobs'[n].owner>>
        PROVE  l[2] <= requests'[l[1]].rv
    BY <1>3, <2>2 DEF JobMade, VersionsOK, ReqBusy
  <2> QED
    BY <1>2, <2>1, <2>2
<1>5. ASSUME NEW n \in Requests, requests'[n].uid # 0, <<n, requests'[n].uid>> \in launched'
      PROVE  jobs'[n].phase # "Absent" /\ jobs'[n].owner = requests'[n].uid
  <2>1. CASE LaunchedNow(n) /\ jobs'[n].owner = requests'[n].uid
    BY <2>1 DEF LaunchedNow
  <2>2. CASE <<n, requests'[n].uid>> \in launched
    <3>1. requests'[n].uid <= requests[n].rv
      BY <2>2 DEF LaunchesOK
    <3>2. requests'[n].uid = requests[n].uid
      <4>1. requests'[n].uid \in {0, requests[n].uid, requests[n].rv + 1}
        BY RequestSteps
        DEF RequestKept, RequestCreated, RequestGone, RequestEdited, RequestDecided, RequestSet
      <4> QED
        BY <1>1, <1>5, <3>1, <4>1
    <3>3. jobs[n].phase # "Absent" /\ jobs[n].owner = requests[n].uid
      BY <1>5, <2>2, <3>2 DEF LaunchesOK, Exists, JobExists
    <3>4. ~LostItsJobNow(n)
      BY <1>5, <3>2, <3>3, HistoryGrows DEF Observe
    <3>5. JobKept(n) \/ JobFinished(n)
      BY <1>5, <3>2, <3>3, <3>4, JobSteps
      DEF JobRemoved, JobMadeByOthers, JobMade, LostItsJobNow
    <3> QED
      BY <3>2, <3>3, <3>5 DEF JobKept, JobFinished
  <2> QED
    BY <1>2, <1>5, <2>1, <2>2
<1> QED
  BY <1>4, <1>5 DEF LaunchesOK, Exists, JobExists

(* Every step keeps the invariant.                                           *)
LEMMA SafetyNext == TypeOK /\ KeysOK /\ SafetyInv /\ [Next]_vars => SafetyInv'
<1> SUFFICES ASSUME TypeOK, KeysOK, SafetyInv, [Next]_vars
             PROVE  SafetyInv'
  OBVIOUS
<1>1. CASE Next
  BY <1>1, VersionsNext, CopiesNext, WritesNext, TerminalNext, ApprovalsNext, JobsNext,
     LaunchesNext
  DEF SafetyInv
<1>2. CASE UNCHANGED vars
  <2> USE <1>2 DEF vars, clusterVars, store, workers, history, SafetyInv
  <2>1. VersionsOK'
    BY DEF VersionsOK, ReqBusy, Deciding
  <2>2. CopiesOK'
    BY DEF CopiesOK, ReqBusy, Deciding, Current, Exists
  <2>3. WritesOK' /\ NotTerminalWhileBusy'
    BY DEF WritesOK, NotTerminalWhileBusy, InPart, ReqBusy, Deciding, Identified,
           InTerminalState
  <2>4. ApprovalsOK'
    BY DEF ApprovalsOK, OnlyApprovedRequestsRun, InPart, ReqBusy
  <2>5. JobsOK' /\ LaunchesOK'
    BY DEF JobsOK, LaunchesOK, JobExists, Exists
  <2> QED
    BY <2>1, <2>2, <2>3, <2>4, <2>5
<1> QED
  BY <1>1, <1>2

(* Every part of the invariant that the safety of the operator rests on      *)
(* holds of every behaviour: copies and versions agree, writes are of states *)
(* their worker may write, approvals precede what relies on them.            *)
THEOREM SafetyInvariant == Spec => []IInv
<1>1. Init => IInv
  BY TypeInit, SafetyInit DEF IInv
<1>2. IInv /\ [Next]_vars => IInv'
  BY TypeNext, SafetyNext DEF IInv
<1> QED
  BY <1>1, <1>2, PTL DEF Spec

(* No Job of the operator runs a request that a user other than its          *)
(* requester has not approved, however many requests, reviews, restarts,     *)
(* failed calls and replaced objects there are.                              *)
THEOREM ApprovalBeforeJob == Spec => []OnlyApprovedRequestsRun
<1>1. IInv => OnlyApprovedRequestsRun
  BY DEF IInv, SafetyInv, ApprovalsOK
<1> QED
  BY <1>1, SafetyInvariant, PTL

-----------------------------------------------------------------------------
(* What a step may never do. *)

(* No step of either controller, of a user or of Kubernetes takes a request  *)
(* out of a terminal state (endReconcileIfInTerminalState), from however old *)
(* a copy its status is written.                                             *)
THEOREM TerminalStatesAreFinal == Spec => TerminalIsFinal
<1>1. ASSUME IInv, [Next]_vars, NEW n \in Requests, Stays(n), InTerminalState(requests[n].state)
      PROVE  requests'[n].state = requests[n].state
  <2>1. CASE UNCHANGED vars
    BY <2>1 DEF vars, clusterVars, store
  <2>2. CASE Next
    <3>1. RequestKept(n) \/ RequestEdited(n) \/ RequestDecided(n) \/ RequestSet(n)
      BY <1>1, <2>2, RequestSteps DEF IInv, RequestCreated, RequestGone, Stays, Exists
    <3>2. ~RequestDecided(n)
      BY <1>1 DEF IInv, SafetyInv, CopiesOK, WritesOK, RequestDecided, InTerminalState
    <3>3. ~RequestSet(n)
      BY <1>1 DEF IInv, SafetyInv, NotTerminalWhileBusy, RequestSet, InPart, ReqBusy
    <3> QED
      BY <3>1, <3>2, <3>3 DEF RequestKept, RequestEdited
  <2> QED
    BY <1>1, <2>1, <2>2
<1>2. IInv /\ [Next]_vars =>
        [\A n \in Requests :
            (Stays(n) /\ requests[n].state \in {"Complete", "Failed", "Malformed", "Conflicted"})
                => requests'[n].state = requests[n].state]_vars
  BY <1>1 DEF InTerminalState
<1> QED
  BY <1>2, SafetyInvariant, PTL DEF Spec, TerminalIsFinal

(* The status of a request becomes Approved or Rejected only from Pending:   *)
(* the version check of Status().Update carries what handleState saw when it *)
(* read the request over to when it is written.                              *)
THEOREM DecisionsFallOnPending == Spec => DecidedWhilePending
<1>1. ASSUME IInv, [Next]_vars, NEW n \in Requests, Stays(n),
             requests'[n].state \in Decisions, requests'[n].state # requests[n].state
      PROVE  requests[n].state = "Pending"
  <2>1. CASE UNCHANGED vars
    BY <1>1, <2>1 DEF vars, clusterVars, store
  <2>2. CASE Next
    <3>1. RequestDecided(n)
      BY <1>1, <2>2, RequestSteps
      DEF IInv, SafetyInv, WritesOK, Decisions, RequestKept, RequestCreated, RequestGone,
          RequestEdited, RequestSet
    <3> QED
      BY <1>1, <3>1 DEF IInv, SafetyInv, CopiesOK, WritesOK, RequestDecided
  <2> QED
    BY <1>1, <2>1, <2>2
<1>2. IInv /\ [Next]_vars =>
        [\A n \in Requests :
            (Stays(n) /\ requests'[n].state \in Decisions
               /\ requests'[n].state # requests[n].state)
                => requests[n].state = "Pending"]_vars
  BY <1>1
<1> QED
  BY <1>2, SafetyInvariant, PTL DEF Spec, DecidedWhilePending

(* The Job of a request is not created again while it is there: whatever was *)
(* lost, the Job has the name of its request, and that name is taken.        *)
THEOREM JobsRunOnce == Spec => JobRunsOnce
<1>1. ASSUME IInv, [Next]_vars, NEW n \in Requests, LaunchedNow(n),
             requests[n].uid = jobs'[n].owner
      PROVE  <<n, jobs'[n].owner>> \notin launched
  <2>1. CASE UNCHANGED vars
    BY <1>1, <2>1 DEF vars, clusterVars, store, LaunchedNow
  <2>2. CASE Next
    <3>1. jobs[n].phase = "Absent" /\ jobs'[n].owner # 0
      BY <1>1, <2>2, JobSteps
      DEF IInv, SafetyInv, LaunchedNow, JobKept, JobRemoved, JobMadeByOthers, JobFinished,
          JobMade, NoJob
    <3> QED
      BY <1>1, <3>1 DEF IInv, SafetyInv, LaunchesOK, Exists, JobExists
  <2> QED
    BY <1>1, <2>1, <2>2
<1>2. IInv /\ [Next]_vars =>
        [\A n \in Requests :
            (LaunchedNow(n) /\ requests[n].uid = jobs'[n].owner)
                => <<n, jobs'[n].owner>> \notin launched]_vars
  BY <1>1
<1> QED
  BY <1>2, SafetyInvariant, PTL DEF Spec, JobRunsOnce
=============================================================================
