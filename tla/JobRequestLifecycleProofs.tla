---------------------- MODULE JobRequestLifecycleProofs ----------------------
(***************************************************************************)
(* JobRequestOperator implements JobRequestLifecycle while nothing is      *)
(* deleted and no API call fails, for every number of requests, reviews    *)
(* and users, every number of restarts, and whatever else users do.        *)
(***************************************************************************)
EXTENDS UndisturbedProofs

-----------------------------------------------------------------------------
(* The Job of a Started request. *)

(* What LifecycleInv adds to KeptInv.                                        *)
LEMMA LifecycleParts ==
    ASSUME LifecycleInv
    PROVE  /\ KeptInv
           /\ \A n \in Requests :
                 requests[n].state = "Started" => jobs[n].owner = requests[n].uid
           /\ (reqWorker.pc = "SetState" /\ reqWorker.to = "Started")
                 => jobs[reqWorker.key].owner = reqWorker.obj.uid
           /\ (reqWorker.pc \in {"GetAgain", "SetState"}
                 /\ reqWorker.to \in {"Complete", "Failed"})
                 => jobs[reqWorker.key].phase = reqWorker.to
  BY DEF LifecycleInv

(* A Job of the operator is not removed, and only runs to its end.           *)
LEMMA JobsStay ==
    ASSUME NobodyDeletesJobs, KeptInv, Next, NEW n \in Requests, JobExists(n)
    PROVE  /\ jobs'[n].owner = jobs[n].owner
           /\ jobs[n].phase # "Running" => jobs'[n].phase = jobs[n].phase
<1>1. ~JobRemoved(n)
  BY KeptParts
  DEF JobRemoved, RemovedFor, JobsHaveTheirRequests, NobodyDeletesJobs, Allowed
<1> QED
  BY <1>1, KeptParts, JobSteps DEF JobKept, JobMadeByOthers, JobFinished, JobMade, JobExists

(* A Job stays with its Started request, and its outcome is final.           *)
LEMMA LifecycleInvNext ==
    ASSUME CallsSucceed, NobodyDeletesJobs, LifecycleInv, Next
    PROVE  LifecycleInv' /\ faults' = faults
<1> DEFINE n == reqWorker.key
<1>0. ReqIdle.pc = "Idle"
  BY DEF ReqIdle
<1>1. KeptInv' /\ faults' = faults
  BY LifecycleParts, KeptInvNext
<1>2. ASSUME NEW m \in Requests, requests'[m].state = "Started"
      PROVE  jobs'[m].owner = requests'[m].uid
  <2>1. Exists(requests[m])
    BY <1>2, LifecycleParts, KeptParts, RequestSteps
    DEF StoredStatesOK, RequestKept, RequestCreated, RequestGone, RequestEdited, RequestDecided,
        RequestSet, Current
  <2>2. requests'[m].uid = requests[m].uid
    BY <2>1, LifecycleParts, RequestsStay
  <2>3. ASSUME jobs[m].owner = requests[m].uid
        PROVE  jobs'[m].owner = requests'[m].uid
    <3>1. JobExists(m)
      BY <2>1, <2>3, LifecycleParts, KeptParts DEF JobsOK, Exists
    <3> QED
      BY <2>2, <2>3, <3>1, LifecycleParts, JobsStay
  <2>4. CASE RequestKept(m) \/ RequestEdited(m)
    BY <1>2, <2>3, <2>4, LifecycleParts DEF RequestKept, RequestEdited
  <2>5. ~RequestDecided(m)
    BY <1>2, LifecycleParts, DecidedFromPending DEF RequestDecided, Decisions
  <2>6. CASE RequestSet(m)
    <3>1. /\ reqWorker.pc = "SetState" /\ reqWorker.to = "Started" /\ m = n
          /\ Current(reqWorker.obj, requests[m])
      BY <1>2, <2>6 DEF RequestSet
    <3>2. jobs[m].owner = reqWorker.obj.uid
      BY <3>1, LifecycleParts
    <3>3. reqWorker.obj.uid = requests[m].uid
      BY <3>1, LifecycleParts, KeptParts DEF HeldIsThere, ReqBusy
    <3> QED
      BY <2>3, <3>2, <3>3
  <2> QED
    BY <2>1, <2>4, <2>5, <2>6, LifecycleParts, RequestsStay
<1>3. ASSUME reqWorker'.pc = "SetState", reqWorker'.to = "Started"
      PROVE  jobs'[reqWorker'.key].owner = reqWorker'.obj.uid
  <2>1. CASE UNCHANGED reqWorker
    <3>1. n \in Requests /\ jobs[n].owner = reqWorker.obj.uid /\ reqWorker.obj.uid # 0
      BY <1>3, <2>1, LifecycleParts, KeptParts DEF KeysOK, HeldIsThere, ReqBusy, Exists
    <3>2. JobExists(n)
      BY <3>1, LifecycleParts, KeptParts DEF JobsOK
    <3> QED
      BY <2>1, <3>1, <3>2, LifecycleParts, JobsStay
  <2>2. CASE WorkerMoves
    BY <1>3, <2>2 DEF WorkerMoves, MovedFor
  <2>3. CASE WorkerRefreshes
    BY <1>3, <2>3, LifecycleParts, KeptParts DEF WorkerRefreshes, WritesOK
  <2>4. CASE \E m \in Requests : WorkerPicks(m)
    BY <1>3, <2>4 DEF WorkerPicks
  <2> QED
    BY <1>0, <1>3, <2>1, <2>2, <2>3, <2>4, LifecycleParts, KeptParts, ReqWorkerChanges
<1>4. ASSUME reqWorker'.pc \in {"GetAgain", "SetState"}, reqWorker'.to \in {"Complete", "Failed"}
      PROVE  jobs'[reqWorker'.key].phase = reqWorker'.to
  <2>1. CASE UNCHANGED reqWorker
    <3>1. n \in Requests /\ jobs[n].phase = reqWorker.to
      BY <1>4, <2>1, LifecycleParts, KeptParts DEF KeysOK, ReqBusy
    <3>2. JobExists(n) /\ jobs[n].phase # "Running"
      BY <1>4, <2>1, <3>1 DEF JobExists
    <3> QED
      BY <2>1, <3>1, <3>2, LifecycleParts, JobsStay
  <2>2. CASE WorkerMoves
    <3>1. reqWorker'.pc = "GetAgain"
      BY <1>4, <2>2 DEF WorkerMoves
    <3>2. reqWorker'.to = Outcome(jobs[n].phase) /\ UNCHANGED jobs /\ reqWorker'.key = n
      BY <2>2, <3>1 DEF WorkerMoves, MovedFor
    <3> QED
      BY <1>4, <3>2 DEF Outcome
  <2>3. CASE WorkerRefreshes
    BY <1>4, <2>3, LifecycleParts DEF WorkerRefreshes
  <2>4. CASE \E m \in Requests : WorkerPicks(m)
    BY <1>4, <2>4 DEF WorkerPicks
  <2> QED
    BY <1>0, <1>4, <2>1, <2>2, <2>3, <2>4, LifecycleParts, KeptParts, ReqWorkerChanges
<1> QED
  BY <1>1, <1>2, <1>3, <1>4 DEF LifecycleInv

(* No request is Started in an empty cluster.                                *)
LEMMA LifecycleInvInit == Init => LifecycleInv
<1> SUFFICES ASSUME Init PROVE LifecycleInv
  OBVIOUS
<1>1. reqWorker.pc = "Idle"
  BY DEF Init, ReqWorkerInit, ReqIdle
<1>2. \A n \in Requests : requests[n].state # "Started"
  BY DEF Init, ClusterInit, NoRequest
<1> QED
  BY <1>1, <1>2, KeptInvInit DEF LifecycleInv

(* A Started request has its Job, and the outcome about to be written is the *)
(* outcome of that Job.                                                      *)
THEOREM LifecycleInvariant ==
    ASSUME CallsSucceed, NobodyDeletesJobs
    PROVE  Spec => []LifecycleInv
<1>1. Init => LifecycleInv
  BY LifecycleInvInit
<1>2. LifecycleInv /\ [Next]_vars => LifecycleInv'
  <2>1. LifecycleInv /\ UNCHANGED vars => LifecycleInv'
    <3> SUFFICES ASSUME LifecycleInv, UNCHANGED vars PROVE LifecycleInv'
      OBVIOUS
    <3>1. UNCHANGED <<requests, jobs, reqWorker>>
      BY DEF vars, clusterVars, store, workers
    <3> QED
      BY <3>1, LifecycleParts, KeptInvStays DEF LifecycleInv
  <2> QED
    BY <2>1, LifecycleInvNext
<1> QED
  BY <1>1, <1>2, PTL DEF Spec

-----------------------------------------------------------------------------
(* A step writes one request or one Job.                                     *)

OnlyRequestWritten(n) ==
    \A m \in Requests \ {n} : requests'[m] = requests[m]

OnlyJobWritten(n) ==
    \A m \in Requests \ {n} : jobs'[m] = jobs[m]

OneWrite ==
    \/ UNCHANGED <<requests, jobs>>
    \/ UNCHANGED jobs /\ \E n \in Requests : OnlyRequestWritten(n)
    \/ UNCHANGED requests /\ \E n \in Requests : OnlyJobWritten(n)

(* A step changes one request, or one Job, or neither.                       *)
LEMMA OneWriteAtATime ==
    ASSUME TypeOK, KeysOK, Next
    PROVE  OneWrite
<1>1. requests \in [Requests -> JobRequest] /\ jobs \in [Requests -> Job]
  BY DEF TypeOK, ClusterTypeOK
<1>2. ASSUME NEW n \in Requests, NEW new, requests' = [requests EXCEPT ![n] = new],
             UNCHANGED jobs
      PROVE  OneWrite
  BY <1>1, <1>2 DEF OneWrite, OnlyRequestWritten
<1>3. ASSUME NEW n \in Requests, NEW new, jobs' = [jobs EXCEPT ![n] = new],
             UNCHANGED requests
      PROVE  OneWrite
  BY <1>1, <1>3 DEF OneWrite, OnlyJobWritten
<1>4. CASE UNCHANGED <<requests, jobs>>
  BY <1>4 DEF OneWrite
<1>5. CASE ClusterNext
  <2>1. ASSUME NEW n \in Requests, NEW by, CreateRequest(n, by)
        PROVE  OneWrite
    BY <1>2, <2>1 DEF CreateRequest
  <2>2. ASSUME NEW n \in Requests, DeleteRequest(n) \/ EditRequest(n)
        PROVE  OneWrite
    BY <1>2, <2>2 DEF DeleteRequest, RequestDeleted, EditRequest
  <2>3. ASSUME NEW n \in Requests, DeleteJob(n) \/ CreateForeignJob(n) \/ CollectJob(n)
        PROVE  OneWrite
    BY <1>3, <2>3 DEF DeleteJob, CreateForeignJob, CollectJob
  <2>4. ASSUME NEW n \in Requests, NEW outcome, FinishJob(n, outcome)
        PROVE  OneWrite
    BY <1>3, <2>4 DEF FinishJob
  <2>5. CASE UserNext
    BY <1>4, <2>1, <2>2, <2>3, <2>5 DEF UserNext, CreateReview, EditReview, DeleteReview
  <2>6. CASE KubernetesNext
    BY <1>4, <2>3, <2>4, <2>6
    DEF KubernetesNext, Tick, ResyncRequest, SyncReview, ResyncReview, store
  <2> QED
    BY <1>5, <2>5, <2>6 DEF ClusterNext
<1>6. CASE ReqWorkerStep \/ \E n \in Requests : ReconcileRequest(n)
  <2>0. ReqBusy => reqWorker.key \in Requests
    BY DEF KeysOK
  <2>1. CASE PruneRequest
    <3>1. UNCHANGED jobs /\ (UNCHANGED requests \/ RequestDeleted(reqWorker.key))
      BY <2>1, Zenon DEF PruneRequest
    <3>2. reqWorker.key \in Requests
      BY <2>0, <2>1 DEF PruneRequest, ReqBusy
    <3> QED
      BY <1>2, <1>4, <3>1, <3>2 DEF RequestDeleted
  <2>2. CASE CreateJob
    <3>1. /\ UNCHANGED requests
          /\ UNCHANGED jobs \/ StoreJob(reqWorker.key, reqWorker.obj.uid)
      BY <2>2, Zenon DEF CreateJob
    <3>2. reqWorker.key \in Requests
      BY <2>0, <2>2 DEF CreateJob, ReqBusy
    <3> QED
      BY <1>3, <1>4, <3>1, <3>2 DEF StoreJob
  <2>3. CASE SetRequestState
    <3> DEFINE n == reqWorker.key
               copy == [reqWorker.obj EXCEPT !.state = reqWorker.to]
    <3>1. /\ UNCHANGED jobs
          /\ \/ UNCHANGED requests
             \/ requests' = [requests EXCEPT ![n] = RequestStatusUpdated(requests[n], copy)]
      BY <2>3, Zenon DEF SetRequestState
    <3>2. n \in Requests
      BY <2>0, <2>3 DEF SetRequestState, ReqBusy
    <3> HIDE DEF copy
    <3> QED
      BY <1>2, <1>4, <3>1, <3>2
  <2> QED
    BY <1>4, <1>6, <2>1, <2>2, <2>3
    DEF ReqWorkerStep, LookUpTarget, CalculateState, CheckNoJob, CheckJob, RefreshRequest,
        ReconcileRequest, NoWrite, store
<1>7. CASE RevWorkerStep \/ \E r \in Reviews : ReconcileReview(r)
  <2>1. CASE UpdateRequest
    <3> DEFINE n == revWorker.obj.request
               copy == Decided(revWorker.req, revWorker.key, revWorker.obj.decision)
    <3>1. /\ UNCHANGED jobs
          /\ \/ UNCHANGED requests
             \/ requests' = [requests EXCEPT ![n] = RequestStatusUpdated(requests[n], copy)]
      BY <2>1, Zenon DEF UpdateRequest, RevFrame
    <3>2. n \in Requests
      BY <2>1 DEF UpdateRequest, KeysOK
    <3> HIDE DEF copy
    <3> QED
      BY <1>2, <1>4, <3>1, <3>2
  <2> QED
    BY <1>4, <1>7, <2>1
    DEF RevWorkerStep, PruneReview, ListRequest, SetReviewState, ReconcileReview, RevFrame
<1>8. CASE Restart
  BY <1>4, <1>8 DEF Restart, store
<1> QED
  BY <1>5, <1>6, <1>7, <1>8
  DEF Next, RequestWorkerNext, PickRequest, ReviewWorkerNext, PickReview

-----------------------------------------------------------------------------
(* What a step does to the phase of a request and to the run of its Job.     *)

PhaseEntered(n, from, to) ==
    PhaseOf(requests[n]) = from /\ PhaseOf(requests'[n]) = to

PhaseMoves(n) ==
    \/ PhaseOf(requests'[n]) = PhaseOf(requests[n])
    \/ PhaseEntered(n, "None", "New")
    \/ PhaseEntered(n, "New", "Pending")
    \/ \E decision \in Decisions : PhaseEntered(n, "Pending", decision)
    \/ PhaseEntered(n, "Approved", "Started") /\ RunOf(jobs[n]) # "Absent"
    \/ PhaseEntered(n, "Approved", "Conflicted")
    \/ \E outcome \in {"Complete", "Failed"} :
          PhaseEntered(n, "Started", outcome) /\ RunOf(jobs[n]) = outcome
    \/ \E from \in {"New", "Pending", "Approved", "Rejected", "Started"} :
          PhaseEntered(n, from, "Malformed")

RunMoves(n) ==
    \/ RunOf(jobs'[n]) = RunOf(jobs[n])
    \/ /\ PhaseOf(requests[n]) = "Approved"
       /\ RunOf(jobs[n]) = "Absent" /\ RunOf(jobs'[n]) = "Running"
    \/ RunOf(jobs[n]) = "Running" /\ RunOf(jobs'[n]) \in {"Complete", "Failed"}

(* What a step does to a request is a move of its phase.                     *)
LEMMA PhasesMove ==
    ASSUME CallsSucceed, NobodyDeletesJobs, LifecycleInv, Next, NEW n \in Requests
    PROVE  PhaseMoves(n)
<1>1. requests[n] \in JobRequest /\ requests'[n] \in JobRequest
  BY LifecycleParts, KeptParts, KeptInvNext DEF TypeOK, ClusterTypeOK, KeptInv, EarnedInv, IInv
<1>2. CASE ~Exists(requests[n])
  <2>1. RequestKept(n) \/ RequestEdited(n) \/ RequestCreated(n)
    BY <1>2, LifecycleParts, KeptParts, RequestSteps
    DEF RequestGone, RequestDecided, RequestSet, Current
  <2>2. CASE RequestKept(n) \/ RequestEdited(n)
    BY <1>2, <2>2 DEF RequestKept, RequestEdited, PhaseMoves, PhaseOf, Exists
  <2>3. CASE RequestCreated(n)
    <3>1. requests[n].rv \in Nat
      BY <1>1 DEF JobRequest
    <3>2. requests'[n].uid = requests[n].rv + 1 /\ requests'[n].state = ""
      BY <2>3 DEF RequestCreated
    <3>3. \A version \in Nat : version + 1 # 0
      OBVIOUS
    <3>4. requests'[n].uid # 0
      BY <3>1, <3>2, <3>3, Zenon
    <3> QED
      BY <1>2, <3>2, <3>4 DEF PhaseMoves, PhaseEntered, PhaseOf, Exists
  <2> QED
    BY <2>1, <2>2, <2>3
<1>3. CASE Exists(requests[n])
  <2>1. Exists(requests'[n])
    BY <1>3, LifecycleParts, RequestsStay DEF Exists
  <2>2. CASE RequestKept(n) \/ RequestEdited(n)
    BY <1>3, <2>1, <2>2 DEF RequestKept, RequestEdited, PhaseMoves, PhaseOf
  <2>3. CASE RequestDecided(n)
    <3>1. /\ requests[n].state = "Pending" /\ requests'[n].state = revWorker.obj.decision
          /\ revWorker.obj.decision \in Decisions
      BY <2>3, LifecycleParts, DecidedFromPending DEF RequestDecided
    <3>2. PhaseEntered(n, "Pending", revWorker.obj.decision)
      BY <1>3, <2>1, <3>1 DEF PhaseEntered, PhaseOf, Decisions
    <3> QED
      BY <3>1, <3>2 DEF PhaseMoves
  <2>4. CASE RequestSet(n)
    <3>1. /\ reqWorker.pc = "SetState" /\ n = reqWorker.key /\ ReqBusy /\ InPart
          /\ requests'[n].state = reqWorker.to /\ Current(reqWorker.obj, requests[n])
      BY <2>4 DEF RequestSet, ReqBusy, InPart
    <3>2. reqWorker.obj.state = requests[n].state
      <4>1. reqWorker.obj = requests[n]
               \/ reqWorker.obj = [requests[n] EXCEPT !.jobName = reqWorker.key]
        BY <3>1, LifecycleParts, KeptParts DEF HeldCopyOK
      <4> QED
        BY <1>1, <4>1 DEF JobRequest
    <3>3. reqWorker.to \in JobRequestStates \ (Decisions \cup {""})
      BY <3>1, LifecycleParts, KeptParts DEF TypeOK, ReqWorkerTypeOK, ReqWorkers, WritesOK
    <3>4. PhaseOf(requests'[n]) = reqWorker.to
      BY <2>1, <3>1, <3>3 DEF PhaseOf
    <3>5. jobs[n].owner = requests[n].uid => RunOf(jobs[n]) = jobs[n].phase
                                               /\ jobs[n].phase # "Absent"
      BY <1>3, LifecycleParts, KeptParts DEF JobsOK, JobExists, RunOf, Exists
    <3>6. CASE reqWorker.to = "Pending"
      <4>1. requests[n].state \in {"", "Pending"}
        BY <3>1, <3>2, <3>6, LifecycleParts, KeptParts DEF HeldStateOK
      <4>2. PhaseOf(requests[n]) \in {"New", "Pending"}
        BY <1>3, <4>1 DEF PhaseOf
      <4> QED
        BY <3>4, <3>6, <4>2 DEF PhaseMoves, PhaseEntered
    <3>7. CASE reqWorker.to \in {"Started", "Conflicted"}
      <4>1. requests[n].state = "Approved"
        BY <3>1, <3>2, <3>7, LifecycleParts, KeptParts DEF PlansOK
      <4>2. PhaseEntered(n, "Approved", reqWorker.to)
        BY <1>3, <3>4, <4>1 DEF PhaseEntered, PhaseOf
      <4>3. reqWorker.to = "Started" => RunOf(jobs[n]) # "Absent"
        BY <3>1, <3>5, LifecycleParts, KeptParts DEF HeldIsThere
      <4> QED
        BY <3>7, <4>2, <4>3 DEF PhaseMoves
    <3>8. CASE reqWorker.to \in {"Complete", "Failed"}
      <4>1. requests[n].state = "Started" /\ jobs[n].phase = reqWorker.to
        BY <3>1, <3>2, <3>8, LifecycleParts, KeptParts DEF HeldStateOK
      <4>2. PhaseEntered(n, "Started", reqWorker.to)
        BY <1>3, <3>4, <4>1 DEF PhaseEntered, PhaseOf
      <4>3. RunOf(jobs[n]) = reqWorker.to
        BY <3>5, <4>1, LifecycleParts
      <4> QED
        BY <3>8, <4>2, <4>3 DEF PhaseMoves
    <3>9. CASE reqWorker.to = "Malformed"
      <4>1. requests[n].state \in {"", "Pending", "Approved", "Rejected", "Started"}
        BY <1>1, <3>1, LifecycleParts, KeptParts
        DEF NotTerminalWhileBusy, InTerminalState, JobRequest, JobRequestStates
      <4>2. PhaseOf(requests[n]) \in {"New", "Pending", "Approved", "Rejected", "Started"}
        BY <1>3, <4>1 DEF PhaseOf
      <4> QED
        BY <3>4, <3>9, <4>2 DEF PhaseMoves, PhaseEntered
    <3> QED
      BY <3>3, <3>6, <3>7, <3>8, <3>9 DEF JobRequestStates, Decisions
  <2> QED
    BY <1>3, <2>2, <2>3, <2>4, LifecycleParts, RequestsStay
<1> QED
  BY <1>2, <1>3

(* What a step does to a Job is a move of its run.                           *)
LEMMA RunsMove ==
    ASSUME NobodyDeletesJobs, LifecycleInv, Next, NEW n \in Requests
    PROVE  RunMoves(n)
<1>1. jobs[n] \in Job /\ (jobs[n].owner # 0 => jobs[n].phase # "Absent")
  BY LifecycleParts, KeptParts DEF TypeOK, ClusterTypeOK, JobsOK, JobExists
<1>2. CASE JobKept(n)
  BY <1>2 DEF JobKept, RunMoves
<1>3. CASE JobRemoved(n)
  BY <1>3, LifecycleParts, KeptParts
  DEF JobRemoved, RemovedFor, JobsHaveTheirRequests, NobodyDeletesJobs, Allowed
<1>4. CASE JobMadeByOthers(n)
  BY <1>1, <1>4 DEF JobMadeByOthers, RunMoves, RunOf
<1>5. CASE JobFinished(n)
  BY <1>5 DEF JobFinished, RunMoves, RunOf
<1>6. CASE JobMade(n)
  <2>1. /\ reqWorker.pc = "CreateJob" /\ n = reqWorker.key /\ ReqBusy
        /\ jobs[n].phase = "Absent" /\ jobs'[n].phase = "Running"
        /\ jobs'[n].owner = reqWorker.obj.uid
    BY <1>6 DEF JobMade, ReqBusy
  <2>2. /\ Exists(requests[n]) /\ requests[n].uid = reqWorker.obj.uid
        /\ reqWorker.obj.state = "Approved"
    BY <2>1, LifecycleParts, KeptParts DEF HeldIsThere, WritesOK
  <2>3. requests[n].state = "Approved"
    BY <2>1, <2>2, LifecycleParts, KeptParts DEF HeldStateOK
  <2>4. PhaseOf(requests[n]) = "Approved"
    BY <2>2, <2>3 DEF PhaseOf
  <2>5. RunOf(jobs[n]) = "Absent" /\ RunOf(jobs'[n]) = "Running"
    BY <1>1, <2>1, <2>2 DEF RunOf, Exists
  <2> QED
    BY <2>4, <2>5 DEF RunMoves
<1> QED
  BY <1>2, <1>3, <1>4, <1>5, <1>6, LifecycleParts, KeptParts, JobSteps

-----------------------------------------------------------------------------
(* The refinement. *)

LEMMA PhaseIsEntered ==
    ASSUME NEW n \in Requests, UNCHANGED jobs, OnlyRequestWritten(n)
    PROVE  Lifecycle!Enter(n, PhaseOf(requests'[n]))
<1>1. \A m \in Requests \ {n} : PhaseOf(requests'[m]) = PhaseOf(requests[m])
  BY DEF OnlyRequestWritten
<1> QED
  BY <1>1 DEF Lifecycle!Enter

(* A Job that changes changes the run of its request and of no other.        *)
LEMMA RunIsEntered ==
    ASSUME NEW n \in Requests, UNCHANGED requests, OnlyJobWritten(n)
    PROVE  /\ [m \in Requests |-> RunOf(jobs'[m])]
                 = [[m \in Requests |-> RunOf(jobs[m])] EXCEPT ![n] = RunOf(jobs'[n])]
           /\ [m \in Requests |-> PhaseOf(requests'[m])]
                 = [m \in Requests |-> PhaseOf(requests[m])]
<1>1. \A m \in Requests \ {n} : RunOf(jobs'[m]) = RunOf(jobs[m])
  BY DEF OnlyJobWritten
<1> QED
  BY <1>1

(* The kept phases and runs of a step that changes neither.                  *)
LEMMA NothingMoves ==
    ASSUME \A n \in Requests : /\ PhaseOf(requests'[n]) = PhaseOf(requests[n])
                               /\ RunOf(jobs'[n]) = RunOf(jobs[n])
    PROVE  UNCHANGED Lifecycle!lifecycleVars
<1>1. /\ [n \in Requests |-> PhaseOf(requests'[n])] = [n \in Requests |-> PhaseOf(requests[n])]
      /\ [n \in Requests |-> RunOf(jobs'[n])] = [n \in Requests |-> RunOf(jobs[n])]
  OBVIOUS
<1> QED
  BY <1>1 DEF Lifecycle!lifecycleVars

(* A step that writes a request is an action of the lifecycle, or none.      *)
LEMMA RequestStepRefines ==
    ASSUME CallsSucceed, NobodyDeletesJobs, LifecycleInv, Next,
           NEW n \in Requests, UNCHANGED jobs, OnlyRequestWritten(n)
    PROVE  Lifecycle!LifecycleNext \/ UNCHANGED Lifecycle!lifecycleVars
<1>1. PhaseMoves(n) /\ Lifecycle!Enter(n, PhaseOf(requests'[n]))
  BY PhasesMove, PhaseIsEntered
<1>2. CASE PhaseOf(requests'[n]) = PhaseOf(requests[n])
  <2>1. \A m \in Requests : PhaseOf(requests'[m]) = PhaseOf(requests[m])
    BY <1>2 DEF OnlyRequestWritten
  <2> QED
    BY <2>1, NothingMoves
<1>3. CASE PhaseEntered(n, "None", "New")
  <2>1. Lifecycle!Submit(n)
    BY <1>1, <1>3 DEF PhaseEntered, Lifecycle!Submit
  <2> QED
    BY <2>1 DEF Lifecycle!LifecycleNext
<1>4. CASE PhaseEntered(n, "New", "Pending")
  <2>1. Lifecycle!Accept(n)
    BY <1>1, <1>4 DEF PhaseEntered, Lifecycle!Accept
  <2> QED
    BY <2>1 DEF Lifecycle!LifecycleNext
<1>5. ASSUME NEW decision \in Decisions, PhaseEntered(n, "Pending", decision)
      PROVE  Lifecycle!LifecycleNext
  <2>1. Lifecycle!Decide(n, decision)
    BY <1>1, <1>5 DEF PhaseEntered, Lifecycle!Decide
  <2> QED
    BY <2>1 DEF Lifecycle!LifecycleNext, Decisions
<1>6. CASE PhaseEntered(n, "Approved", "Started") /\ RunOf(jobs[n]) # "Absent"
  <2>1. Lifecycle!Start(n)
    BY <1>1, <1>6 DEF PhaseEntered, Lifecycle!Start
  <2> QED
    BY <2>1 DEF Lifecycle!LifecycleNext
<1>7. CASE PhaseEntered(n, "Approved", "Conflicted")
  <2>1. Lifecycle!Conflict(n)
    BY <1>1, <1>7 DEF PhaseEntered, Lifecycle!Conflict
  <2> QED
    BY <2>1 DEF Lifecycle!LifecycleNext
<1>8. ASSUME NEW outcome \in {"Complete", "Failed"},
             PhaseEntered(n, "Started", outcome), RunOf(jobs[n]) = outcome
      PROVE  Lifecycle!LifecycleNext
  <2>1. Lifecycle!Record(n)
    BY <1>1, <1>8 DEF PhaseEntered, Lifecycle!Record
  <2> QED
    BY <2>1 DEF Lifecycle!LifecycleNext
<1>9. ASSUME NEW from \in {"New", "Pending", "Approved", "Rejected", "Started"},
             PhaseEntered(n, from, "Malformed")
      PROVE  Lifecycle!LifecycleNext
  <2>1. Lifecycle!Refuse(n)
    BY <1>1, <1>9 DEF PhaseEntered, Lifecycle!Refuse
  <2> QED
    BY <2>1 DEF Lifecycle!LifecycleNext
<1> QED
  BY <1>1, <1>2, <1>3, <1>4, <1>5, <1>6, <1>7, <1>8, <1>9 DEF PhaseMoves

(* A step that writes a Job is an action of the lifecycle, or none.          *)
LEMMA JobStepRefines ==
    ASSUME NobodyDeletesJobs, LifecycleInv, Next,
           NEW n \in Requests, UNCHANGED requests, OnlyJobWritten(n)
    PROVE  Lifecycle!LifecycleNext \/ UNCHANGED Lifecycle!lifecycleVars
<1>1. RunMoves(n)
  BY RunsMove
<1>2. CASE RunOf(jobs'[n]) = RunOf(jobs[n])
  <2>1. \A m \in Requests : RunOf(jobs'[m]) = RunOf(jobs[m])
    BY <1>2 DEF OnlyJobWritten
  <2> QED
    BY <2>1, NothingMoves
<1>3. CASE /\ PhaseOf(requests[n]) = "Approved"
           /\ RunOf(jobs[n]) = "Absent" /\ RunOf(jobs'[n]) = "Running"
  <2>1. Lifecycle!Launch(n)
    BY <1>3, RunIsEntered DEF Lifecycle!Launch
  <2> QED
    BY <2>1 DEF Lifecycle!LifecycleNext
<1>4. CASE RunOf(jobs[n]) = "Running" /\ RunOf(jobs'[n]) \in {"Complete", "Failed"}
  <2>1. Lifecycle!Finish(n, RunOf(jobs'[n]))
    BY <1>4, RunIsEntered DEF Lifecycle!Finish
  <2> QED
    BY <1>4, <2>1 DEF Lifecycle!LifecycleNext
<1> QED
  BY <1>1, <1>2, <1>3, <1>4 DEF RunMoves

(* Every step is an action of the lifecycle, or none.                        *)
LEMMA LifecycleStepRefines ==
    ASSUME CallsSucceed, NobodyDeletesJobs, LifecycleInv, [Next]_vars
    PROVE  [Lifecycle!LifecycleNext]_Lifecycle!lifecycleVars
<1>1. CASE UNCHANGED <<requests, jobs>>
  <2>1. UNCHANGED Lifecycle!lifecycleVars
    BY <1>1, NothingMoves
  <2> QED
    BY <2>1
<1>2. CASE Next
  <2>1. OneWrite
    BY <1>2, LifecycleParts, KeptParts, OneWriteAtATime
  <2> QED
    BY <1>1, <1>2, <2>1, RequestStepRefines, JobStepRefines DEF OneWrite
<1>3. CASE UNCHANGED vars
  BY <1>1, <1>3 DEF vars, clusterVars, store
<1> QED
  BY <1>2, <1>3

(* An empty cluster is where the lifecycle begins.                           *)
LEMMA LifecycleInitRefines == Init => Lifecycle!LifecycleInit
<1> SUFFICES ASSUME Init PROVE Lifecycle!LifecycleInit
  OBVIOUS
<1>1. \A n \in Requests : PhaseOf(requests[n]) = "None" /\ RunOf(jobs[n]) = "Absent"
  BY DEF Init, ClusterInit, NoRequest, NoJob, PhaseOf, RunOf, Exists
<1> QED
  BY <1>1 DEF Lifecycle!LifecycleInit

(* With restarts, edits, early and changed reviews and Jobs that others made *)
(* under a request's name, the operator takes a request through the phases   *)
(* of JobRequestLifecycle and no others, and runs one Job for it.            *)
THEOREM OperatorFollowsLifecycle ==
    ASSUME CallsSucceed, NobodyDeletesJobs
    PROVE  Spec => FollowsLifecycle
<1>1. Init => Lifecycle!LifecycleInit
  BY LifecycleInitRefines
<1>2. LifecycleInv /\ [Next]_vars => [Lifecycle!LifecycleNext]_Lifecycle!lifecycleVars
  BY LifecycleStepRefines
<1> QED
  BY <1>1, <1>2, LifecycleInvariant, PTL DEF Spec, FollowsLifecycle, Lifecycle!Spec
=============================================================================
