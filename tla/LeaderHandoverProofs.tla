------------------------ MODULE LeaderHandoverProofs ------------------------
(***************************************************************************)
(* Theorems about LeaderHandover, for every number of requests, reviews and *)
(* users, every bound, and however many leaders.                           *)
(***************************************************************************)
EXTENDS LeaderHandover, JobRequestOperatorProofs

-----------------------------------------------------------------------------
(* Calls. *)

(* A call that was right about a stored request stays right about it while   *)
(* versions only grow and approvals are not taken back.                      *)
LEMMA CallsStayRight ==
    ASSUME NEW stored \in JobRequest, NEW next \in JobRequest,
           stored.rv <= next.rv, stored.rv = next.rv => stored = next
    PROVE  /\ \A call \in ReqWorkers : \A given, more :
                 (given \subseteq more /\ RequestCallOK(call, stored, given))
                     => RequestCallOK(call, next, more)
           /\ \A call \in RevWorkers :
                 DecisionCallOK(call, stored) => DecisionCallOK(call, next)
<1>1. ASSUME NEW call \in ReqWorkers, NEW given, NEW more, given \subseteq more,
             RequestCallOK(call, stored, given)
      PROVE  RequestCallOK(call, next, more)
  <2>1. /\ call.obj.rv \in Nat /\ call.obj.uid \in Nat
        /\ stored.rv \in Nat /\ next.rv \in Nat
    BY DEF ReqWorkers, JobRequest
  <2>2. /\ call.obj.rv <= stored.rv /\ call.obj.uid <= stored.rv
        /\ Current(call.obj, stored) =>
              call.obj.uid = stored.uid /\ call.obj.state = stored.state
    BY <1>1, Zenon DEF RequestCallOK
  <2>3. call.obj.rv <= next.rv /\ call.obj.uid <= next.rv
    BY <2>1, <2>2
  <2>4. Current(call.obj, next) => next = stored
    BY <2>1, <2>2 DEF Current
  <2>5. (call.pc = "CreateJob" \/ (call.pc = "SetState" /\ call.to = "Started"))
          => <<call.key, call.obj.uid>> \in more
    BY <1>1, Zenon DEF RequestCallOK
  <2> QED
    BY <1>1, <2>2, <2>3, <2>4, <2>5, Zenon DEF RequestCallOK
<1>2. ASSUME NEW call \in RevWorkers, DecisionCallOK(call, stored)
      PROVE  DecisionCallOK(call, next)
  <2>1. call.req.rv \in Nat /\ stored.rv \in Nat /\ next.rv \in Nat
    BY DEF RevWorkers, JobRequest
  <2>2. call.req.rv <= next.rv
    BY <1>2, <2>1 DEF DecisionCallOK
  <2>3. Current(call.req, next) => next = stored
    BY <1>2, <2>1 DEF DecisionCallOK, Current
  <2> QED
    BY <1>2, <2>2, <2>3 DEF DecisionCallOK, Current
<1> QED
  BY <1>1, <1>2

-----------------------------------------------------------------------------
(* What a late call can do to a request and to a Job. *)

DecidedLate(n) ==
    /\ lateReviewCall.pc = "UpdateRequest" /\ n = lateReviewCall.obj.request
    /\ Current(lateReviewCall.req, requests[n])
    /\ requests'[n].uid = requests[n].uid /\ requests'[n].rv = requests[n].rv + 1
    /\ requests'[n].state = lateReviewCall.obj.decision

SetLate(n) ==
    /\ lateRequestCall.pc = "SetState" /\ n = lateRequestCall.key
    /\ Current(lateRequestCall.obj, requests[n])
    /\ requests'[n].uid = requests[n].uid /\ requests'[n].rv = requests[n].rv + 1
    /\ requests'[n].state = lateRequestCall.to

JobMadeLate(n) ==
    /\ lateRequestCall.pc = "CreateJob" /\ n = lateRequestCall.key
    /\ jobs[n].phase = "Absent"
    /\ jobs'[n].owner = lateRequestCall.obj.uid /\ jobs'[n].phase = "Running"
    /\ UNCHANGED requests

(* What a late call can do to a request.                                     *)
LEMMA LateRequestSteps ==
    ASSUME HandoverTypeOK, CallsOK, LateNext
    PROVE  /\ requests' \in [Requests -> JobRequest]
           /\ \A n \in Requests :
                 RequestKept(n) \/ RequestGone(n) \/ DecidedLate(n) \/ SetLate(n)
<1> DEFINE Step == /\ requests' \in [Requests -> JobRequest]
                   /\ \A n \in Requests :
                         RequestKept(n) \/ RequestGone(n) \/ DecidedLate(n) \/ SetLate(n)
<1> USE DEF HandoverTypeOK, TypeOK, ClusterTypeOK
<1>1. requests \in [Requests -> JobRequest]
  OBVIOUS
<1>2. CASE UNCHANGED requests
  BY <1>1, <1>2 DEF RequestKept
<1>3. ASSUME NEW n \in Requests, RequestDeleted(n)
      PROVE  Step
  <2>1. requests[n].rv + 1 \in Nat
    BY DEF JobRequest
  <2> QED
    BY <1>1, <1>3, <2>1, NoObjectTypes DEF RequestDeleted, NoRequest, RequestKept, RequestGone
<1>4. ASSUME NEW n \in Requests, NEW copy \in JobRequest, LandSetState(n, copy),
             \/ /\ lateRequestCall.pc = "SetState" /\ n = lateRequestCall.key
                /\ copy.rv = lateRequestCall.obj.rv /\ copy.state = lateRequestCall.to
             \/ /\ lateReviewCall.pc = "UpdateRequest" /\ n = lateReviewCall.obj.request
                /\ copy.rv = lateReviewCall.req.rv
                /\ copy.state = lateReviewCall.obj.decision
      PROVE  Step
  <2>1. /\ Current(copy, requests[n])
        /\ requests' = [requests EXCEPT ![n] = RequestStatusUpdated(requests[n], copy)]
    BY <1>1, <1>4 DEF LandSetState
  <2>2. requests[n] \in JobRequest /\ RequestStatusUpdated(requests[n], copy) \in JobRequest
    BY WrittenType
  <2>3. /\ requests' \in [Requests -> JobRequest]
        /\ requests'[n] = RequestStatusUpdated(requests[n], copy)
        /\ \A q \in Requests : q # n => requests'[q] = requests[q]
    BY <1>1, <2>1, <2>2
  <2>4. \/ requests'[n] = requests[n]
        \/ /\ requests'[n].uid = requests[n].uid /\ requests'[n].rv = requests[n].rv + 1
           /\ requests'[n].state = copy.state
    BY <2>2, <2>3, WrittenFields
  <2> QED
    BY <1>4, <2>1, <2>3, <2>4 DEF RequestKept, DecidedLate, SetLate, Current
<1>5. CASE LandRequestCall
  <2> DEFINE call == lateRequestCall
             copy == [call.obj EXCEPT !.state = call.to]
  <2>1. CASE call.pc = "Delete" /\ LandDelete(call.key)
    BY <1>3, <2>1 DEF LandDelete, CallsOK
  <2>2. CASE call.pc = "CreateJob" /\ LandCreateJob(call.key, call.obj)
    BY <1>2, <2>2 DEF LandCreateJob
  <2>3. CASE call.pc = "SetState" /\ LandSetState(call.key, copy)
    <3>1. call.key \in Requests
      BY <2>3 DEF CallsOK
    <3>2. call.obj \in JobRequest /\ call.to \in JobRequestStates
      BY DEF ReqWorkers
    <3>3. copy \in JobRequest /\ copy.rv = call.obj.rv /\ copy.state = call.to
      BY <3>2 DEF JobRequest
    <3> HIDE DEF copy
    <3> QED
      BY <1>4, <2>3, <3>1, <3>3
  <2> QED
    BY <1>5, <2>1, <2>2, <2>3 DEF LandRequestCall
<1>6. CASE LandReviewCall
  <2> DEFINE call == lateReviewCall
             copy == Decided(call.req, call.key, call.obj.decision)
  <2>1. CASE call.pc = "Delete" /\ LandDeleteReview(call.key)
    BY <1>2, <2>1 DEF LandDeleteReview
  <2>2. CASE call.pc = "UpdateRequest" /\ LandUpdateRequest(call.obj.request, copy)
    <3>1. call.obj.request \in Requests /\ call.key \in Reviews
      BY <2>2 DEF CallsOK
    <3>2. call.req \in JobRequest /\ call.obj.decision \in JobRequestStates
      BY DEF RevWorkers, JobRequestReview, Decisions, JobRequestStates
    <3>3. /\ copy \in JobRequest /\ copy.rv = call.req.rv
          /\ copy.state = call.obj.decision
      BY <3>1, <3>2 DEF Decided, JobRequest
    <3> HIDE DEF copy
    <3> QED
      BY <1>4, <2>2, <3>1, <3>3 DEF LandUpdateRequest
  <2>3. CASE /\ call.pc = "SetState"
             /\ LandSetReviewState(call.key, [call.obj EXCEPT !.state = call.to])
    BY <1>2, <2>3 DEF LandSetReviewState
  <2> QED
    BY <1>6, <2>1, <2>2, <2>3 DEF LandReviewCall
<1> QED
  BY <1>5, <1>6 DEF LateNext

(* What a late call can do to a Job.                                         *)
LEMMA LateJobSteps ==
    ASSUME HandoverTypeOK, CallsOK, LateNext
    PROVE  /\ jobs' \in [Requests -> Job]
           /\ \A n \in Requests : JobKept(n) \/ JobMadeLate(n)
<1> DEFINE Step == /\ jobs' \in [Requests -> Job]
                   /\ \A n \in Requests : JobKept(n) \/ JobMadeLate(n)
<1> USE DEF HandoverTypeOK, TypeOK, ClusterTypeOK
<1>1. jobs \in [Requests -> Job]
  OBVIOUS
<1>2. CASE UNCHANGED jobs
  BY <1>1, <1>2 DEF JobKept
<1>3. CASE LandRequestCall
  <2> DEFINE call == lateRequestCall
  <2>1. CASE call.pc = "CreateJob" /\ LandCreateJob(call.key, call.obj)
    <3>1. call.key \in Requests /\ call.obj.uid \in Nat
      BY <2>1 DEF CallsOK, ReqWorkers, JobRequest
    <3>2. [owner |-> call.obj.uid, phase |-> "Running"] \in Job
      BY <3>1 DEF Job, JobPhases
    <3> QED
      BY <1>1, <2>1, <3>1, <3>2
      DEF LandCreateJob, StoreJob, JobNameTaken, JobExists, JobKept, JobMadeLate
  <2> QED
    BY <1>2, <1>3, <2>1 DEF LandRequestCall, LandDelete, LandSetState
<1>4. CASE LandReviewCall
  BY <1>2, <1>4
  DEF LandReviewCall, LandDeleteReview, LandUpdateRequest, LandSetState, LandSetReviewState
<1> QED
  BY <1>3, <1>4 DEF LateNext

(* What a late call can do to a review.                                      *)
LEMMA LateReviewSteps ==
    ASSUME HandoverTypeOK, KeysOK, CallsOK, LateNext
    PROVE  /\ reviews' \in [Reviews -> JobRequestReview]
           /\ \A r \in Reviews : Exists(reviews'[r]) => reviews'[r].request \in Requests
<1> DEFINE Step == /\ reviews' \in [Reviews -> JobRequestReview]
                   /\ \A r \in Reviews :
                         Exists(reviews'[r]) => reviews'[r].request \in Requests
<1> USE DEF HandoverTypeOK, TypeOK, ClusterTypeOK
<1>1. /\ reviews \in [Reviews -> JobRequestReview]
      /\ \A r \in Reviews : Exists(reviews[r]) => reviews[r].request \in Requests
  BY DEF KeysOK
<1>2. CASE UNCHANGED reviews
  BY <1>1, <1>2
<1>3. ASSUME NEW r \in Reviews, ReviewDeleted(r)
      PROVE  Step
  <2>1. reviews[r].rv + 1 \in Nat
    BY DEF JobRequestReview
  <2> QED
    BY <1>1, <1>3, <2>1, NoObjectTypes DEF ReviewDeleted, NoReview, Exists
<1>4. ASSUME NEW r \in Reviews, NEW copy \in JobRequestReview, LandSetReviewState(r, copy)
      PROVE  Step
  <2> DEFINE written == ReviewStatusUpdated(reviews[r], copy)
  <2>1. Exists(reviews[r]) /\ reviews' = [reviews EXCEPT ![r] = written]
    BY <1>1, <1>4 DEF LandSetReviewState, Current
  <2>2. written \in JobRequestReview
    BY WrittenType
  <2>3. written.request = reviews[r].request
    BY DEF ReviewStatusUpdated, Written, JobRequestReview
  <2> HIDE DEF written
  <2> QED
    BY <1>1, <2>1, <2>2, <2>3 DEF Exists
<1>5. CASE LandRequestCall
  BY <1>2, <1>5 DEF LandRequestCall, LandDelete, LandCreateJob, LandSetState
<1>6. CASE LandReviewCall
  <2> DEFINE call == lateReviewCall
             copy == [call.obj EXCEPT !.state = call.to]
  <2>1. CASE call.pc = "Delete" /\ LandDeleteReview(call.key)
    BY <1>3, <2>1 DEF LandDeleteReview, CallsOK
  <2>2. CASE \E n, held : LandUpdateRequest(n, held)
    BY <1>2, <2>2 DEF LandUpdateRequest, LandSetState
  <2>3. CASE call.pc = "SetState" /\ LandSetReviewState(call.key, copy)
    <3>1. call.key \in Reviews
      BY <2>3 DEF CallsOK
    <3>2. call.obj \in JobRequestReview /\ call.to \in JobRequestReviewStates
      BY DEF RevWorkers
    <3>3. copy \in JobRequestReview
      BY <3>2 DEF JobRequestReview
    <3> HIDE DEF copy
    <3> QED
      BY <1>4, <2>3, <3>1, <3>3
  <2> QED
    BY <1>6, <2>1, <2>2, <2>3, Zenon DEF LandReviewCall
<1> QED
  BY <1>5, <1>6 DEF LateNext

(* What a late call leaves alone.                                            *)
LEMMA LateFrame ==
    ASSUME LateNext
    PROVE  /\ UNCHANGED <<reqWorker, revWorker, clock, revQueue, revCache, ops, faults,
                          crashes, resyncs>>
           /\ reqQueue' \subseteq reqQueue \cup Requests
           /\ approved \subseteq approved' /\ ObserveLate
           /\ lateRequestCall' \in {lateRequestCall, ReqIdle}
           /\ lateReviewCall' \in {lateReviewCall, RevIdle}
  BY DEF LateNext, LandRequestCall, LandReviewCall, QueueRequests, RequestEvents, ObserveLate,
         workers

-----------------------------------------------------------------------------
(* The inductive invariant. *)

(* The leader's own steps, and the change of leader, are the operator's.     *)
LEMMA LeaderSteps == LeaderNext \/ TakeOver => Next
  BY DEF LeaderNext, TakeOver, Next

(* A step of the leader keeps what it keeps when there is one manager.       *)
LEMMA OnTimeNext ==
    ASSUME HandoverInv, Next
    PROVE  /\ TypeOK' /\ KeysOK' /\ VersionsOK' /\ CopiesOK' /\ WritesOK'
           /\ ApprovalsOK' /\ JobsOK' /\ LaunchesOK'
<1> USE DEF HandoverInv, HandoverTypeOK
<1>1. TypeOK' /\ KeysOK'
  BY TypeNext
<1>2. VersionsOK' /\ CopiesOK' /\ WritesOK'
  BY VersionsNext, CopiesNext, WritesNext
<1>3. ApprovalsOK' /\ JobsOK' /\ LaunchesOK'
  BY ApprovalsNext, JobsNext, LaunchesNext
<1> QED
  BY <1>1, <1>2, <1>3

(* Versions grow by late calls as by others.                                 *)
LEMMA HandoverVersionsGrow ==
    ASSUME HandoverInv, [Next]_vars \/ LateNext, NEW n \in Requests
    PROVE  /\ requests[n] \in JobRequest /\ requests'[n] \in JobRequest
           /\ requests[n].rv \in Nat /\ requests'[n].rv \in Nat
           /\ requests[n].rv <= requests'[n].rv
           /\ requests'[n].rv = requests[n].rv => requests'[n] = requests[n]
<1> USE DEF HandoverInv, HandoverTypeOK
<1>1. requests[n] \in JobRequest /\ requests[n].rv \in Nat
  BY DEF TypeOK, ClusterTypeOK, JobRequest
<1>2. CASE [Next]_vars
  <2>1. TypeOK'
    BY <1>2, TypeNext
  <2> QED
    BY <1>1, <1>2, <2>1, VersionsGrow DEF TypeOK, ClusterTypeOK
<1>3. CASE LateNext
  <2>1. requests' \in [Requests -> JobRequest]
    BY <1>3, LateRequestSteps
  <2>2. requests'[n] = requests[n] \/ requests'[n].rv = requests[n].rv + 1
    BY <1>3, LateRequestSteps DEF RequestKept, RequestGone, DecidedLate, SetLate
  <2> QED
    BY <1>1, <2>1, <2>2
<1> QED
  BY <1>2, <1>3

(* Calls not yet made, or on their way, stay right whatever happens.         *)
LEMMA CallsWait ==
    ASSUME HandoverInv, [Next]_vars \/ LateNext, approved \subseteq approved'
    PROVE  /\ \A call \in {reqWorker, lateRequestCall} : call.pc # "Idle" =>
                 /\ call.key \in Requests
                 /\ RequestCallOK(call, requests'[call.key], approved')
           /\ lateReviewCall.pc = "UpdateRequest" =>
                 /\ lateReviewCall.obj.request \in Requests
                 /\ DecisionCallOK(lateReviewCall, requests'[lateReviewCall.obj.request])
<1>1. ASSUME NEW call \in {reqWorker, lateRequestCall}, call.pc # "Idle"
      PROVE  call.key \in Requests /\ RequestCallOK(call, requests'[call.key], approved')
  <2>1. /\ call.key \in Requests /\ call \in ReqWorkers
        /\ RequestCallOK(call, requests[call.key], approved)
    BY <1>1 DEF HandoverInv, CallsOK, HandoverTypeOK, TypeOK, ReqWorkerTypeOK
  <2> QED
    BY <2>1, HandoverVersionsGrow, CallsStayRight
<1>2. ASSUME lateReviewCall.pc = "UpdateRequest"
      PROVE  /\ lateReviewCall.obj.request \in Requests
             /\ DecisionCallOK(lateReviewCall, requests'[lateReviewCall.obj.request])
  <2>1. /\ lateReviewCall.obj.request \in Requests /\ lateReviewCall \in RevWorkers
        /\ DecisionCallOK(lateReviewCall, requests[lateReviewCall.obj.request])
    BY <1>2 DEF HandoverInv, CallsOK, HandoverTypeOK
  <2> QED
    BY <2>1, HandoverVersionsGrow, CallsStayRight
<1> QED
  BY <1>1, <1>2

(* The call a worker comes to is right about the request it is of.           *)
LEMMA WorkerCallsNext ==
    ASSUME HandoverInv, Next, reqWorker'.pc # "Idle"
    PROVE  /\ reqWorker'.key \in Requests
           /\ RequestCallOK(reqWorker', requests'[reqWorker'.key], approved')
<1> DEFINE stored == requests'[reqWorker'.key]
<1>1. approved \subseteq approved'
  BY HistoryGrows
<1>2. /\ TypeOK' /\ KeysOK' /\ VersionsOK' /\ CopiesOK' /\ WritesOK' /\ ApprovalsOK'
  BY OnTimeNext
<1>3. reqWorker'.key \in Requests
  BY <1>2 DEF KeysOK, ReqBusy
<1>4. CASE UNCHANGED reqWorker
  BY <1>1, <1>4, CallsWait
<1>5. CASE reqWorker' = ReqIdle
  BY <1>5 DEF ReqIdle
<1>6. CASE WorkerMoves \/ WorkerRefreshes \/ \E n \in Requests : WorkerPicks(n)
  <2>1. reqWorker'.obj.rv <= stored.rv /\ reqWorker'.obj.uid <= stored.rv
    BY <1>2 DEF VersionsOK, ReqBusy
  <2>2. Current(reqWorker'.obj, stored) => reqWorker'.obj.uid = stored.uid
    BY <1>2 DEF CopiesOK, ReqBusy, Current, Exists
  <2>3. reqWorker'.pc = "SetState" => reqWorker'.to \notin Decisions \cup {""}
    BY <1>2 DEF WritesOK
  <2>4. CASE WorkerMoves
    <3>1. /\ reqWorker'.key = reqWorker.key /\ UNCHANGED requests
          /\ reqWorker'.obj.rv = reqWorker.obj.rv /\ reqWorker'.obj.state = reqWorker.obj.state
          /\ reqWorker'.obj.uid = reqWorker.obj.uid
      BY <2>4 DEF WorkerMoves
    <3>2. /\ reqWorker.pc \notin {"Idle", "Delete", "SetState"}
          /\ RequestCallOK(reqWorker, stored, approved)
      BY <2>4, <3>1, Zenon DEF WorkerMoves, HandoverInv, CallsOK
    <3>3. /\ Current(reqWorker'.obj, stored) => reqWorker'.obj.state = stored.state
          /\ reqWorker'.obj.state \notin FinalStates
      BY <3>1, <3>2 DEF RequestCallOK, Current
    <3>4. (reqWorker'.pc = "CreateJob" \/ (reqWorker'.pc = "SetState" /\ reqWorker'.to = "Started"))
            => <<reqWorker'.key, reqWorker'.obj.uid>> \in approved'
      BY <1>2 DEF ApprovalsOK, WritesOK, InPart, ReqBusy
    <3> QED
      BY <1>3, <2>1, <2>2, <2>3, <3>3, <3>4, Zenon DEF RequestCallOK
  <2>5. CASE WorkerRefreshes
    <3>1. /\ reqWorker'.pc = "SetState" /\ reqWorker'.obj = stored
          /\ reqWorker'.to \in {"Complete", "Failed"}
      BY <2>5 DEF WorkerRefreshes, HandoverInv, WritesOK
    <3> QED
      BY <1>3, <2>1, <2>2, <2>3, <3>1 DEF RequestCallOK
  <2>6. CASE \E n \in Requests : WorkerPicks(n)
    <3>1. /\ reqWorker'.obj = stored /\ reqWorker'.pc \in {"Delete", "SetState", "ListTarget"}
          /\ reqWorker'.pc # "Delete" => reqWorker'.obj.state \notin FinalStates
          /\ reqWorker'.pc = "SetState" => reqWorker'.to = "Malformed"
      BY <2>6 DEF WorkerPicks, InTerminalState, FinalStates
    <3> QED
      BY <1>3, <2>1, <2>2, <2>3, <3>1 DEF RequestCallOK
  <2> QED
    BY <1>6, <2>4, <2>5, <2>6
<1> QED
  BY <1>4, <1>5, <1>6, ReqWorkerChanges DEF HandoverInv, HandoverTypeOK

(* What the next leader finds on its way is right about what is stored.      *)
LEMMA TakeOverCalls ==
    ASSUME HandoverInv, TakeOver
    PROVE  CallsOK'
<1>1. /\ UNCHANGED requests /\ reqWorker' = ReqIdle /\ ReqIdle.pc = "Idle"
      /\ RevIdle.pc = "Idle"
  BY DEF TakeOver, Restart, store, ReqIdle, RevIdle
<1>2. approved \subseteq approved'
  BY LeaderSteps, HistoryGrows
<1>3. \/ /\ reqWorker.pc \in RequestWrites /\ lateRequestCall' = reqWorker
      \/ lateRequestCall' = ReqIdle
  BY DEF TakeOver
<1>4. \/ /\ revWorker.pc \in ReviewWrites /\ lateReviewCall' = revWorker
      \/ lateReviewCall' = RevIdle
  BY DEF TakeOver
<1>5. lateRequestCall'.pc # "Idle" =>
        /\ lateRequestCall'.pc \in RequestWrites /\ lateRequestCall'.key \in Requests
        /\ RequestCallOK(lateRequestCall', requests'[lateRequestCall'.key], approved')
  <2>1. CASE reqWorker.pc \in RequestWrites /\ lateRequestCall' = reqWorker
    <3>1. reqWorker.pc # "Idle"
      BY <2>1 DEF RequestWrites
    <3>2. Next
      BY LeaderSteps
    <3> QED
      BY <1>2, <2>1, <3>1, <3>2, CallsWait
  <2> QED
    BY <1>1, <1>3, <2>1
<1>6. lateReviewCall'.pc # "Idle" =>
        lateReviewCall'.pc \in ReviewWrites /\ lateReviewCall'.key \in Reviews
  BY <1>1, <1>4 DEF HandoverInv, KeysOK, ReviewWrites
<1>7. lateReviewCall'.pc = "UpdateRequest" =>
        /\ lateReviewCall'.obj.request \in Requests
        /\ DecisionCallOK(lateReviewCall', requests'[lateReviewCall'.obj.request])
  <2>1. CASE lateReviewCall' = revWorker /\ Deciding
    BY <1>1, <2>1
    DEF HandoverInv, KeysOK, VersionsOK, CopiesOK, WritesOK, Deciding, DecisionCallOK
  <2> QED
    BY <1>1, <1>4, <2>1 DEF Deciding
<1> QED
  BY <1>1, <1>5, <1>6, <1>7 DEF CallsOK

(* A call that lands late keeps what one manager keeps.                      *)
LEMMA LandedNext ==
    ASSUME HandoverInv, LateNext
    PROVE  HandoverInv'
<1> USE DEF HandoverInv
<1>1. HandoverTypeOK /\ KeysOK /\ CallsOK
  OBVIOUS
<1>2. /\ UNCHANGED <<reqWorker, revWorker, clock, revQueue, revCache, ops, faults, crashes,
                    resyncs>>
      /\ reqQueue' \subseteq reqQueue \cup Requests
      /\ approved \subseteq approved' /\ ObserveLate
      /\ lateRequestCall' \in {lateRequestCall, ReqIdle}
      /\ lateReviewCall' \in {lateReviewCall, RevIdle}
  BY LateFrame
<1>3. /\ requests' \in [Requests -> JobRequest] /\ jobs' \in [Requests -> Job]
      /\ reviews' \in [Reviews -> JobRequestReview]
  BY <1>1, LateRequestSteps, LateJobSteps, LateReviewSteps
<1>4. ReqIdle \in ReqWorkers /\ ReqIdle.pc = "Idle" /\ RevIdle \in RevWorkers /\ RevIdle.pc = "Idle"
  BY ReqWorkerSteps, RevWorkerSteps DEF ReqIdle, RevIdle
<1>5. HandoverTypeOK'
  <2>1. \A n \in Requests : requests[n].uid \in Nat /\ jobs'[n].owner \in Nat
    BY <1>1, <1>3 DEF HandoverTypeOK, TypeOK, ClusterTypeOK, JobRequest, Job
  <2>2. approved' \subseteq Requests \X Nat /\ launched' \subseteq Requests \X Nat
    BY <1>1, <1>2, <2>1 DEF ObserveLate, HandoverTypeOK, TypeOK
  <2>3. ClusterTypeOK' /\ ReqWorkerTypeOK' /\ RevWorkerTypeOK'
    BY <1>1, <1>2, <1>3
    DEF HandoverTypeOK, TypeOK, ClusterTypeOK, ReqWorkerTypeOK, RevWorkerTypeOK
  <2> QED
    BY <1>1, <1>2, <1>4, <2>2, <2>3 DEF HandoverTypeOK, TypeOK
<1>6. KeysOK'
  <2>1. \A r \in Reviews : Exists(reviews'[r]) => reviews'[r].request \in Requests
    BY <1>1, LateReviewSteps
  <2> QED
    BY <1>1, <1>2, <2>1 DEF KeysOK, ReqBusy, Exists
<1>7. \A n \in Requests : /\ requests[n] \in JobRequest /\ requests'[n] \in JobRequest
                          /\ requests[n].rv \in Nat /\ requests'[n].rv \in Nat
                          /\ requests[n].rv <= requests'[n].rv
                          /\ requests'[n].rv = requests[n].rv => requests'[n] = requests[n]
  BY HandoverVersionsGrow
<1>8. CallsOK'
  <2>1. \A call \in {reqWorker', lateRequestCall'} : call.pc # "Idle" =>
          /\ call.key \in Requests
          /\ RequestCallOK(call, requests'[call.key], approved')
    BY <1>2, <1>4, CallsWait
  <2>2. lateReviewCall'.pc = "UpdateRequest" =>
          /\ lateReviewCall'.obj.request \in Requests
          /\ DecisionCallOK(lateReviewCall', requests'[lateReviewCall'.obj.request])
    BY <1>2, <1>4, CallsWait
  <2> QED
    BY <1>1, <1>2, <1>4, <2>1, <2>2 DEF CallsOK
<1>9. VersionsOK' /\ CopiesOK'
  <2>1. \A n \in Requests : requests'[n].uid <= requests'[n].rv
    <3>1. ASSUME NEW n \in Requests
          PROVE  requests'[n].uid <= requests'[n].rv
      <4>1. \/ requests'[n] = requests[n]
            \/ /\ requests'[n].uid \in {0, requests[n].uid}
               /\ requests'[n].rv = requests[n].rv + 1
        BY <1>1, LateRequestSteps DEF RequestKept, RequestGone, DecidedLate, SetLate
      <4>2. requests[n].uid <= requests[n].rv /\ requests[n].uid \in Nat
        BY <1>7 DEF VersionsOK, JobRequest
      <4> QED
        BY <1>7, <4>1, <4>2
    <3> QED
      BY <3>1
  <2>2. ReqBusy' => RequestCallOK(reqWorker', requests'[reqWorker'.key], approved')
    BY <1>8 DEF CallsOK, ReqBusy
  <2>3. Deciding' => DecisionCallOK(revWorker', requests'[revWorker'.obj.request])
    <3>1. ASSUME Deciding
          PROVE  DecisionCallOK(revWorker, requests'[revWorker.obj.request])
      <4>1. /\ revWorker.obj.request \in Requests /\ revWorker \in RevWorkers
            /\ DecisionCallOK(revWorker, requests[revWorker.obj.request])
        BY <1>1, <3>1
        DEF KeysOK, VersionsOK, CopiesOK, WritesOK, Deciding, DecisionCallOK, HandoverTypeOK,
            TypeOK, RevWorkerTypeOK
      <4> QED
        BY <1>7, <4>1, CallsStayRight
    <3> QED
      BY <1>2, <3>1 DEF Deciding
  <2>4. VersionsOK'
    BY <2>1, <2>2, <2>3 DEF VersionsOK, RequestCallOK, DecisionCallOK
  <2>5. CopiesOK'
    BY <2>2, <2>3 DEF CopiesOK, RequestCallOK, DecisionCallOK, Current, Exists
  <2> QED
    BY <2>4, <2>5
<1>10. WritesOK'
  BY <1>2 DEF WritesOK, Deciding, FourEyes, Identified
<1>11. JobsOK'
  BY <1>1, LateJobSteps DEF JobsOK, JobExists, JobKept, JobMadeLate
<1>12. ApprovalsOK'
  <2>1. ASSUME NEW n \in Requests, requests'[n].state \in {"Approved", "Started"}
        PROVE  <<n, requests'[n].uid>> \in approved'
    <3>1. CASE RequestKept(n)
      BY <1>2, <2>1, <3>1 DEF RequestKept, ApprovalsOK
    <3>2. CASE RequestGone(n)
      BY <2>1, <3>2 DEF RequestGone
    <3>3. CASE DecidedLate(n)
      <4>1. DecisionCallOK(lateReviewCall, requests[n])
        BY <3>3 DEF CallsOK, DecidedLate
      <4>2. /\ requests[n].state = "Pending"
            /\ FourEyes(requests[n].by, lateReviewCall.obj.by)
        BY <3>3, <4>1 DEF DecisionCallOK, DecidedLate
      <4>3. requests'[n].state = "Approved" /\ requests'[n].uid = requests[n].uid
        <5>1. lateReviewCall.obj.decision \in Decisions
          BY DEF HandoverTypeOK, RevWorkers, JobRequestReview
        <5> QED
          BY <2>1, <3>3, <5>1 DEF DecidedLate, Decisions
      <4>4. ApprovedLate(n)
        BY <3>3, <4>2, <4>3 DEF ApprovedLate, DecidedLate
      <4> QED
        BY <1>2, <4>3, <4>4 DEF ObserveLate
    <3>4. CASE SetLate(n)
      <4>1. RequestCallOK(lateRequestCall, requests[n], approved)
        BY <3>4 DEF CallsOK, SetLate
      <4>2. lateRequestCall.to = "Started" /\ requests'[n].uid = lateRequestCall.obj.uid
        BY <2>1, <3>4, <4>1 DEF RequestCallOK, SetLate, Decisions
      <4> QED
        BY <1>2, <3>4, <4>1, <4>2 DEF RequestCallOK, SetLate
    <3> QED
      BY <1>1, <3>1, <3>2, <3>3, <3>4, LateRequestSteps
  <2>2. OnlyApprovedRequestsRun'
    <3>1. ASSUME NEW n \in Requests, jobs'[n].owner # 0
          PROVE  <<n, jobs'[n].owner>> \in approved'
      <4>1. CASE JobKept(n)
        BY <1>2, <3>1, <4>1 DEF JobKept, ApprovalsOK, OnlyApprovedRequestsRun
      <4>2. CASE JobMadeLate(n)
        BY <1>2, <4>2 DEF JobMadeLate, CallsOK, RequestCallOK
      <4> QED
        BY <1>1, <4>1, <4>2, LateJobSteps
    <3> QED
      BY <3>1 DEF OnlyApprovedRequestsRun
  <2> QED
    BY <1>2, <2>1, <2>2 DEF ApprovalsOK, InPart, ReqBusy
<1>13. LaunchesOK'
  <2>1. ASSUME NEW l \in launched'
        PROVE  \/ l \in launched
               \/ \E n \in Requests : JobMadeLate(n) /\ l = <<n, jobs'[n].owner>>
    <3>1. \A n \in Requests : LaunchedNow(n) => JobMadeLate(n)
      BY <1>1, LateJobSteps DEF LaunchedNow, JobKept
    <3> QED
      BY <1>2, <3>1 DEF ObserveLate
  <2>2. ASSUME NEW l \in launched'
        PROVE  l[2] <= requests'[l[1]].rv
    <3>1. CASE l \in launched
      <4>1. l[1] \in Requests /\ l[2] \in Nat /\ l[2] <= requests[l[1]].rv
        BY <1>1, <3>1 DEF LaunchesOK, HandoverTypeOK, TypeOK
      <4> QED
        BY <1>7, <4>1
    <3>2. ASSUME NEW n \in Requests, JobMadeLate(n), l = <<n, jobs'[n].owner>>
          PROVE  l[2] <= requests'[l[1]].rv
      BY <3>2 DEF JobMadeLate, CallsOK, RequestCallOK
    <3> QED
      BY <2>1, <3>1, <3>2
  <2>3. ASSUME NEW n \in Requests, requests'[n].uid # 0, <<n, requests'[n].uid>> \in launched'
        PROVE  jobs'[n].phase # "Absent" /\ jobs'[n].owner = requests'[n].uid
    <3>1. CASE JobMadeLate(n) /\ jobs'[n].owner = requests'[n].uid
      BY <3>1 DEF JobMadeLate
    <3>2. CASE <<n, requests'[n].uid>> \in launched
      <4>1. requests'[n].uid = requests[n].uid
        BY <1>1, <2>3, LateRequestSteps DEF RequestKept, RequestGone, DecidedLate, SetLate
      <4>2. jobs[n].phase # "Absent" /\ jobs[n].owner = requests[n].uid
        BY <2>3, <3>2, <4>1 DEF LaunchesOK, Exists, JobExists
      <4> QED
        BY <1>1, <4>1, <4>2, LateJobSteps DEF JobKept, JobMadeLate
    <3> QED
      BY <2>1, <2>3, <3>1, <3>2
  <2> QED
    BY <2>2, <2>3 DEF LaunchesOK, Exists, JobExists
<1> QED
  BY <1>5, <1>6, <1>8, <1>9, <1>10, <1>11, <1>12, <1>13

(* There are no calls under way at first.                                    *)
LEMMA HandoverStart == HandoverInit => HandoverInv
<1> SUFFICES ASSUME HandoverInit PROVE HandoverInv
  OBVIOUS
<1>1. TypeOK /\ KeysOK /\ SafetyInv
  BY TypeInit, SafetyInit DEF HandoverInit
<1>2. /\ lateRequestCall = ReqIdle /\ lateReviewCall = RevIdle /\ reqWorker = ReqIdle
      /\ ReqIdle.pc = "Idle" /\ RevIdle.pc = "Idle"
  BY DEF HandoverInit, Init, ReqWorkerInit, ReqIdle, RevIdle
<1>3. HandoverTypeOK
  BY <1>1, <1>2, ReqWorkerSteps, RevWorkerSteps DEF HandoverTypeOK
<1>4. CallsOK
  BY <1>2 DEF CallsOK
<1> QED
  BY <1>1, <1>3, <1>4 DEF HandoverInv, SafetyInv

(* Every step of either leader keeps the invariant.                          *)
LEMMA HandoverStepNext == HandoverInv /\ [HandoverNext]_handoverVars => HandoverInv'
<1> SUFFICES ASSUME HandoverInv, [HandoverNext]_handoverVars PROVE HandoverInv'
  OBVIOUS
<1>1. CASE LateNext
  BY <1>1, LandedNext
<1>2. CASE TakeOver
  <2>1. Next
    BY <1>2, LeaderSteps
  <2>2. lateRequestCall' \in ReqWorkers /\ lateReviewCall' \in RevWorkers
    BY <1>2, ReqWorkerSteps, RevWorkerSteps
    DEF TakeOver, HandoverInv, HandoverTypeOK, TypeOK, ReqWorkerTypeOK, RevWorkerTypeOK
  <2> QED
    BY <1>2, <2>1, <2>2, OnTimeNext, TakeOverCalls DEF HandoverInv, HandoverTypeOK
<1>3. CASE LeaderNext /\ UNCHANGED late
  <2>1. Next
    BY <1>3, LeaderSteps
  <2>2. UNCHANGED <<lateRequestCall, lateReviewCall>>
    BY <1>3 DEF late
  <2>3. approved \subseteq approved'
    BY <2>1, HistoryGrows
  <2>4. \A call \in {reqWorker', lateRequestCall'} : call.pc # "Idle" =>
          /\ call.key \in Requests
          /\ RequestCallOK(call, requests'[call.key], approved')
    BY <2>1, <2>2, <2>3, CallsWait, WorkerCallsNext
  <2>5. lateReviewCall'.pc = "UpdateRequest" =>
          /\ lateReviewCall'.obj.request \in Requests
          /\ DecisionCallOK(lateReviewCall', requests'[lateReviewCall'.obj.request])
    BY <2>1, <2>2, <2>3, CallsWait
  <2>6. CallsOK'
    BY <2>2, <2>4, <2>5 DEF CallsOK, HandoverInv
  <2> QED
    BY <2>1, <2>2, <2>6, OnTimeNext DEF HandoverInv, HandoverTypeOK
<1>4. CASE UNCHANGED handoverVars
  <2>1. UNCHANGED vars /\ UNCHANGED <<lateRequestCall, lateReviewCall>>
    BY <1>4 DEF handoverVars, late
  <2>2. UNCHANGED <<requests, reviews, jobs, clock, reqQueue, revQueue, revCache, ops, faults,
                    crashes, resyncs, reqWorker, revWorker, approved, launched>>
    BY <2>1 DEF vars, clusterVars, store, queues, workers, history
  <2>3. TypeOK' /\ KeysOK'
    BY <2>1, TypeNext DEF HandoverInv, HandoverTypeOK
  <2>4. VersionsOK' /\ CopiesOK' /\ WritesOK'
    BY <2>2
    DEF HandoverInv, VersionsOK, CopiesOK, WritesOK, ReqBusy, Deciding, Current, Exists,
        FourEyes, Identified
  <2>5. ApprovalsOK' /\ JobsOK' /\ LaunchesOK'
    BY <2>2
    DEF HandoverInv, ApprovalsOK, OnlyApprovedRequestsRun, JobsOK, LaunchesOK, InPart, ReqBusy,
        JobExists, Exists
  <2>6. CallsOK'
    BY <2>1, <2>2 DEF HandoverInv, CallsOK
  <2> QED
    BY <2>1, <2>3, <2>4, <2>5, <2>6 DEF HandoverInv, HandoverTypeOK
<1> QED
  BY <1>1, <1>2, <1>3, <1>4 DEF HandoverNext

-----------------------------------------------------------------------------
(* What leaders that follow one another, and calls that land after their     *)
(* leader has gone, keep: the types and the names, the versions, the writes   *)
(* each worker may make, the approvals that precede what relies on them.      *)
THEOREM HandoverInvariant == HandoverSpec => []HandoverInv
<1> QED
  BY HandoverStart, HandoverStepNext, PTL DEF HandoverSpec

(* Every object stored or held is one its API type allows, late calls        *)
(* included, and no bound is passed.                                         *)
THEOREM HandoverTypes == HandoverSpec => []HandoverTypeOK
<1>1. HandoverInv => HandoverTypeOK
  BY DEF HandoverInv
<1> QED
  BY <1>1, HandoverInvariant, PTL

(* A Job made by a call that lands under the next leader, too, runs a        *)
(* request that somebody other than its requester approved.                  *)
THEOREM ApprovalBeforeLateJob == HandoverSpec => []OnlyApprovedRequestsRun
<1>1. HandoverInv => OnlyApprovedRequestsRun
  BY DEF HandoverInv, ApprovalsOK
<1> QED
  BY <1>1, HandoverInvariant, PTL

(* A step is one of a single manager, or a late call.                        *)
LEMMA HandoverSteps ==
    ASSUME [HandoverNext]_handoverVars
    PROVE  [Next]_vars \/ LateNext
  BY LeaderSteps DEF HandoverNext, handoverVars

(* A request's Job is not created twice while it is there, though the Create *)
(* of a leader that has gone and that of the next one may both be under way. *)
THEOREM LateJobsRunOnce == HandoverSpec => JobRunsOnce
<1>1. ASSUME HandoverInv, [HandoverNext]_handoverVars, NEW n \in Requests, LaunchedNow(n),
             requests[n].uid = jobs'[n].owner
      PROVE  <<n, jobs'[n].owner>> \notin launched
  <2>1. ASSUME jobs[n].phase = "Absent", jobs'[n].owner # 0
        PROVE  <<n, jobs'[n].owner>> \notin launched
    BY <1>1, <2>1 DEF HandoverInv, LaunchesOK, Exists, JobExists
  <2>2. CASE UNCHANGED vars
    BY <1>1, <2>2 DEF vars, clusterVars, store, LaunchedNow
  <2>3. CASE Next
    BY <1>1, <2>1, <2>3, JobSteps
    DEF HandoverInv, HandoverTypeOK, LaunchedNow, JobKept, JobRemoved, JobMadeByOthers,
        JobFinished, JobMade, NoJob
  <2>4. CASE LateNext
    BY <1>1, <2>1, <2>4, LateJobSteps DEF HandoverInv, LaunchedNow, JobKept, JobMadeLate
  <2> QED
    BY <1>1, <2>2, <2>3, <2>4, HandoverSteps
<1>2. HandoverInv /\ [HandoverNext]_handoverVars =>
        [\A n \in Requests :
            (LaunchedNow(n) /\ requests[n].uid = jobs'[n].owner)
                => <<n, jobs'[n].owner>> \notin launched]_vars
  BY <1>1
<1> QED
  BY <1>2, HandoverInvariant, PTL DEF HandoverSpec, JobRunsOnce

(* A decision that lands late still falls on a request that is Pending: the  *)
(* version in the copy of the leader that has gone is checked all the same.  *)
THEOREM LateDecisionsFallOnPending == HandoverSpec => DecidedWhilePending
<1>1. ASSUME HandoverInv, [HandoverNext]_handoverVars, NEW n \in Requests, Stays(n),
             requests'[n].state \in Decisions, requests'[n].state # requests[n].state
      PROVE  requests[n].state = "Pending"
  <2>1. CASE UNCHANGED vars
    BY <1>1, <2>1 DEF vars, clusterVars, store
  <2>2. CASE Next
    <3>1. RequestDecided(n)
      BY <1>1, <2>2, RequestSteps
      DEF HandoverInv, HandoverTypeOK, WritesOK, Decisions, RequestKept, RequestCreated,
          RequestGone, RequestEdited, RequestSet
    <3> QED
      BY <1>1, <3>1 DEF HandoverInv, CopiesOK, WritesOK, RequestDecided
  <2>3. CASE LateNext
    <3>1. DecidedLate(n) \/ SetLate(n)
      BY <1>1, <2>3, LateRequestSteps DEF HandoverInv, RequestKept, RequestGone, Decisions
    <3>2. ~SetLate(n)
      BY <1>1 DEF HandoverInv, CallsOK, RequestCallOK, SetLate
    <3>3. DecisionCallOK(lateReviewCall, requests[n])
      BY <1>1, <3>1, <3>2 DEF HandoverInv, CallsOK, DecidedLate
    <3> QED
      BY <3>1, <3>2, <3>3 DEF DecisionCallOK, DecidedLate
  <2> QED
    BY <1>1, <2>1, <2>2, <2>3, HandoverSteps
<1>2. HandoverInv /\ [HandoverNext]_handoverVars =>
        [\A n \in Requests :
            (Stays(n) /\ requests'[n].state \in Decisions
               /\ requests'[n].state # requests[n].state)
                => requests[n].state = "Pending"]_vars
  BY <1>1
<1> QED
  BY <1>2, HandoverInvariant, PTL DEF HandoverSpec, DecidedWhilePending

(* No late update, and no reconcile a late update overtook, brings a request *)
(* back from a terminal state to one from which it would run.                *)
THEOREM TerminalStatesAreNotReopened == HandoverSpec => TerminalIsNeverReopened
<1>1. ASSUME HandoverInv, [HandoverNext]_handoverVars, NEW n \in Requests, Stays(n),
             requests[n].state \in FinalStates
      PROVE  requests'[n].state \in FinalStates
  <2>1. CASE UNCHANGED vars
    BY <1>1, <2>1 DEF vars, clusterVars, store
  <2>2. ASSUME NEW call \in {reqWorker, lateRequestCall}, call.pc = "SetState", n = call.key,
               Current(call.obj, requests[n])
        PROVE  call.to \in FinalStates
    <3>1. \A c \in {reqWorker, lateRequestCall} :
            c.pc # "Idle" => RequestCallOK(c, requests[c.key], approved)
      BY <1>1, Zenon DEF HandoverInv, CallsOK
    <3>2. RequestCallOK(call, requests[call.key], approved)
      BY <2>2, <3>1
    <3>3. /\ Current(call.obj, requests[call.key]) =>
               call.obj.state = requests[call.key].state
          /\ call.obj.state \in FinalStates => call.to \in {"Complete", "Failed"}
      BY <2>2, <3>2, Zenon DEF RequestCallOK
    <3> QED
      BY <1>1, <2>2, <3>3 DEF FinalStates
  <2>3. CASE Next
    <3>1. RequestKept(n) \/ RequestEdited(n) \/ RequestDecided(n) \/ RequestSet(n)
      BY <1>1, <2>3, RequestSteps
      DEF HandoverInv, HandoverTypeOK, RequestCreated, RequestGone, Stays, Exists
    <3>2. ~RequestDecided(n)
      BY <1>1 DEF HandoverInv, CopiesOK, WritesOK, RequestDecided, FinalStates
    <3> QED
      BY <1>1, <2>2, <3>1, <3>2 DEF RequestKept, RequestEdited, RequestSet
  <2>4. CASE LateNext
    <3>1. RequestKept(n) \/ DecidedLate(n) \/ SetLate(n)
      BY <1>1, <2>4, LateRequestSteps DEF HandoverInv, RequestGone, Stays, Exists
    <3>2. ~DecidedLate(n)
      BY <1>1 DEF HandoverInv, CallsOK, DecisionCallOK, DecidedLate, FinalStates
    <3> QED
      BY <1>1, <2>2, <3>1, <3>2 DEF RequestKept, SetLate
  <2> QED
    BY <1>1, <2>1, <2>3, <2>4, HandoverSteps
<1>2. HandoverInv /\ [HandoverNext]_handoverVars =>
        [\A n \in Requests :
            (Stays(n) /\ requests[n].state \in FinalStates)
                => requests'[n].state \in FinalStates]_handoverVars
  BY <1>1
<1> QED
  BY <1>2, HandoverInvariant, PTL DEF HandoverSpec, TerminalIsNeverReopened
=============================================================================
