--------------------------- MODULE LeaderHandover ---------------------------
(***************************************************************************)
(* Two managers, one after the other.  The leader election of cmd/main.go  *)
(* lets one manager at a time run its controllers, but when the leader     *)
(* stops, the call a worker of it was making may still be on its way: the  *)
(* API server can carry it out at any time after the next manager started. *)
(* Such a call is late: nobody waits for its answer.                       *)
(***************************************************************************)
EXTENDS JobRequestOperator

VARIABLES
    lateRequestCall,  \* the JobRequest worker whose last write is on its way
    lateReviewCall    \* the same of the JobRequestReview worker

late == <<lateRequestCall, lateReviewCall>>
handoverVars == <<vars, late>>

(* The calls that write.  A late read changes nothing.                      *)
RequestWrites == {"Delete", "CreateJob", "SetState"}
ReviewWrites == {"Delete", "UpdateRequest", "SetState"}

HandoverTypeOK ==
    /\ TypeOK
    /\ lateRequestCall \in ReqWorkers /\ lateReviewCall \in RevWorkers

HandoverInit ==
    /\ Init
    /\ lateRequestCall = ReqIdle /\ lateReviewCall = RevIdle

(* The leader stops and the next one starts.                                *)
TakeOver ==
    /\ Restart /\ Observe
    /\ lateRequestCall' = IF reqWorker.pc \in RequestWrites THEN reqWorker ELSE ReqIdle
    /\ lateReviewCall' = IF revWorker.pc \in ReviewWrites THEN revWorker ELSE RevIdle

-----------------------------------------------------------------------------
(* A late call is carried out as it would have been in time.  One that the  *)
(* API server refuses, or that never arrives, leaves everything as it is.   *)

LandDelete(n) == RequestDeleted(n) /\ UNCHANGED <<reviews, jobs>>

SlipOwnerByName(n, obj) == StoreJob(n, requests[n].uid) /\ UNCHANGED <<requests, reviews>>
LandCreateJob(n, obj) == StoreJob(n, obj.uid) /\ UNCHANGED <<requests, reviews>>

SlipPatched(n, copy) ==
    /\ Exists(requests[n])
    /\ requests' = [requests EXCEPT ![n] = RequestStatusUpdated(@, copy)]
    /\ UNCHANGED <<reviews, jobs>>
LandSetState(n, copy) ==
    /\ Current(copy, requests[n])
    /\ requests' = [requests EXCEPT ![n] = RequestStatusUpdated(@, copy)]
    /\ UNCHANGED <<reviews, jobs>>

LandRequestCall ==
    /\ LET call == lateRequestCall IN
       \/ call.pc = "Delete" /\ LandDelete(call.key)
       \/ call.pc = "CreateJob" /\ LandCreateJob(call.key, call.obj)
       \/ call.pc = "SetState" /\ LandSetState(call.key, [call.obj EXCEPT !.state = call.to])
    /\ lateRequestCall' = ReqIdle
    /\ QueueRequests(reqQueue)
    /\ UNCHANGED <<clock, revQueue, revCache, ops, faults, crashes, resyncs, lateReviewCall>>

LandDeleteReview(r) == ReviewDeleted(r) /\ UNCHANGED <<requests, jobs>>

SlipDecisionPatched(n, copy) == SlipPatched(n, copy)
LandUpdateRequest(n, copy) == LandSetState(n, copy)

LandSetReviewState(r, copy) ==
    /\ Current(copy, reviews[r])
    /\ reviews' = [reviews EXCEPT ![r] = ReviewStatusUpdated(@, copy)]
    /\ UNCHANGED <<requests, jobs>>

LandReviewCall ==
    /\ LET call == lateReviewCall IN
       \/ call.pc = "Delete" /\ LandDeleteReview(call.key)
       \/ /\ call.pc = "UpdateRequest"
          /\ LandUpdateRequest(call.obj.request, Decided(call.req, call.key, call.obj.decision))
       \/ /\ call.pc = "SetState"
          /\ LandSetReviewState(call.key, [call.obj EXCEPT !.state = call.to])
    /\ lateReviewCall' = RevIdle
    /\ QueueRequests(reqQueue)
    /\ UNCHANGED <<clock, revQueue, revCache, ops, faults, crashes, resyncs, lateRequestCall>>

(* The history variables, when a late call lands.                           *)
ApprovedLate(n) ==
    /\ requests[n].state # "Approved" /\ requests'[n].state = "Approved"
    /\ requests'[n].uid = requests[n].uid
    /\ lateReviewCall.obj.request = n
    /\ FourEyes(requests[n].by, lateReviewCall.obj.by)

ObserveLate ==
    /\ approved' = approved \cup
          {<<n, requests[n].uid>> : n \in {m \in Requests : ApprovedLate(m)}}
    /\ launched' = launched \cup
          {<<n, jobs'[n].owner>> : n \in {m \in Requests : LaunchedNow(m)}}

LateNext == (LandRequestCall \/ LandReviewCall) /\ UNCHANGED workers /\ ObserveLate

-----------------------------------------------------------------------------
LeaderNext ==
    \/ ClusterNext /\ UNCHANGED workers /\ Observe
    \/ RequestWorkerNext \/ \E n \in Requests : PickRequest(n)
    \/ ReviewWorkerNext \/ \E r \in Reviews : PickReview(r)

HandoverNext ==
    \/ LeaderNext /\ UNCHANGED late
    \/ TakeOver
    \/ LateNext

HandoverSpec == HandoverInit /\ [][HandoverNext]_handoverVars

-----------------------------------------------------------------------------
FinalStates == {"Complete", "Failed", "Malformed", "Conflicted"}

(* A terminal state is left for nothing but the outcome of the Job that     *)
(* ended meanwhile: a late update never sets a request back to a state from *)
(* which it would run (setState, whose copy is checked, and handleState of  *)
(* a Started request, whose copy is read anew).                             *)
TerminalIsNeverReopened ==
    [][\A n \in Requests :
          (Stays(n) /\ requests[n].state \in FinalStates)
              => requests'[n].state \in FinalStates]_handoverVars

-----------------------------------------------------------------------------
(* Why it holds: that a request is not terminal while it is reconciled does  *)
(* not survive a late call, so what a call may write is tied to the copy it  *)
(* was computed from.  stored is the request of the call's key, given the    *)
(* approvals there are.                                                      *)

RequestCallOK(call, stored, given) ==
    /\ call.obj.rv <= stored.rv /\ call.obj.uid <= stored.rv
    /\ Current(call.obj, stored) =>
          call.obj.uid = stored.uid /\ call.obj.state = stored.state
    /\ call.pc \notin {"Delete", "SetState"} => call.obj.state \notin FinalStates
    /\ call.pc = "SetState" =>
          /\ call.to \notin Decisions \cup {""}
          /\ call.obj.state \in FinalStates => call.to \in {"Complete", "Failed"}
    /\ (call.pc = "CreateJob" \/ (call.pc = "SetState" /\ call.to = "Started"))
          => <<call.key, call.obj.uid>> \in given

DecisionCallOK(call, stored) ==
    /\ call.req.rv <= stored.rv
    /\ Current(call.req, stored) => call.req = stored
    /\ call.req.state = "Pending" /\ FourEyes(call.req.by, call.obj.by)

CallsOK ==
    /\ lateRequestCall.pc \in RequestWrites \cup {"Idle"}
    /\ lateReviewCall.pc \in ReviewWrites \cup {"Idle"}
    /\ \A call \in {reqWorker, lateRequestCall} : call.pc # "Idle" =>
          /\ call.key \in Requests
          /\ RequestCallOK(call, requests[call.key], approved)
    /\ lateReviewCall.pc # "Idle" => lateReviewCall.key \in Reviews
    /\ lateReviewCall.pc = "UpdateRequest" =>
          /\ lateReviewCall.obj.request \in Requests
          /\ DecisionCallOK(lateReviewCall, requests[lateReviewCall.obj.request])

(* What the operator's inductive invariant keeps, and the calls.            *)
HandoverInv ==
    /\ HandoverTypeOK /\ KeysOK
    /\ VersionsOK /\ CopiesOK /\ WritesOK /\ ApprovalsOK /\ JobsOK /\ LaunchesOK
    /\ CallsOK
=============================================================================
