------------------------ MODULE JobRequestController ------------------------
(***************************************************************************)
(* JobRequestReconciler: the controller that takes a JobRequest from its   *)
(* creation to the end of its Job.                                         *)
(*                                                                         *)
(* The manager runs one worker for it.  A reconcile is a sequence of API   *)
(* calls; each call, with the computation that follows it, is one action,  *)
(* so users, Kubernetes and the other controller can act between any two.  *)
(* The ways a call can end, failure included, are disjuncts of its action. *)
(***************************************************************************)
EXTENDS Cluster

VARIABLE
    reqWorker  \* pc: the call the worker is about to make; key: the request
               \* being reconciled; obj: the copy of it the worker holds;
               \* to: the state setState is to write; retry: the reconcile
               \* is to end with an error, which queues the key again

ReqWorkerPcs ==
    {"Idle", "Delete", "ListTarget", "ListReviews", "GetJob", "CreateJob",
     "GetAgain", "SetState"}

ReqWorkers ==
    [pc: ReqWorkerPcs, key: Requests \cup {NoName}, obj: JobRequest,
     to: JobRequestStates, retry: BOOLEAN]

ReqWorkerTypeOK == reqWorker \in ReqWorkers

ReqIdle ==
    [pc |-> "Idle", key |-> NoName, obj |-> NoRequest(0), to |-> "", retry |-> FALSE]

ReqWorkerInit == reqWorker = ReqIdle

-----------------------------------------------------------------------------
(* The decisions of the reconciler. *)

(* endReconcileIfInTerminalState *)
SlipMalformedNotTerminal(state) == state \in {"Complete", "Failed", "Conflicted"}
SlipApprovedTerminal(state) ==
    state \in {"Approved", "Complete", "Failed", "Malformed", "Conflicted"}
InTerminalState(state) == state \in {"Complete", "Failed", "Malformed", "Conflicted"}

(* calculateState: a request nobody has reviewed is Pending, whatever its   *)
(* state was; otherwise its state is kept.                                  *)
SlipStateAlwaysKept(obj, reviewed) == obj.state
SlipDecisionReopened(obj, reviewed) ==
    IF reviewed /\ obj.state # "Rejected" THEN obj.state ELSE "Pending"
CalculatedState(obj, reviewed) == IF reviewed THEN obj.state ELSE "Pending"

(* A review naming the request exists, whatever came of it.                 *)
Reviewed(n) == \E r \in Reviews : Exists(reviews[r]) /\ reviews[r].request = n

-----------------------------------------------------------------------------
(* Steps of the worker. *)

Continue(pc) == reqWorker' = [reqWorker EXCEPT !.pc = pc]

(* The next call is setState, the last of the reconcile.                    *)
ThenSetState(state, retry) ==
    reqWorker' = [reqWorker EXCEPT !.pc = "SetState", !.to = state, !.retry = retry]

(* The reconcile ends; with an error, its key is queued again.              *)
Finish(retry) ==
    /\ reqWorker' = ReqIdle
    /\ QueueRequests(reqQueue \cup IF retry THEN {reqWorker.key} ELSE {})

NoWrite == UNCHANGED store
ReqFrame == UNCHANGED <<clock, revQueue, revCache, ops, crashes, resyncs>>

Hold(n, obj, pc, state) ==
    reqWorker' = [ReqIdle EXCEPT !.pc = pc, !.key = n, !.obj = obj, !.to = state]

SlipFinalKept(n, obj) ==
    \/ Expired(obj) /\ ~InTerminalState(obj.state) /\ Hold(n, obj, "Delete", "")
    \/ InTerminalState(obj.state) /\ reqWorker' = ReqIdle
    \/ /\ ~Expired(obj) /\ ~InTerminalState(obj.state) /\ ~Identified(obj.by)
       /\ Hold(n, obj, "SetState", "Malformed")
    \/ /\ ~Expired(obj) /\ ~InTerminalState(obj.state) /\ Identified(obj.by)
       /\ Hold(n, obj, "ListTarget", "")

(* What Reconcile does with the request it read, up to its next call.       *)
StartOfReconcile(n, obj) ==
    \/ Expired(obj) /\ Hold(n, obj, "Delete", "")
    \/ /\ ~Expired(obj) /\ InTerminalState(obj.state)
       /\ reqWorker' = ReqIdle
    \/ /\ ~Expired(obj) /\ ~InTerminalState(obj.state) /\ ~Identified(obj.by)
       /\ Hold(n, obj, "SetState", "Malformed")
    \/ /\ ~Expired(obj) /\ ~InTerminalState(obj.state) /\ Identified(obj.by)
       /\ Hold(n, obj, "ListTarget", "")

(* Reconcile, called for a queued key: getJobRequest.  When the read fails   *)
(* the request is taken for deleted, and nothing queues it again.            *)
ReconcileRequest(n) ==
    /\ reqWorker.pc = "Idle"
    /\ n \in reqQueue
    /\ reqQueue' = reqQueue \ {n}
    /\ \/ Exists(requests[n]) /\ ApiAnswers /\ StartOfReconcile(n, requests[n])
       \/ ~Exists(requests[n]) /\ ApiAnswers /\ UNCHANGED reqWorker
       \/ ApiFault /\ UNCHANGED reqWorker
    /\ NoWrite /\ ReqFrame

(* Delete of an expired request.  A failed Delete may have been carried out. *)
PruneRequest ==
    /\ reqWorker.pc = "Delete"
    /\ UNCHANGED <<reviews, jobs>> /\ ReqFrame
    /\ \/ RequestDeleted(reqWorker.key) /\ ApiAnswers /\ Finish(FALSE)
       \/ RequestDeleted(reqWorker.key) /\ ApiFault /\ Finish(TRUE)
       \/ UNCHANGED requests /\ ApiFault /\ Finish(TRUE)

(* getTargetResource and createJobTemplate: the Deployment and the container *)
(* of it that the Job is made from.                                          *)
LookUpTarget ==
    /\ reqWorker.pc = "ListTarget"
    /\ NoWrite /\ ReqFrame
    /\ \/ "Found" \in Targets /\ Continue("ListReviews") /\ ApiAnswers /\ UNCHANGED reqQueue
       \/ /\ Targets \cap {"NotFound", "NoContainer"} # {}
          /\ ThenSetState("Malformed", FALSE) /\ ApiAnswers /\ UNCHANGED reqQueue
       \/ Finish(TRUE) /\ ApiFault

(* handleState up to its first call.  Rejected and no state: nothing to do.  *)
HandleState(state) ==
    IF state = "Pending" THEN ThenSetState("Pending", FALSE) /\ UNCHANGED reqQueue
    ELSE IF state \in {"Approved", "Started"} THEN Continue("GetJob") /\ UNCHANGED reqQueue
    ELSE Finish(FALSE)

(* calculateState, whose failed List makes the request Pending.              *)
CalculateState ==
    /\ reqWorker.pc = "ListReviews"
    /\ NoWrite /\ ReqFrame
    /\ \/ /\ HandleState(CalculatedState(reqWorker.obj, Reviewed(reqWorker.key)))
          /\ ApiAnswers
       \/ HandleState("Pending") /\ ApiFault

(* A Job has the name that createJobTemplate gives to the Job of n: n itself.*)
SlipGeneratedName(n) == FALSE
JobNameTaken(n) == JobExists(n)

(* handleState of an Approved request: a Job must not be there yet.          *)
CheckNoJob ==
    /\ reqWorker.pc = "GetJob" /\ reqWorker.obj.state = "Approved"
    /\ NoWrite /\ ReqFrame
    /\ \/ /\ ~JobNameTaken(reqWorker.key)
          /\ Continue("CreateJob") /\ ApiAnswers /\ UNCHANGED reqQueue
       \/ /\ JobNameTaken(reqWorker.key)
          /\ ThenSetState("Conflicted", FALSE) /\ ApiAnswers /\ UNCHANGED reqQueue
       \/ Finish(TRUE) /\ ApiFault

StoreJob(n, owner) ==
    /\ ~JobNameTaken(n)
    /\ jobs' = [jobs EXCEPT ![n] = [owner |-> owner, phase |-> "Running"]]

(* Create of the Job.  It fails when a Job took the name, and may fail with  *)
(* the Job created or not; the request is then Malformed.                    *)
CreateJob ==
    /\ reqWorker.pc = "CreateJob"
    /\ UNCHANGED <<requests, reviews>> /\ ReqFrame
    /\ \/ /\ StoreJob(reqWorker.key, reqWorker.obj.uid) /\ ApiAnswers
          /\ reqWorker' = [reqWorker EXCEPT !.pc = "SetState", !.to = "Started",
                                            !.obj.jobName = reqWorker.key]
       \/ /\ JobNameTaken(reqWorker.key) /\ UNCHANGED jobs /\ ApiAnswers
          /\ ThenSetState("Malformed", TRUE)
       \/ /\ StoreJob(reqWorker.key, reqWorker.obj.uid) \/ UNCHANGED jobs
          /\ ApiFault
          /\ ThenSetState("Malformed", TRUE)
    /\ QueueRequests(reqQueue)

(* The state that handleState writes for the Job's conditions, if any.       *)
SlipPhaseAsState(phase) == phase
Outcome(phase) == IF phase \in {"Complete", "Failed"} THEN phase ELSE ""

(* handleState of a Started request: no Job, or no answer, is Malformed.     *)
CheckJob ==
    /\ reqWorker.pc = "GetJob" /\ reqWorker.obj.state = "Started"
    /\ \/ /\ JobExists(reqWorker.key) /\ ApiAnswers
          /\ reqWorker' = [reqWorker EXCEPT !.pc = "GetAgain",
                                            !.to = Outcome(jobs[reqWorker.key].phase)]
       \/ ~JobExists(reqWorker.key) /\ ApiAnswers /\ ThenSetState("Malformed", FALSE)
       \/ ApiFault /\ ThenSetState("Malformed", FALSE)
    /\ UNCHANGED reqQueue /\ NoWrite /\ ReqFrame

(* ... then the request is read again, and gets the outcome of its Job.      *)
RefreshRequest ==
    /\ reqWorker.pc = "GetAgain"
    /\ NoWrite /\ ReqFrame
    /\ \/ /\ Exists(requests[reqWorker.key]) /\ reqWorker.to # "" /\ ApiAnswers
          /\ reqWorker' = [reqWorker EXCEPT !.pc = "SetState",
                                            !.obj = requests[reqWorker.key]]
          /\ UNCHANGED reqQueue
       \/ /\ ~Exists(requests[reqWorker.key]) \/ reqWorker.to = ""
          /\ ApiAnswers /\ Finish(FALSE)
       \/ ApiFault /\ Finish(FALSE)

(* setState: the status of the held copy, with the new state, is written if  *)
(* the copy is of the stored version.  A failed update is only logged.       *)
SetRequestState ==
    /\ reqWorker.pc = "SetState"
    /\ UNCHANGED <<reviews, jobs>> /\ ReqFrame
    /\ LET n == reqWorker.key
           copy == [reqWorker.obj EXCEPT !.state = reqWorker.to] IN
       \/ /\ Current(copy, requests[n]) /\ ApiAnswers
          /\ requests' = [requests EXCEPT ![n] = RequestStatusUpdated(@, copy)]
       \/ ~Current(copy, requests[n]) /\ ApiAnswers /\ UNCHANGED requests
       \/ ApiFault /\ UNCHANGED requests
    /\ Finish(reqWorker.retry)

ReqWorkerStep ==
    \/ PruneRequest \/ LookUpTarget \/ CalculateState \/ CheckNoJob
    \/ CreateJob \/ CheckJob \/ RefreshRequest \/ SetRequestState

JobRequestControllerNext ==
    ReqWorkerStep \/ \E n \in Requests : ReconcileRequest(n)
=============================================================================
