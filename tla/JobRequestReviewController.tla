--------------------- MODULE JobRequestReviewController ---------------------
(***************************************************************************)
(* JobRequestReviewReconciler: the controller that applies the decision of *)
(* a JobRequestReview to the JobRequest it names.                          *)
(*                                                                         *)
(* As in JobRequestController: one worker, one action per API call.  The   *)
(* review is read from the informer cache, the request from the API server.*)
(***************************************************************************)
EXTENDS Cluster

VARIABLE
    revWorker  \* pc: the call the worker is about to make; key: the review
               \* being reconciled; obj: the copy of it the worker holds;
               \* req: the copy of the request; to: the state setState is to
               \* write; retry: the reconcile is to end with an error

RevWorkerPcs == {"Idle", "Delete", "ListRequest", "UpdateRequest", "SetState"}

RevWorkers ==
    [pc: RevWorkerPcs, key: Reviews \cup {NoName}, obj: JobRequestReview,
     req: JobRequest, to: JobRequestReviewStates, retry: BOOLEAN]

RevWorkerTypeOK == revWorker \in RevWorkers

RevIdle ==
    [pc |-> "Idle", key |-> NoName, obj |-> NoReview(0), req |-> NoRequest(0),
     to |-> "", retry |-> FALSE]

RevWorkerInit == revWorker = RevIdle

-----------------------------------------------------------------------------
(* Steps of the worker. *)

HoldReview(r, obj, pc, state) ==
    revWorker' = [RevIdle EXCEPT !.pc = pc, !.key = r, !.obj = obj, !.to = state]

ThenSetReviewState(state, retry) ==
    revWorker' = [revWorker EXCEPT !.pc = "SetState", !.to = state, !.retry = retry]

FinishReview(retry) ==
    /\ revWorker' = RevIdle
    /\ revQueue' = revQueue \cup IF retry THEN {revWorker.key} ELSE {}

RevFrame == UNCHANGED <<jobs, clock, revCache, ops, crashes, resyncs>>

SlipAnsweredKept(r, obj) ==
    \/ Expired(obj) /\ obj.state = "" /\ HoldReview(r, obj, "Delete", "")
    \/ obj.state # "" /\ UNCHANGED revWorker
    \/ /\ ~Expired(obj) /\ obj.state = "" /\ ~Identified(obj.by)
       /\ HoldReview(r, obj, "SetState", "JobRequestMalformed")
    \/ /\ ~Expired(obj) /\ obj.state = "" /\ Identified(obj.by)
       /\ HoldReview(r, obj, "ListRequest", "")

(* What Reconcile does with the review it read, up to its next call.        *)
StartOfReview(r, obj) ==
    \/ Expired(obj) /\ HoldReview(r, obj, "Delete", "")
    \/ /\ ~Expired(obj) /\ obj.state # ""
       /\ UNCHANGED revWorker
    \/ /\ ~Expired(obj) /\ obj.state = "" /\ ~Identified(obj.by)
       /\ HoldReview(r, obj, "SetState", "JobRequestMalformed")
    \/ /\ ~Expired(obj) /\ obj.state = "" /\ Identified(obj.by)
       /\ HoldReview(r, obj, "ListRequest", "")

(* Reconcile, called for a queued key: getJobRequestReview reads the cache.  *)
ReconcileReview(r) ==
    /\ revWorker.pc = "Idle"
    /\ r \in revQueue
    /\ revQueue' = revQueue \ {r}
    /\ \/ Exists(revCache[r]) /\ StartOfReview(r, revCache[r])
       \/ ~Exists(revCache[r]) /\ UNCHANGED revWorker
    /\ UNCHANGED <<requests, reviews, reqQueue, faults>> /\ RevFrame

(* Delete of an expired review.  A failed Delete may have been carried out.  *)
PruneReview ==
    /\ revWorker.pc = "Delete"
    /\ \/ ReviewDeleted(revWorker.key) /\ ApiAnswers /\ FinishReview(FALSE)
       \/ ReviewDeleted(revWorker.key) /\ ApiFault /\ FinishReview(TRUE)
       \/ UNCHANGED reviews /\ ApiFault /\ FinishReview(TRUE)
    /\ UNCHANGED <<requests, reqQueue>> /\ RevFrame

-----------------------------------------------------------------------------
(* handleState, by the state of the request. *)

(* validateReviewerAndRequesterDiffer compares the two user names.          *)
SlipReviewsOwnRequest(requester, reviewer) == FALSE
SameUser(requester, reviewer) == requester = reviewer

(* The states of a request on which a decision is still to be taken.        *)
SlipStartedDecidable(state) == state \in {"Pending", "Started"}
Undecided(state) == state = "Pending"

(* handleReviewDecision of a Pending request, up to its first call.          *)
ReviewPending(req) ==
    \/ ~Identified(req.by) /\ ThenSetReviewState("JobRequestMalformed", TRUE)
    \/ /\ Identified(req.by) /\ SameUser(req.by, revWorker.obj.by)
       /\ ThenSetReviewState("Conflict", TRUE)
    \/ /\ Identified(req.by) /\ ~SameUser(req.by, revWorker.obj.by)
       /\ revWorker' = [revWorker EXCEPT !.pc = "UpdateRequest", !.req = req]

HandleRequest(req) ==
    \/ req.state = "" /\ FinishReview(TRUE)      \* RequeueAfter
    \/ /\ req.state = "Malformed"
       /\ ThenSetReviewState("JobRequestMalformed", FALSE) /\ UNCHANGED revQueue
    \/ /\ req.state = "Conflicted"
       /\ ThenSetReviewState("Conflict", FALSE) /\ UNCHANGED revQueue
    \/ Undecided(req.state) /\ ReviewPending(req) /\ UNCHANGED revQueue
    \/ /\ ~Undecided(req.state)
       /\ req.state \in {"Rejected", "Approved", "Started", "Complete", "Failed"}
       /\ \/ WasReviewedBy(req, revWorker.key) /\ FinishReview(FALSE)
          \/ /\ ~WasReviewedBy(req, revWorker.key)
             /\ ThenSetReviewState("Conflict", FALSE) /\ UNCHANGED revQueue

(* getJobRequest and handleState.                                            *)
ListRequest ==
    /\ revWorker.pc = "ListRequest"
    /\ LET req == requests[revWorker.obj.request] IN
       \/ Exists(req) /\ ApiAnswers /\ HandleRequest(req)
       \/ /\ ~Exists(req) /\ ApiAnswers
          /\ ThenSetReviewState("JobRequestNotFound", FALSE) /\ UNCHANGED revQueue
       \/ ApiFault /\ FinishReview(TRUE)
    /\ UNCHANGED <<requests, reviews, reqQueue>> /\ RevFrame

(* What handleReviewDecision writes into the request's status.              *)
SlipReviewNotNamed(req, review, decision) == [req EXCEPT !.state = decision]
Decided(req, review, decision) == [req EXCEPT !.state = decision, !.reviewName = review]

(* Status().Update of the request.  A failed update is only logged, and the  *)
(* review gets its decision as its state all the same.                       *)
UpdateRequest ==
    /\ revWorker.pc = "UpdateRequest"
    /\ LET n == revWorker.obj.request
           copy == Decided(revWorker.req, revWorker.key, revWorker.obj.decision) IN
       \/ /\ Current(copy, requests[n]) /\ ApiAnswers
          /\ requests' = [requests EXCEPT ![n] = RequestStatusUpdated(@, copy)]
       \/ ~Current(copy, requests[n]) /\ ApiAnswers /\ UNCHANGED requests
       \/ ApiFault /\ UNCHANGED requests
    /\ ThenSetReviewState(revWorker.obj.decision, FALSE)
    /\ UNCHANGED <<reviews, revQueue>> /\ RevFrame
    /\ QueueRequests(reqQueue)

(* setState: as in the other controller.  The change reaches the queue       *)
(* through the cache.                                                        *)
SetReviewState ==
    /\ revWorker.pc = "SetState"
    /\ LET r == revWorker.key
           copy == [revWorker.obj EXCEPT !.state = revWorker.to] IN
       \/ /\ Current(copy, reviews[r]) /\ ApiAnswers
          /\ reviews' = [reviews EXCEPT ![r] = ReviewStatusUpdated(@, copy)]
       \/ ~Current(copy, reviews[r]) /\ ApiAnswers /\ UNCHANGED reviews
       \/ ApiFault /\ UNCHANGED reviews
    /\ FinishReview(revWorker.retry)
    /\ UNCHANGED <<requests, reqQueue>> /\ RevFrame

RevWorkerStep == PruneReview \/ ListRequest \/ UpdateRequest \/ SetReviewState

JobRequestReviewControllerNext ==
    RevWorkerStep \/ \E r \in Reviews : ReconcileReview(r)
=============================================================================
