--------------------------- MODULE ReconcileMetrics ---------------------------
(***************************************************************************)
(* RequestCustomMetrics and ReviewCustomMetrics: the counters that the two *)
(* controllers increment on the way through a reconcile, added to          *)
(* JobRequestOperator.                                                     *)
(*                                                                         *)
(* A counter only grows, so what it says can be judged one reconcile at a  *)
(* time: the model keeps the counters that the reconcile under way has     *)
(* incremented, and forgets them at the first step after it has ended.     *)
(***************************************************************************)
EXTENDS JobRequestOperator

VARIABLES
    reqCounted,  \* what the reconcile of a request has incremented
    reqThen,     \* what it increments when setState returns
    revCounted,  \* the same for reviews
    revThen

requestMetrics == <<reqCounted, reqThen>>
reviewMetrics == <<revCounted, revThen>>
metricsVars == <<vars, requestMetrics, reviewMetrics>>

(* TimeTilReview is a histogram: an increment of it is an observation.      *)
RequestCounters ==
    {"Received", "Requeue", "SuccessfulReconcile", "ErrorGettingRequest",
     "ErrorAlreadyDeleted", "ErrorDeletingByTtl", "DeletedByTtl",
     "AlreadyInTerminalState", "ErrorRequestedByAnno", "NoneFoundTargetResource",
     "ErrorCreateJob", "Pending", "Approved", "Rejected", "Started", "Malformed",
     "Conflicted", "Complete", "Failed", "TimeTilReview"}

ReviewCounters ==
    {"Received", "Requeue", "ErrorGettingReview", "ErrorAlreadyDeleted",
     "ErrorDeletingByTtl", "DeletedByTtl", "AlreadyHasState", "ErrorReviewByAnno",
     "ErrorGettingRequest", "NoRequestFound", "JobRequestMalformed",
     "JobRequestNotFound", "Conflict", "Approved", "Rejected", "SuccessfulReconcile"}

(* Those that are registered, and so exposed.                               *)
RegisteredRequestCounters == RequestCounters \ {"Conflicted"}

MetricsTypeOK ==
    /\ TypeOK
    /\ reqCounted \subseteq RequestCounters /\ reqThen \subseteq RequestCounters
    /\ revCounted \subseteq ReviewCounters /\ revThen \subseteq ReviewCounters

MetricsInit ==
    /\ Init
    /\ reqCounted = {} /\ reqThen = {} /\ revCounted = {} /\ revThen = {}

CountRequest(counters) == reqCounted' = reqCounted \cup counters /\ reqThen' = {}
CountRequestThen(counters) == UNCHANGED reqCounted /\ reqThen' = counters
CountReview(counters) == revCounted' = revCounted \cup counters /\ revThen' = {}
CountReviewThen(counters) == UNCHANGED revCounted /\ revThen' = counters

(* A reconcile that has ended is forgotten.                                 *)
ForgetRequest ==
    /\ reqCounted' = IF reqWorker.pc = "Idle" THEN {} ELSE reqCounted
    /\ UNCHANGED reqThen
ForgetReview ==
    /\ revCounted' = IF revWorker.pc = "Idle" THEN {} ELSE revCounted
    /\ UNCHANGED revThen

-----------------------------------------------------------------------------
(* JobRequestReconciler. *)

Begins(worker) == worker'.pc # "Idle"
Writes(worker) == worker'.pc = "SetState"
Failed == faults' # faults

CountPickRequest(n) ==
    /\ PickRequest(n)
    /\ \/ /\ Begins(reqWorker) /\ ~Writes(reqWorker)
          /\ reqCounted' = {"Received"} /\ reqThen' = {}
       \/ /\ Begins(reqWorker) /\ Writes(reqWorker)
          /\ reqCounted' = {"Received"} /\ reqThen' = {"Malformed", "ErrorRequestedByAnno"}
       \/ /\ ~Begins(reqWorker) /\ Exists(requests[n]) /\ ~Failed
          /\ reqCounted' = {"Received", "AlreadyInTerminalState"} /\ reqThen' = {}
       \/ /\ ~Begins(reqWorker) /\ (~Exists(requests[n]) \/ Failed)
          /\ reqCounted' = {"Received", "ErrorGettingRequest"} /\ reqThen' = {}

SlipNotFoundIsAnError ==
    /\ PruneRequest
    /\ \/ Failed /\ CountRequest({"ErrorDeletingByTtl", "Requeue"})
       \/ ~Failed /\ CountRequest({"DeletedByTtl"} \cup
              IF Exists(requests[reqWorker.key]) THEN {} ELSE {"ErrorAlreadyDeleted"})
CountPruneRequest ==
    /\ PruneRequest
    /\ \/ Failed /\ CountRequest({"ErrorDeletingByTtl", "Requeue"})
       \/ /\ ~Failed /\ Exists(requests[reqWorker.key])
          /\ CountRequest({"DeletedByTtl"})
       \/ /\ ~Failed /\ ~Exists(requests[reqWorker.key])
          /\ CountRequest({"ErrorAlreadyDeleted", "Requeue"})

CountLookUpTarget ==
    /\ LookUpTarget
    /\ \/ Failed /\ CountRequest({"ErrorGettingRequest", "Requeue"})
       \/ ~Failed /\ ~Writes(reqWorker) /\ CountRequest({})
       \/ /\ Writes(reqWorker) /\ "NotFound" \in Targets
          /\ CountRequestThen({"Malformed", "NoneFoundTargetResource"})
       \/ /\ Writes(reqWorker) /\ "NoContainer" \in Targets
          /\ CountRequestThen({"Malformed", "ErrorCreateJob"})

(* Of a Rejected request each reconcile counts the rejection once more, and *)
(* observes the time until its review.  A reconcile that ends here has been *)
(* through handleState: SuccessfulReconcile is looked up, not incremented.  *)
CountCalculateState ==
    /\ CalculateState
    /\ \/ Writes(reqWorker) /\ CountRequestThen({"Pending"})
       \/ ~Writes(reqWorker) /\ Begins(reqWorker) /\ CountRequest({})
       \/ /\ ~Begins(reqWorker)
          /\ CountRequest(IF reqWorker.obj.state = "Rejected"
                          THEN {"Rejected", "TimeTilReview"} ELSE {})

CountCheckNoJob ==
    /\ CheckNoJob
    /\ \/ Failed /\ CountRequest({})
       \/ Writes(reqWorker) /\ CountRequestThen({"Conflicted"})
       \/ ~Failed /\ ~Writes(reqWorker) /\ CountRequest({"Approved", "TimeTilReview"})

SlipFailedCreateNotRequeued ==
    CreateJob /\ CountRequestThen(IF reqWorker'.retry THEN {"Malformed"} ELSE {"Started"})
CountCreateJob ==
    /\ CreateJob
    /\ CountRequestThen(IF reqWorker'.retry THEN {"Malformed", "Requeue"} ELSE {"Started"})

(* MalformedStateTotal is looked up, not incremented.                       *)
CountCheckJob == CheckJob /\ CountRequestThen({})

SlipOutcomeNotCounted == RefreshRequest /\ CountRequest({})
SlipOutcomeUnchecked == RefreshRequest /\ CountRequestThen({reqWorker.to})
CountRefreshRequest ==
    /\ RefreshRequest
    /\ \/ Writes(reqWorker) /\ CountRequestThen({reqWorker.to})
       \/ /\ ~Writes(reqWorker)
          /\ CountRequest(IF Failed \/ ~Exists(requests[reqWorker.key])
                          THEN {"ErrorGettingRequest"} ELSE {})

CountSetRequestState == SetRequestState /\ CountRequest(reqThen)

CountRequestStep ==
    /\ \/ CountPruneRequest \/ CountLookUpTarget \/ CountCalculateState
       \/ CountCheckNoJob \/ CountCreateJob \/ CountCheckJob
       \/ CountRefreshRequest \/ CountSetRequestState
    /\ UNCHANGED revWorker /\ Observe

-----------------------------------------------------------------------------
(* JobRequestReviewReconciler. *)

CountPickReview(r) ==
    /\ PickReview(r)
    /\ \/ /\ Begins(revWorker) /\ ~Writes(revWorker)
          /\ revCounted' = {"Received"} /\ revThen' = {}
       \/ /\ Begins(revWorker) /\ Writes(revWorker)
          /\ revCounted' = {"Received"}
          /\ revThen' = {"JobRequestMalformed", "ErrorReviewByAnno"}
       \/ /\ ~Begins(revWorker)
          /\ revCounted' = {"Received", IF Exists(revCache[r]) THEN "AlreadyHasState"
                                                                ELSE "ErrorGettingReview"}
          /\ revThen' = {}

CountPruneReview ==
    /\ PruneReview
    /\ \/ Failed /\ CountReview({"ErrorDeletingByTtl", "Requeue"})
       \/ ~Failed /\ Exists(reviews[revWorker.key]) /\ CountReview({"DeletedByTtl"})
       \/ /\ ~Failed /\ ~Exists(reviews[revWorker.key])
          /\ CountReview({"ErrorAlreadyDeleted", "Requeue"})

(* An answer that ends the reconcile is of a request with no state yet, or  *)
(* of one this review decided.                                              *)
SlipAnsweredTwice ==
    /\ ListRequest
    /\ LET req == requests[revWorker.obj.request] IN
       \/ Failed /\ CountReview({"ErrorGettingRequest"})
       \/ ~Failed /\ ~Begins(revWorker) /\ CountReview({"SuccessfulReconcile"})
       \/ ~Failed /\ revWorker'.pc = "UpdateRequest" /\ CountReview({})
       \/ /\ Writes(revWorker)
          /\ CountReviewThen({revWorker'.to, "SuccessfulReconcile"} \cup
                 IF Exists(req) THEN {} ELSE {"NoRequestFound"})
CountListRequest ==
    /\ ListRequest
    /\ LET req == requests[revWorker.obj.request] IN
       \/ Failed /\ CountReview({"ErrorGettingRequest"})
       \/ /\ ~Failed /\ ~Begins(revWorker) /\ req.state = ""
          /\ CountReview({"Requeue", "SuccessfulReconcile"})
       \/ /\ ~Failed /\ ~Begins(revWorker) /\ req.state # ""
          /\ CountReview({"SuccessfulReconcile"})
       \/ ~Failed /\ revWorker'.pc = "UpdateRequest" /\ CountReview({})
       \/ /\ Writes(revWorker) /\ ~Exists(req)
          /\ CountReviewThen({"JobRequestNotFound", "NoRequestFound"})
       \/ /\ Writes(revWorker) /\ Exists(req)
          /\ CountReviewThen({revWorker'.to, IF revWorker'.retry THEN "Requeue"
                                             ELSE "SuccessfulReconcile"})

CountUpdateRequest ==
    /\ UpdateRequest
    /\ CountReviewThen({revWorker.obj.decision, "SuccessfulReconcile"})

CountSetReviewState == SetReviewState /\ CountReview(revThen)

CountReviewStep ==
    /\ CountPruneReview \/ CountListRequest \/ CountUpdateRequest \/ CountSetReviewState
    /\ UNCHANGED reqWorker /\ Observe

-----------------------------------------------------------------------------
MetricsNext ==
    \/ ClusterNext /\ UNCHANGED workers /\ Observe /\ ForgetRequest /\ ForgetReview
    \/ (CountRequestStep \/ \E n \in Requests : CountPickRequest(n)) /\ ForgetReview
    \/ (CountReviewStep \/ \E r \in Reviews : CountPickReview(r)) /\ ForgetRequest
    \/ /\ Restart /\ Observe
       /\ reqCounted' = {} /\ reqThen' = {} /\ revCounted' = {} /\ revThen' = {}

MetricsSpec == MetricsInit /\ [][MetricsNext]_metricsVars

-----------------------------------------------------------------------------
RequestReconciled == reqWorker.pc = "Idle" /\ reqCounted # {}
ReviewReconciled == revWorker.pc = "Idle" /\ revCounted # {}

(* The counters that say how a reconcile ended.                             *)
RequestEnds ==
    {"SuccessfulReconcile", "ErrorGettingRequest", "ErrorAlreadyDeleted",
     "ErrorDeletingByTtl", "DeletedByTtl", "AlreadyInTerminalState",
     "ErrorRequestedByAnno", "NoneFoundTargetResource", "ErrorCreateJob"}
ReviewEnds ==
    {"SuccessfulReconcile", "ErrorGettingReview", "ErrorAlreadyDeleted",
     "ErrorDeletingByTtl", "DeletedByTtl", "AlreadyHasState", "ErrorReviewByAnno",
     "ErrorGettingRequest", "NoRequestFound"}

AnEndIsCounted(counters) ==
    \/ Cardinality(counters \cap ReviewEnds) = 1
    \/ counters \cap ReviewEnds = {} /\ "Requeue" \in counters

(* Every reconcile of a review counts one way it ended and no two; none     *)
(* only if it failed on the reviewer, which Requeue counts (Reconcile of    *)
(* the review controller, handleState).                                     *)
ReviewReconcilesAreCountedOnce == ReviewReconciled => AnEndIsCounted(revCounted)

(* No reconcile of a request counts two ways it ended.                      *)
NoRequestReconcileIsCountedTwice ==
    RequestReconciled => Cardinality(reqCounted \cap RequestEnds) <= 1

(* A status update of a request by its own controller, and the state it set.  *)
SetsState(n) ==
    /\ reqWorker.pc = "SetState" /\ Stays(n)
    /\ requests'[n].state # requests[n].state /\ requests'[n].state \notin Decisions

CountedAndExposed(state) == state \in reqCounted' \cap RegisteredRequestCounters

(* A state that a controller writes is counted in the same reconcile, by    *)
(* the counter of that state and one that is exposed, whatever made it      *)
(* write it (the setState of both controllers, and the list in init), but   *)
(* in two cases: Conflicted, which is counted and not exposed, and          *)
(* Malformed, which is not counted if a Started request's Job is not read.  *)
StatesAreCounted ==
    [][/\ \A n \in Requests : SetsState(n) =>
             \/ CountedAndExposed(requests'[n].state)
             \/ requests'[n].state = "Conflicted" /\ "Conflicted" \in reqCounted'
             \/ requests'[n].state = "Malformed" /\ reqWorker.obj.state = "Started"
       /\ \A r \in Reviews :
             (Exists(reviews[r]) /\ reviews'[r].uid = reviews[r].uid
                /\ reviews'[r].state # reviews[r].state)
                 => reviews'[r].state \in revCounted']_metricsVars

(* The step ends a reconcile of a request that was under way.               *)
EndsRequest == ReqBusy /\ reqWorker'.pc = "Idle" /\ UNCHANGED crashes

(* Reconcile returns an error, for which the manager queues the key again:  *)
(* a Delete, the List of the target or the Get of the Job of an Approved    *)
(* request has failed, or the Create did before the state was set.          *)
ReturnsError ==
    \/ reqWorker.pc \in {"Delete", "ListTarget", "GetJob"} /\ Failed
    \/ reqWorker.pc = "SetState" /\ reqWorker.retry

(* A reconcile of a request counts a requeue if it returns an error and not *)
(* otherwise, however many calls ago that was settled (Reconcile and        *)
(* handleState), but in two cases: a request that somebody else deleted     *)
(* first is counted as requeued and no error is returned, and the error of  *)
(* the Get of the Job is returned and no requeue counted.                   *)
RequeuesAreCounted ==
    [][EndsRequest =>
          \/ "Requeue" \in reqCounted' <=> ReturnsError
          \/ "ErrorAlreadyDeleted" \in reqCounted' /\ ~ReturnsError
          \/ reqWorker.pc = "GetJob" /\ ReturnsError]_metricsVars

-----------------------------------------------------------------------------
(* Why they hold: what has been counted, and is about to be, at each call.  *)

RequestCountsOK ==
    /\ ReqBusy => reqCounted \cap RequestEnds = {} /\ "Requeue" \notin reqCounted
    /\ Cardinality(reqCounted \cap RequestEnds) <= 1
    /\ reqWorker.pc \notin {"Idle", "SetState"} => ~reqWorker.retry
    /\ reqWorker.pc = "SetState" =>
          /\ Cardinality(reqThen \cap RequestEnds) <= 1
          /\ \/ reqWorker.to \in reqThen
             \/ reqWorker.to = "Malformed" /\ reqWorker.obj.state = "Started"
          /\ "Requeue" \in reqThen <=> reqWorker.retry

ReviewCountsOK ==
    /\ revWorker.pc = "Idle" => revCounted = {} \/ AnEndIsCounted(revCounted)
    /\ revWorker.pc # "Idle" => revCounted = {"Received"}
    /\ revWorker.pc = "SetState" => AnEndIsCounted(revThen) /\ revWorker.to \in revThen

CountsInv ==
    /\ MetricsTypeOK /\ KeysOK /\ WritesOK
    /\ RequestCountsOK /\ ReviewCountsOK
=============================================================================
