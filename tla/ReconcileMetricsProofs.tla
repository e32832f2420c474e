----------------------- MODULE ReconcileMetricsProofs -----------------------
(***************************************************************************)
(* Theorems about ReconcileMetrics: what the counters say of a reconcile,  *)
(* whatever happens to the objects it works on.                            *)
(***************************************************************************)
EXTENDS ReconcileMetrics, JobRequestOperatorProofs, FiniteSetTheorems

-----------------------------------------------------------------------------
(* Counting is added to the operator's steps: it allows none and forbids     *)
(* none.                                                                     *)
LEMMA CountedSteps == MetricsNext => Next
<1>1. CountRequestStep => RequestWorkerNext
  BY DEF CountRequestStep, RequestWorkerNext, ReqWorkerStep, CountPruneRequest, CountLookUpTarget,
         CountCalculateState, CountCheckNoJob, CountCreateJob, CountCheckJob,
         CountRefreshRequest, CountSetRequestState
<1>2. CountReviewStep => ReviewWorkerNext
  BY DEF CountReviewStep, ReviewWorkerNext, RevWorkerStep, CountPruneReview, CountListRequest,
         CountUpdateRequest, CountSetReviewState
<1>3. \A n \in Requests : CountPickRequest(n) => PickRequest(n)
  BY DEF CountPickRequest
<1>4. \A r \in Reviews : CountPickReview(r) => PickReview(r)
  BY DEF CountPickReview
<1> QED
  BY <1>1, <1>2, <1>3, <1>4 DEF MetricsNext, Next

(* The same with steps that change nothing of the operator.                  *)
LEMMA MetricsSteps == [MetricsNext]_metricsVars => [Next]_vars
  BY CountedSteps DEF metricsVars

(* So whatever was proved of the operator holds of the operator that counts. *)
THEOREM CountingIsInvisible == MetricsSpec => Spec
<1>1. MetricsInit => Init
  BY DEF MetricsInit
<1> QED
  BY <1>1, MetricsSteps, PTL DEF MetricsSpec, Spec

-----------------------------------------------------------------------------
(* Sets of counters. *)

LEMMA AtMostOneEnd ==
    /\ Cardinality({}) <= 1
    /\ \A counters, end : counters \subseteq {end} => Cardinality(counters) <= 1
<1>1. Cardinality({}) = 0
  BY FS_EmptySet
<1>2. ASSUME NEW counters, NEW end, counters \subseteq {end}
      PROVE  Cardinality(counters) <= 1
  <2>1. counters = {} \/ counters = {end}
    BY <1>2
  <2>2. Cardinality({end}) = 1
    BY FS_Singleton
  <2> QED
    BY <1>1, <2>1, <2>2
<1> QED
  BY <1>1, <1>2

(* One end of the review reconcile is one end, whatever else is counted.     *)
LEMMA OneEndIsCounted ==
    /\ \A counters, end : counters \cap ReviewEnds = {end} => AnEndIsCounted(counters)
    /\ \A counters, more :
          (counters \cap ReviewEnds = {} /\ AnEndIsCounted(more))
              => AnEndIsCounted(counters \cup more)
<1>1. ASSUME NEW counters, NEW end, counters \cap ReviewEnds = {end}
      PROVE  AnEndIsCounted(counters)
  BY <1>1, FS_Singleton DEF AnEndIsCounted
<1>2. ASSUME NEW counters, NEW more, counters \cap ReviewEnds = {}, AnEndIsCounted(more)
      PROVE  AnEndIsCounted(counters \cup more)
  <2>1. (counters \cup more) \cap ReviewEnds = more \cap ReviewEnds
    BY <1>2
  <2> QED
    BY <1>2, <2>1 DEF AnEndIsCounted
<1> QED
  BY <1>1, <1>2

(* The counters named in the code are declared there.                        *)
LEMMA StatesAreCounters ==
    /\ {"Pending", "Started", "Complete", "Failed", "Malformed", "Conflicted"}
           \subseteq RequestCounters
    /\ JobRequestReviewStates \subseteq ReviewCounters \cup {""}
    /\ RequestEnds \subseteq RequestCounters /\ ReviewEnds \subseteq ReviewCounters
    /\ JobRequestStates \cap (RequestEnds \cup {"Requeue"}) = {}
    /\ JobRequestReviewStates \cap (ReviewEnds \cup {"Requeue"}) = {}
<1>1. {"Pending", "Started", "Complete", "Failed", "Malformed", "Conflicted"}
          \subseteq RequestCounters
  BY DEF RequestCounters
<1>2. JobRequestReviewStates \subseteq ReviewCounters \cup {""}
  BY DEF JobRequestReviewStates, ReviewCounters, Decisions
<1>3. RequestEnds \subseteq RequestCounters
  BY DEF RequestEnds, RequestCounters
<1>4. ReviewEnds \subseteq ReviewCounters
  BY DEF ReviewEnds, ReviewCounters
<1>5. JobRequestStates \cap (RequestEnds \cup {"Requeue"}) = {}
  BY DEF JobRequestStates, RequestEnds
<1>6. JobRequestReviewStates \cap (ReviewEnds \cup {"Requeue"}) = {}
  BY DEF JobRequestReviewStates, ReviewEnds, Decisions
<1> QED
  BY <1>1, <1>2, <1>3, <1>4, <1>5, <1>6

-----------------------------------------------------------------------------
(* The counters of the JobRequest controller. *)

LEMMA ReqWorkerWrites ==
    ASSUME reqWorker \in ReqWorkers
    PROVE  /\ \A to, retry : ThenSetState(to, retry) =>
                 reqWorker'.pc = "SetState" /\ reqWorker'.to = to /\ reqWorker'.retry = retry
           /\ \A pc : Continue(pc) => reqWorker'.pc = pc /\ reqWorker'.retry = reqWorker.retry
           /\ \A n, obj, pc, to : Hold(n, obj, pc, to) =>
                 reqWorker'.pc = pc /\ reqWorker'.to = to /\ reqWorker'.retry = FALSE
           /\ \A retry : Finish(retry) => reqWorker' = ReqIdle /\ reqWorker'.pc = "Idle"
<1>1. ASSUME NEW to, NEW retry, ThenSetState(to, retry)
      PROVE  reqWorker'.pc = "SetState" /\ reqWorker'.to = to /\ reqWorker'.retry = retry
  BY <1>1 DEF ThenSetState, ReqWorkers
<1>2. ASSUME NEW pc, Continue(pc)
      PROVE  reqWorker'.pc = pc /\ reqWorker'.retry = reqWorker.retry
  BY <1>2 DEF Continue, ReqWorkers
<1>3. ASSUME NEW n, NEW obj, NEW pc, NEW to, Hold(n, obj, pc, to)
      PROVE  reqWorker'.pc = pc /\ reqWorker'.to = to /\ reqWorker'.retry = FALSE
  BY <1>3 DEF Hold, ReqIdle
<1>4. ASSUME NEW retry, Finish(retry)
      PROVE  reqWorker' = ReqIdle /\ reqWorker'.pc = "Idle"
  BY <1>4 DEF Finish, ReqIdle
<1> QED
  BY <1>1, <1>2, <1>3, <1>4

(* A call that is answered has not failed; one that uses up a fault has.     *)
LEMMA FailedCalls == (ApiAnswers => ~Failed) /\ (TypeOK /\ ApiFault => Failed)
<1>1. ApiAnswers => ~Failed
  BY DEF ApiAnswers, Failed
<1>2. TypeOK /\ ApiFault => Failed
  BY DEF TypeOK, ClusterTypeOK, ApiFault, Failed
<1> QED
  BY <1>1, <1>2

(* Each call of the request controller counts at most one end.               *)
LEMMA RequestCountsStep ==
    ASSUME TypeOK, WritesOK, RequestCountsOK,
           reqCounted \subseteq RequestCounters, reqThen \subseteq RequestCounters,
           CountRequestStep \/ \E n \in Requests : CountPickRequest(n)
    PROVE  /\ reqCounted' \subseteq RequestCounters /\ reqThen' \subseteq RequestCounters
           /\ RequestCountsOK'
<1> DEFINE Good == /\ reqCounted' \subseteq RequestCounters /\ reqThen' \subseteq RequestCounters
                   /\ RequestCountsOK'
           NoneYet == reqCounted \cap RequestEnds = {} /\ "Requeue" \notin reqCounted
<1>1. /\ reqWorker \in ReqWorkers
      /\ \A retry : Finish(retry) => reqWorker'.pc = "Idle"
  BY ReqWorkerWrites DEF TypeOK, ReqWorkerTypeOK
<1>2. reqWorker.pc # "Idle" => NoneYet
  BY DEF RequestCountsOK, ReqBusy
<1>3. ASSUME NEW counters \in SUBSET RequestCounters, NEW end \in RequestCounters,
             counters \cap RequestEnds \subseteq {end},
             reqWorker'.pc = "Idle", reqCounted' = counters, reqThen' = {}
      PROVE  Good
  <2>1. Cardinality(reqCounted' \cap RequestEnds) <= 1
    BY <1>3, AtMostOneEnd
  <2> QED
    BY <1>3, <2>1 DEF RequestCountsOK, ReqBusy
<1>4. ASSUME NEW counters \in SUBSET RequestCounters, NEW end \in RequestCounters,
             counters \cap RequestEnds \subseteq {end}, NoneYet,
             reqWorker'.pc = "Idle", CountRequest(counters)
      PROVE  Good
  <2>1. /\ reqCounted \cup counters \in SUBSET RequestCounters
        /\ (reqCounted \cup counters) \cap RequestEnds \subseteq {end}
        /\ reqCounted' = reqCounted \cup counters /\ reqThen' = {}
    BY <1>4 DEF CountRequest
  <2> QED
    BY <1>3, <1>4, <2>1
<1>5. ASSUME NoneYet, reqWorker'.pc \notin {"Idle", "SetState"}, ~reqWorker'.retry,
             CountRequest({}) \/ CountRequestThen({})
      PROVE  Good
  <2>1. reqCounted' = reqCounted /\ reqThen' = {}
    BY <1>5 DEF CountRequest, CountRequestThen
  <2> QED
    BY <1>5, <2>1, AtMostOneEnd DEF RequestCountsOK
<1>6. ASSUME NEW counters \in SUBSET RequestCounters, NEW end \in RequestCounters,
             counters \cap RequestEnds \subseteq {end},
             reqCounted' \subseteq RequestCounters, reqCounted' \cap RequestEnds = {},
             "Requeue" \notin reqCounted',
             reqWorker'.pc = "SetState", reqThen' = counters,
             \/ reqWorker'.to \in counters
             \/ reqWorker'.to = "Malformed" /\ reqWorker'.obj.state = "Started",
             "Requeue" \in counters <=> reqWorker'.retry
      PROVE  Good
  <2>1. /\ Cardinality(reqThen' \cap RequestEnds) <= 1
        /\ Cardinality(reqCounted' \cap RequestEnds) <= 1
    BY <1>6, AtMostOneEnd
  <2> QED
    BY <1>6, <2>1 DEF RequestCountsOK
<1>7. ASSUME NEW n \in Requests, CountPickRequest(n)
      PROVE  Good
  <2>1. CASE Begins(reqWorker)
    <3>1. /\ ~reqWorker'.retry
          /\ reqWorker'.pc = "SetState" => reqWorker'.to = "Malformed"
      <4>1. /\ reqWorker.pc = "Idle"
            /\ StartOfReconcile(n, requests[n]) \/ UNCHANGED reqWorker
        BY <1>7 DEF CountPickRequest, PickRequest, ReconcileRequest
      <4>2. ReqIdle.pc = "Idle"
        BY DEF ReqIdle
      <4>3. \/ Hold(n, requests[n], "Delete", "")
            \/ Hold(n, requests[n], "SetState", "Malformed")
            \/ Hold(n, requests[n], "ListTarget", "")
        BY <2>1, <4>1, <4>2 DEF Begins, StartOfReconcile
      <4>4. /\ reqWorker'.retry = FALSE
            /\ \/ reqWorker'.pc = "Delete"
               \/ reqWorker'.to = "Malformed"
               \/ reqWorker'.pc = "ListTarget"
        BY <1>1, <4>3, ReqWorkerWrites, Zenon
      <4> QED
        BY <4>4
    <3>2. CASE ~Writes(reqWorker)
      <4>1. reqCounted' = {"Received"} /\ reqThen' = {}
        BY <1>7, <2>1, <3>2 DEF CountPickRequest
      <4>2. {"Received"} \cap RequestEnds = {} /\ "Received" \in RequestCounters
        BY DEF RequestEnds, RequestCounters
      <4> QED
        BY <2>1, <3>1, <3>2, <4>1, <4>2, AtMostOneEnd DEF RequestCountsOK, Begins, Writes
    <3>3. CASE Writes(reqWorker)
      <4>1. reqCounted' = {"Received"} /\ reqThen' = {"Malformed", "ErrorRequestedByAnno"}
        BY <1>7, <2>1, <3>3 DEF CountPickRequest
      <4>2. {"Received"} \cap RequestEnds = {} /\ "Received" \in RequestCounters
        BY DEF RequestEnds, RequestCounters
      <4>3. /\ {"Malformed", "ErrorRequestedByAnno"} \in SUBSET RequestCounters
            /\ {"Malformed", "ErrorRequestedByAnno"} \cap RequestEnds
                   \subseteq {"ErrorRequestedByAnno"}
        BY DEF RequestEnds, RequestCounters
      <4> QED
        BY <1>6, <3>1, <3>3, <4>1, <4>2, <4>3 DEF Writes
    <3> QED
      BY <3>2, <3>3
  <2>2. CASE ~Begins(reqWorker)
    <3>1. \/ reqCounted' = {"Received", "AlreadyInTerminalState"} /\ reqThen' = {}
          \/ reqCounted' = {"Received", "ErrorGettingRequest"} /\ reqThen' = {}
      BY <1>7, <2>2 DEF CountPickRequest
    <3>2. \A end \in {"AlreadyInTerminalState", "ErrorGettingRequest"} :
            /\ {"Received", end} \in SUBSET RequestCounters
            /\ {"Received", end} \cap RequestEnds \subseteq {end}
      BY DEF RequestEnds, RequestCounters
    <3> QED
      BY <1>3, <2>2, <3>1, <3>2 DEF Begins
  <2> QED
    BY <2>1, <2>2
<1>8. ASSUME CountPruneRequest
      PROVE  Good
  <2>1. reqWorker'.pc = "Idle" /\ NoneYet
    BY <1>1, <1>2, <1>8 DEF CountPruneRequest, PruneRequest
  <2>2. \A end \in {"ErrorDeletingByTtl", "DeletedByTtl", "ErrorAlreadyDeleted"} :
          /\ end \in RequestCounters
          /\ {end, "Requeue"} \in SUBSET RequestCounters
          /\ {end} \cap RequestEnds \subseteq {end}
          /\ {end, "Requeue"} \cap RequestEnds \subseteq {end}
    BY DEF RequestEnds, RequestCounters
  <2> QED
    BY <1>8, <2>1, <2>2, <1>4 DEF CountPruneRequest
<1>9. ASSUME CountLookUpTarget
      PROVE  Good
  <2>1. NoneYet /\ ~reqWorker.retry /\ TypeOK
    BY <1>2, <1>9 DEF CountLookUpTarget, LookUpTarget, RequestCountsOK
  <2>2. \/ Continue("ListReviews") /\ ~Failed
        \/ ThenSetState("Malformed", FALSE) /\ ~Failed
        \/ Finish(TRUE) /\ Failed
    BY <1>9, FailedCalls DEF CountLookUpTarget, LookUpTarget
  <2>3. CASE Continue("ListReviews") /\ ~Failed
    BY <1>1, <1>5, <1>9, <2>1, <2>3, ReqWorkerWrites DEF CountLookUpTarget, Writes
  <2>4. CASE ThenSetState("Malformed", FALSE) /\ ~Failed
    <3>1. \E counters \in {{"Malformed", "NoneFoundTargetResource"},
                           {"Malformed", "ErrorCreateJob"}} :
             CountRequestThen(counters)
      BY <1>1, <1>9, <2>4, ReqWorkerWrites DEF CountLookUpTarget, Writes
    <3>2. \A end \in {"NoneFoundTargetResource", "ErrorCreateJob"} :
            /\ end \in RequestCounters
            /\ {"Malformed", end} \in SUBSET RequestCounters
            /\ {"Malformed", end} \cap RequestEnds \subseteq {end}
      BY DEF RequestEnds, RequestCounters
    <3> QED
      BY <1>1, <1>6, <2>1, <2>4, <3>1, <3>2, ReqWorkerWrites DEF CountRequestThen
  <2>5. CASE Finish(TRUE) /\ Failed
    <3>1. reqWorker'.pc = "Idle" /\ CountRequest({"ErrorGettingRequest", "Requeue"})
      BY <1>1, <1>9, <2>5 DEF CountLookUpTarget, Writes
    <3>2. /\ {"ErrorGettingRequest", "Requeue"} \in SUBSET RequestCounters
          /\ {"ErrorGettingRequest", "Requeue"} \cap RequestEnds \subseteq {"ErrorGettingRequest"}
      BY DEF RequestEnds, RequestCounters
    <3> QED
      BY <1>4, <2>1, <3>1, <3>2
  <2> QED
    BY <2>2, <2>3, <2>4, <2>5
<1>10. ASSUME CountCalculateState
       PROVE  Good
  <2>1. NoneYet /\ ~reqWorker.retry
    BY <1>2, <1>10 DEF CountCalculateState, CalculateState, RequestCountsOK
  <2>2. \/ ThenSetState("Pending", FALSE) \/ Continue("GetJob") \/ Finish(FALSE)
    BY <1>10 DEF CountCalculateState, CalculateState, HandleState
  <2>3. CASE ThenSetState("Pending", FALSE)
    <3>1. CountRequestThen({"Pending"})
      BY <1>1, <1>10, <2>3, ReqWorkerWrites DEF CountCalculateState, Writes, Begins
    <3>2. {"Pending"} \in SUBSET RequestCounters /\ {"Pending"} \cap RequestEnds = {}
      BY DEF RequestEnds, RequestCounters
    <3> QED
      BY <1>1, <1>6, <2>1, <2>3, <3>1, <3>2, ReqWorkerWrites DEF CountRequestThen
  <2>4. CASE Continue("GetJob")
    BY <1>1, <1>5, <1>10, <2>1, <2>4, ReqWorkerWrites DEF CountCalculateState, Writes, Begins
  <2>5. CASE Finish(FALSE)
    <3>1. /\ reqWorker'.pc = "Idle"
          /\ \E counters \in {{"Rejected", "TimeTilReview"}, {}} : CountRequest(counters)
      BY <1>1, <1>10, <2>5 DEF CountCalculateState, Writes, Begins
    <3>2. /\ {"Rejected", "TimeTilReview"} \in SUBSET RequestCounters
          /\ {"Rejected", "TimeTilReview"} \cap RequestEnds = {}
      BY DEF RequestEnds, RequestCounters
    <3> QED
      BY <1>4, <2>1, <3>1, <3>2
  <2> QED
    BY <2>2, <2>3, <2>4, <2>5
<1>11. ASSUME CountCheckNoJob
       PROVE  Good
  <2>1. NoneYet /\ ~reqWorker.retry
    BY <1>2, <1>11 DEF CountCheckNoJob, CheckNoJob, RequestCountsOK
  <2>2. \/ Continue("CreateJob") /\ ~Failed
        \/ ThenSetState("Conflicted", FALSE) /\ ~Failed
        \/ Finish(TRUE) /\ Failed
    BY <1>11, FailedCalls DEF CountCheckNoJob, CheckNoJob
  <2>3. CASE Continue("CreateJob") /\ ~Failed
    <3>1. CountRequest({"Approved", "TimeTilReview"}) /\ reqWorker'.pc = "CreateJob"
          /\ ~reqWorker'.retry
      BY <1>1, <1>11, <2>1, <2>3, ReqWorkerWrites DEF CountCheckNoJob, Writes
    <3>2. /\ {"Approved", "TimeTilReview"} \in SUBSET RequestCounters
          /\ {"Approved", "TimeTilReview"} \cap RequestEnds = {}
          /\ "Requeue" \notin {"Approved", "TimeTilReview"}
      BY DEF RequestEnds, RequestCounters
    <3>3. /\ reqCounted' \cap RequestEnds = {} /\ reqCounted' \subseteq RequestCounters
          /\ "Requeue" \notin reqCounted' /\ reqThen' = {}
      BY <2>1, <3>1, <3>2 DEF CountRequest
    <3> QED
      BY <3>1, <3>3, AtMostOneEnd DEF RequestCountsOK
  <2>4. CASE ThenSetState("Conflicted", FALSE) /\ ~Failed
    <3>1. CountRequestThen({"Conflicted"})
      BY <1>1, <1>11, <2>4, ReqWorkerWrites DEF CountCheckNoJob, Writes
    <3>2. {"Conflicted"} \in SUBSET RequestCounters /\ {"Conflicted"} \cap RequestEnds = {}
      BY DEF RequestEnds, RequestCounters
    <3> QED
      BY <1>1, <1>6, <2>1, <2>4, <3>1, <3>2, ReqWorkerWrites DEF CountRequestThen
  <2>5. CASE Finish(TRUE) /\ Failed
    <3>1. reqWorker'.pc = "Idle" /\ CountRequest({})
      BY <1>1, <1>11, <2>5 DEF CountCheckNoJob, Writes
    <3>2. "Received" \in RequestCounters
      BY DEF RequestCounters
    <3> QED
      BY <1>4, <2>1, <3>1, <3>2
  <2> QED
    BY <2>2, <2>3, <2>4, <2>5
<1>12. ASSUME CountCreateJob
       PROVE  Good
  <2>1. NoneYet /\ ~reqWorker.retry
    BY <1>2, <1>12 DEF CountCreateJob, CreateJob, RequestCountsOK
  <2>2. \/ /\ reqWorker'.pc = "SetState" /\ reqWorker'.to = "Started"
           /\ reqWorker'.retry = reqWorker.retry
        \/ /\ reqWorker'.pc = "SetState" /\ reqWorker'.to = "Malformed" /\ reqWorker'.retry
    <3>1. CASE reqWorker' = [reqWorker EXCEPT !.pc = "SetState", !.to = "Started",
                                              !.obj.jobName = reqWorker.key]
      BY <1>1, <3>1 DEF ReqWorkers
    <3> QED
      BY <1>1, <1>12, <3>1, ReqWorkerWrites DEF CountCreateJob, CreateJob
  <2>3. \A state \in {"Started", "Malformed"} :
           /\ {state} \in SUBSET RequestCounters /\ {state} \cap RequestEnds = {}
           /\ {state, "Requeue"} \in SUBSET RequestCounters
           /\ {state, "Requeue"} \cap RequestEnds = {}
    BY DEF RequestEnds, RequestCounters
  <2>4. UNCHANGED reqCounted
    BY <1>12 DEF CountCreateJob, CountRequestThen
  <2>5. CASE reqWorker'.retry
    <3>1. reqWorker'.to = "Malformed" /\ reqThen' = {"Malformed", "Requeue"}
      BY <1>12, <2>1, <2>2, <2>5 DEF CountCreateJob, CountRequestThen
    <3> QED
      BY <1>6, <2>1, <2>2, <2>3, <2>4, <2>5, <3>1
  <2>6. CASE ~reqWorker'.retry
    <3>1. reqWorker'.to = "Started" /\ reqThen' = {"Started"}
      BY <1>12, <2>2, <2>6 DEF CountCreateJob, CountRequestThen
    <3> QED
      BY <1>6, <2>1, <2>2, <2>3, <2>4, <3>1
  <2> QED
    BY <2>5, <2>6
<1>13. ASSUME CountCheckJob
       PROVE  Good
  <2>1. NoneYet /\ ~reqWorker.retry /\ reqWorker.obj.state = "Started" /\ CountRequestThen({})
    BY <1>2, <1>13 DEF CountCheckJob, CheckJob, RequestCountsOK
  <2>2. CASE reqWorker' = [reqWorker EXCEPT !.pc = "GetAgain",
                                            !.to = Outcome(jobs[reqWorker.key].phase)]
    <3>1. reqWorker'.pc = "GetAgain" /\ reqWorker'.retry = reqWorker.retry
      BY <1>1, <2>2 DEF ReqWorkers
    <3> QED
      BY <1>5, <2>1, <3>1
  <2>3. CASE ThenSetState("Malformed", FALSE)
    <3>1. "Malformed" \in RequestCounters
      BY DEF RequestCounters
    <3>2. reqWorker'.pc = "SetState" /\ reqWorker'.to = "Malformed" /\ ~reqWorker'.retry
      BY <1>1, <2>3, ReqWorkerWrites
    <3>3. reqWorker'.obj.state = "Started"
      BY <1>1, <2>1, <2>3 DEF ThenSetState, ReqWorkers
    <3>4. reqCounted' = reqCounted /\ reqThen' = {}
      BY <2>1 DEF CountRequestThen
    <3> QED
      BY <1>6, <2>1, <3>1, <3>2, <3>3, <3>4
  <2> QED
    BY <1>13, <2>2, <2>3 DEF CountCheckJob, CheckJob
<1>14. ASSUME CountRefreshRequest
       PROVE  Good
  <2>1. NoneYet /\ ~reqWorker.retry /\ reqWorker.to \in {"", "Complete", "Failed"}
    BY <1>2, <1>14 DEF CountRefreshRequest, RefreshRequest, WritesOK, RequestCountsOK
  <2>2. CASE /\ reqWorker.to # ""
             /\ reqWorker' = [reqWorker EXCEPT !.pc = "SetState",
                                               !.obj = requests[reqWorker.key]]
    <3>1. /\ reqWorker'.pc = "SetState" /\ reqWorker'.to = reqWorker.to
          /\ reqWorker'.retry = reqWorker.retry
      BY <1>1, <2>2 DEF ReqWorkers
    <3>2. reqCounted' = reqCounted /\ reqThen' = {reqWorker.to}
      BY <1>14, <3>1 DEF CountRefreshRequest, Writes, CountRequestThen
    <3>3. \A state \in {"Complete", "Failed"} :
             {state} \in SUBSET RequestCounters /\ {state} \cap RequestEnds = {}
      BY DEF RequestEnds, RequestCounters
    <3> QED
      BY <1>6, <2>1, <2>2, <3>1, <3>2, <3>3
  <2>3. CASE Finish(FALSE)
    <3>1. reqWorker'.pc = "Idle"
          /\ (CountRequest({"ErrorGettingRequest"}) \/ CountRequest({}))
      BY <1>1, <1>14, <2>3 DEF CountRefreshRequest, Writes
    <3>2. /\ "ErrorGettingRequest" \in RequestCounters
          /\ {"ErrorGettingRequest"} \in SUBSET RequestCounters
      BY DEF RequestCounters
    <3> QED
      BY <1>4, <2>1, <3>1, <3>2
  <2> QED
    BY <1>14, <2>2, <2>3 DEF CountRefreshRequest, RefreshRequest
<1>15. ASSUME CountSetRequestState
       PROVE  Good
  <2>1. /\ reqWorker.pc = "SetState" /\ reqWorker'.pc = "Idle"
        /\ reqCounted' = reqCounted \cup reqThen /\ reqThen' = {}
    BY <1>1, <1>15, Zenon DEF CountSetRequestState, SetRequestState, CountRequest
  <2>2. NoneYet /\ Cardinality(reqThen \cap RequestEnds) <= 1
    BY <1>2, <2>1 DEF RequestCountsOK
  <2>3. reqCounted' \cap RequestEnds = reqThen \cap RequestEnds
    BY <2>1, <2>2
  <2> QED
    BY <2>1, <2>2, <2>3 DEF RequestCountsOK, ReqBusy
<1> QED
  BY <1>7, <1>8, <1>9, <1>10, <1>11, <1>12, <1>13, <1>14, <1>15 DEF CountRequestStep

-----------------------------------------------------------------------------
(* The counters of the JobRequestReview controller. *)

LEMMA RevWorkerWrites ==
    ASSUME revWorker \in RevWorkers
    PROVE  /\ \A to, retry : ThenSetReviewState(to, retry) =>
                 revWorker'.pc = "SetState" /\ revWorker'.to = to /\ revWorker'.retry = retry
           /\ \A r, obj, pc, to : HoldReview(r, obj, pc, to) =>
                 revWorker'.pc = pc /\ revWorker'.to = to
           /\ \A retry : FinishReview(retry) => revWorker'.pc = "Idle"
<1>1. ASSUME NEW to, NEW retry, ThenSetReviewState(to, retry)
      PROVE  revWorker'.pc = "SetState" /\ revWorker'.to = to /\ revWorker'.retry = retry
  BY <1>1 DEF ThenSetReviewState, RevWorkers
<1>2. ASSUME NEW r, NEW obj, NEW pc, NEW to, HoldReview(r, obj, pc, to)
      PROVE  revWorker'.pc = pc /\ revWorker'.to = to
  BY <1>2 DEF HoldReview, RevIdle
<1>3. ASSUME NEW retry, FinishReview(retry)
      PROVE  revWorker'.pc = "Idle"
  BY <1>3 DEF FinishReview, RevIdle
<1> QED
  BY <1>1, <1>2, <1>3

(* Each call of the review controller counts one end, or goes on.            *)
LEMMA ReviewCountsStep ==
    ASSUME TypeOK, ReviewCountsOK,
           revCounted \subseteq ReviewCounters, revThen \subseteq ReviewCounters,
           CountReviewStep \/ \E r \in Reviews : CountPickReview(r)
    PROVE  /\ revCounted' \subseteq ReviewCounters /\ revThen' \subseteq ReviewCounters
           /\ ReviewCountsOK'
<1> DEFINE Good == /\ revCounted' \subseteq ReviewCounters /\ revThen' \subseteq ReviewCounters
                   /\ ReviewCountsOK'
<1>1. /\ revWorker \in RevWorkers
      /\ \A retry : FinishReview(retry) => revWorker'.pc = "Idle"
  BY RevWorkerWrites DEF TypeOK, RevWorkerTypeOK
<1>2. /\ revWorker.pc # "Idle" => revCounted = {"Received"}
      /\ {"Received"} \in SUBSET ReviewCounters /\ {"Received"} \cap ReviewEnds = {}
  BY DEF ReviewCountsOK, ReviewCounters, ReviewEnds
<1>3. ASSUME NEW end \in ReviewEnds, NEW others \in SUBSET {"Received", "Requeue"},
             revWorker'.pc = "Idle", revCounted' = {end} \cup others, revThen' = {}
      PROVE  Good
  <2>1. /\ revCounted' \cap ReviewEnds = {end}
        /\ revCounted' \subseteq ReviewCounters
    BY <1>3, StatesAreCounters DEF ReviewEnds, ReviewCounters
  <2> QED
    BY <1>3, <2>1, OneEndIsCounted DEF ReviewCountsOK
<1>4. ASSUME NEW end \in ReviewEnds, NEW others \in SUBSET {"Requeue"}, revWorker.pc # "Idle",
             revWorker'.pc = "Idle", CountReview({end} \cup others)
      PROVE  Good
  <2>1. revCounted' = {end} \cup ({"Received"} \cup others) /\ revThen' = {}
    BY <1>2, <1>4 DEF CountReview
  <2>2. {"Received"} \cup others \in SUBSET {"Received", "Requeue"}
    BY <1>4
  <2> HIDE DEF Good
  <2> QED
    BY <1>3, <1>4, <2>1, <2>2
<1>5. ASSUME NEW to \in JobRequestReviewStates, to # "", NEW how \in ReviewEnds \cup {"Requeue"},
             revCounted' = {"Received"}, revThen' = {to, how},
             revWorker'.pc = "SetState", revWorker'.to = to
      PROVE  Good
  <2>1. revThen' \cap ReviewEnds = {how} \cap ReviewEnds
    BY <1>5, StatesAreCounters
  <2>2. AnEndIsCounted(revThen')
    <3>1. CASE how \in ReviewEnds
      BY <2>1, <3>1, OneEndIsCounted
    <3>2. CASE how = "Requeue"
      BY <1>5, <2>1, <3>2 DEF AnEndIsCounted, ReviewEnds
    <3> QED
      BY <1>5, <3>1, <3>2
  <2>3. revThen' \subseteq ReviewCounters
    <3>1. "Requeue" \in ReviewCounters
      BY DEF ReviewCounters
    <3> QED
      BY <1>5, <3>1, StatesAreCounters
  <2>4. revWorker'.to \in revThen'
    BY <1>5
  <2> QED
    BY <1>2, <1>5, <2>2, <2>3, <2>4 DEF ReviewCountsOK
<1>6. ASSUME NEW r \in Reviews, CountPickReview(r)
      PROVE  Good
  <2>1. CASE Begins(revWorker) /\ ~Writes(revWorker)
    <3>1. revCounted' = {"Received"} /\ revThen' = {}
      BY <1>6, <2>1 DEF CountPickReview
    <3> QED
      BY <1>2, <2>1, <3>1 DEF ReviewCountsOK, Begins, Writes
  <2>2. CASE Begins(revWorker) /\ Writes(revWorker)
    <3>1. revCounted' = {"Received"} /\ revThen' = {"JobRequestMalformed", "ErrorReviewByAnno"}
      BY <1>6, <2>2 DEF CountPickReview
    <3>2. revWorker'.pc = "SetState" /\ revWorker'.to = "JobRequestMalformed"
      <4>1. /\ revWorker.pc = "Idle"
            /\ StartOfReview(r, revCache[r]) \/ UNCHANGED revWorker
        BY <1>6 DEF CountPickReview, PickReview, ReconcileReview
      <4>2. \/ HoldReview(r, revCache[r], "Delete", "")
            \/ HoldReview(r, revCache[r], "SetState", "JobRequestMalformed")
            \/ HoldReview(r, revCache[r], "ListRequest", "")
        BY <2>2, <4>1 DEF Begins, StartOfReview
      <4>3. \/ revWorker'.pc = "Delete"
            \/ revWorker'.to = "JobRequestMalformed"
            \/ revWorker'.pc = "ListRequest"
        BY <1>1, <4>2, RevWorkerWrites, Zenon
      <4> QED
        BY <2>2, <4>3 DEF Writes
    <3>3. /\ "JobRequestMalformed" \in JobRequestReviewStates
          /\ "ErrorReviewByAnno" \in ReviewEnds
      BY DEF JobRequestReviewStates, ReviewEnds
    <3> HIDE DEF Good
    <3> QED
      BY <1>5, <3>1, <3>2, <3>3
  <2>3. CASE ~Begins(revWorker)
    <3>1. \E end \in {"AlreadyHasState", "ErrorGettingReview"} :
             revCounted' = {end} \cup {"Received"} /\ revThen' = {}
      BY <1>6, <2>3 DEF CountPickReview
    <3>2. {"AlreadyHasState", "ErrorGettingReview"} \subseteq ReviewEnds
      BY DEF ReviewEnds
    <3> HIDE DEF Good
    <3> QED
      BY <1>3, <2>3, <3>1, <3>2 DEF Begins
  <2> QED
    BY <2>1, <2>2, <2>3
<1>7. ASSUME CountPruneReview
      PROVE  Good
  <2>1. revWorker.pc # "Idle" /\ revWorker'.pc = "Idle"
    BY <1>1, <1>7 DEF CountPruneReview, PruneReview
  <2>2. \E end \in {"ErrorDeletingByTtl", "DeletedByTtl", "ErrorAlreadyDeleted"},
           others \in {{}, {"Requeue"}} : CountReview({end} \cup others)
    <3>1. /\ {"DeletedByTtl"} = {"DeletedByTtl"} \cup {}
          /\ {"ErrorDeletingByTtl", "Requeue"} = {"ErrorDeletingByTtl"} \cup {"Requeue"}
          /\ {"ErrorAlreadyDeleted", "Requeue"} = {"ErrorAlreadyDeleted"} \cup {"Requeue"}
      OBVIOUS
    <3> QED
      BY <1>7, <3>1, Zenon DEF CountPruneReview
  <2>3. {"ErrorDeletingByTtl", "DeletedByTtl", "ErrorAlreadyDeleted"} \subseteq ReviewEnds
    BY DEF ReviewEnds
  <2> HIDE DEF Good
  <2> QED
    BY <1>4, <2>1, <2>2, <2>3
<1>8. ASSUME CountListRequest
      PROVE  Good
  <2> DEFINE req == requests[revWorker.obj.request]
  <2>1. revWorker.pc # "Idle" /\ revCounted = {"Received"}
    BY <1>2, <1>8 DEF CountListRequest, ListRequest
  <2>2. \/ \E retry : FinishReview(retry)
        \/ /\ \E to \in {"JobRequestMalformed", "Conflict"} : \E retry : ThenSetReviewState(to, retry)
           /\ Exists(req) /\ ~Failed
        \/ \E retry : ThenSetReviewState("JobRequestNotFound", retry) /\ ~Exists(req) /\ ~Failed
        \/ revWorker' = [revWorker EXCEPT !.pc = "UpdateRequest", !.req = req] /\ ~Failed
    BY <1>8, FailedCalls DEF CountListRequest, ListRequest, HandleRequest, ReviewPending
  <2>3. CASE \E retry : FinishReview(retry)
    <3>1. revWorker'.pc = "Idle"
      BY <1>1, <2>3
    <3>2. \/ CountReview({"ErrorGettingRequest"})
          \/ CountReview({"Requeue", "SuccessfulReconcile"})
          \/ CountReview({"SuccessfulReconcile"})
      BY <1>8, <3>1 DEF CountListRequest, Begins, Writes
    <3>3. \E end \in {"ErrorGettingRequest", "SuccessfulReconcile"}, others \in {{}, {"Requeue"}} :
             CountReview({end} \cup others)
      <4>1. /\ {"ErrorGettingRequest"} = {"ErrorGettingRequest"} \cup {}
            /\ {"SuccessfulReconcile"} = {"SuccessfulReconcile"} \cup {}
            /\ {"Requeue", "SuccessfulReconcile"} = {"SuccessfulReconcile"} \cup {"Requeue"}
        OBVIOUS
      <4> QED
        BY <3>2, <4>1, Zenon
    <3>4. {"ErrorGettingRequest", "SuccessfulReconcile"} \subseteq ReviewEnds
      BY DEF ReviewEnds
    <3> HIDE DEF Good
    <3> QED
      BY <1>4, <2>1, <3>1, <3>3, <3>4
  <2>4. CASE /\ \E to \in {"JobRequestMalformed", "Conflict"} : \E retry : ThenSetReviewState(to, retry)
             /\ Exists(req) /\ ~Failed
    <3>1. revWorker'.pc = "SetState" /\ revWorker'.to \in {"JobRequestMalformed", "Conflict"}
      BY <1>1, <2>4, RevWorkerWrites
    <3>2. CountReviewThen({revWorker'.to, IF revWorker'.retry THEN "Requeue"
                                          ELSE "SuccessfulReconcile"})
      BY <1>8, <2>4, <3>1 DEF CountListRequest, Begins, Writes
    <3>3. /\ {"JobRequestMalformed", "Conflict"} \subseteq JobRequestReviewStates \ {""}
          /\ "SuccessfulReconcile" \in ReviewEnds
      BY DEF JobRequestReviewStates, ReviewEnds, Decisions
    <3>4. revCounted' = {"Received"}
          /\ \E how \in {"Requeue", "SuccessfulReconcile"} : revThen' = {revWorker'.to, how}
      BY <2>1, <3>2 DEF CountReviewThen
    <3> HIDE DEF Good
    <3> QED
      BY <1>5, <3>1, <3>3, <3>4
  <2>5. CASE \E retry : ThenSetReviewState("JobRequestNotFound", retry) /\ ~Exists(req) /\ ~Failed
    <3>1. revWorker'.pc = "SetState" /\ revWorker'.to = "JobRequestNotFound"
      BY <1>1, <2>5, RevWorkerWrites
    <3>2. CountReviewThen({"JobRequestNotFound", "NoRequestFound"})
      BY <1>8, <2>5, <3>1 DEF CountListRequest, Begins, Writes
    <3>3. "JobRequestNotFound" \in JobRequestReviewStates /\ "NoRequestFound" \in ReviewEnds
      BY DEF JobRequestReviewStates, ReviewEnds
    <3>4. revCounted' = {"Received"} /\ revThen' = {"JobRequestNotFound", "NoRequestFound"}
      BY <2>1, <3>2 DEF CountReviewThen
    <3> HIDE DEF Good
    <3> QED
      BY <1>5, <3>1, <3>3, <3>4
  <2>6. CASE revWorker' = [revWorker EXCEPT !.pc = "UpdateRequest", !.req = req] /\ ~Failed
    <3>1. revWorker'.pc = "UpdateRequest"
      BY <1>1, <2>6 DEF RevWorkers
    <3>2. revCounted' = {"Received"} /\ revThen' = {}
      BY <1>8, <2>1, <2>6, <3>1 DEF CountListRequest, Begins, Writes, CountReview
    <3> QED
      BY <1>2, <3>1, <3>2 DEF ReviewCountsOK
  <2> QED
    BY <2>2, <2>3, <2>4, <2>5, <2>6
<1>9. ASSUME CountUpdateRequest
      PROVE  Good
  <2>1. revCounted = {"Received"}
    BY <1>2, <1>9 DEF CountUpdateRequest, UpdateRequest
  <2>2. revWorker'.pc = "SetState" /\ revWorker'.to = revWorker.obj.decision
    BY <1>1, <1>9, RevWorkerWrites DEF CountUpdateRequest, UpdateRequest
  <2>3. /\ revWorker.obj.decision \in JobRequestReviewStates \ {""}
        /\ "SuccessfulReconcile" \in ReviewEnds
    BY <1>1 DEF RevWorkers, JobRequestReview, JobRequestReviewStates, Decisions, ReviewEnds
  <2>4. /\ revCounted' = {"Received"}
        /\ revThen' = {revWorker.obj.decision, "SuccessfulReconcile"}
    BY <1>9, <2>1 DEF CountUpdateRequest, CountReviewThen
  <2> HIDE DEF Good
  <2> QED
    BY <1>5, <2>2, <2>3, <2>4
<1>10. ASSUME CountSetReviewState
       PROVE  Good
  <2>1. /\ revWorker.pc = "SetState" /\ revWorker'.pc = "Idle"
        /\ revCounted' = revCounted \cup revThen /\ revThen' = {}
    BY <1>1, <1>10, Zenon DEF CountSetReviewState, SetReviewState, CountReview
  <2>2. AnEndIsCounted(revCounted')
    BY <1>2, <2>1, OneEndIsCounted DEF ReviewCountsOK
  <2> QED
    BY <2>1, <2>2 DEF ReviewCountsOK
<1> QED
  BY <1>6, <1>7, <1>8, <1>9, <1>10 DEF CountReviewStep

-----------------------------------------------------------------------------
(* The inductive invariant. *)

LEMMA CountsInit == MetricsInit => CountsInv
<1> SUFFICES ASSUME MetricsInit PROVE CountsInv
  OBVIOUS
<1>1. TypeOK /\ KeysOK /\ WritesOK
  BY TypeInit, SafetyInit DEF MetricsInit, SafetyInv
<1>2. /\ reqWorker.pc = "Idle" /\ revWorker.pc = "Idle"
      /\ reqCounted = {} /\ reqThen = {} /\ revCounted = {} /\ revThen = {}
  BY DEF MetricsInit, Init, ReqWorkerInit, RevWorkerInit, ReqIdle, RevIdle
<1> QED
  BY <1>1, <1>2, AtMostOneEnd
  DEF CountsInv, MetricsTypeOK, RequestCountsOK, ReviewCountsOK, ReqBusy

(* Every step keeps the invariant.                                           *)
LEMMA CountsNext == CountsInv /\ [MetricsNext]_metricsVars => CountsInv'
<1> SUFFICES ASSUME CountsInv, [MetricsNext]_metricsVars PROVE CountsInv'
  OBVIOUS
<1> USE DEF CountsInv, MetricsTypeOK
<1>1. [Next]_vars
  BY MetricsSteps
<1>2. TypeOK' /\ KeysOK'
  BY <1>1, TypeNext
<1>3. WritesOK'
  <2>1. CASE UNCHANGED vars
    BY <2>1
    DEF vars, clusterVars, store, queues, workers, WritesOK, ReqBusy, Deciding,
        FourEyes, Identified, Exists
  <2> QED
    BY <1>1, <2>1, WritesNext
<1> DEFINE RequestsCounted == /\ reqCounted' \subseteq RequestCounters
                              /\ reqThen' \subseteq RequestCounters
                              /\ RequestCountsOK'
           ReviewsCounted == /\ revCounted' \subseteq ReviewCounters
                             /\ revThen' \subseteq ReviewCounters
                             /\ ReviewCountsOK'
<1>4. ASSUME UNCHANGED reqWorker, ForgetRequest
      PROVE  RequestsCounted
  BY <1>4, AtMostOneEnd DEF ForgetRequest, RequestCountsOK, ReqBusy
<1>5. ASSUME UNCHANGED revWorker, ForgetReview
      PROVE  ReviewsCounted
  BY <1>5 DEF ForgetReview, ReviewCountsOK
<1>6. RequestsCounted /\ ReviewsCounted
  <2>1. CASE UNCHANGED metricsVars
    BY <2>1
    DEF metricsVars, requestMetrics, reviewMetrics, vars, workers, RequestCountsOK,
        ReviewCountsOK, ReqBusy
  <2>2. CASE ClusterNext /\ UNCHANGED workers /\ ForgetRequest /\ ForgetReview
    BY <1>4, <1>5, <2>2 DEF workers
  <2>3. CASE (CountRequestStep \/ \E n \in Requests : CountPickRequest(n)) /\ ForgetReview
    <3>1. UNCHANGED revWorker
      BY <2>3 DEF CountRequestStep, CountPickRequest, PickRequest
    <3>2. RequestsCounted
      BY <2>3, RequestCountsStep
    <3> QED
      BY <1>5, <2>3, <3>1, <3>2
  <2>4. CASE (CountReviewStep \/ \E r \in Reviews : CountPickReview(r)) /\ ForgetRequest
    <3>1. UNCHANGED reqWorker
      BY <2>4 DEF CountReviewStep, CountPickReview, PickReview
    <3>2. ReviewsCounted
      BY <2>4, ReviewCountsStep
    <3> QED
      BY <1>4, <2>4, <3>1, <3>2
  <2>5. CASE /\ Restart
             /\ reqCounted' = {} /\ reqThen' = {} /\ revCounted' = {} /\ revThen' = {}
    <3>1. reqWorker'.pc = "Idle" /\ revWorker'.pc = "Idle"
      BY <2>5 DEF Restart, ReqIdle, RevIdle
    <3> QED
      BY <2>5, <3>1, AtMostOneEnd DEF RequestCountsOK, ReviewCountsOK, ReqBusy
  <2> QED
    BY <2>1, <2>2, <2>3, <2>4, <2>5 DEF MetricsNext
<1> QED
  BY <1>2, <1>3, <1>6

(* What a reconcile has counted, and is about to count, at each of its calls. *)
THEOREM CountsInvariant == MetricsSpec => []CountsInv
<1> QED
  BY CountsInit, CountsNext, PTL DEF MetricsSpec

(* The counters that are incremented are the declared ones.                  *)
THEOREM MetricsTypes == MetricsSpec => []MetricsTypeOK
<1>1. CountsInv => MetricsTypeOK
  BY DEF CountsInv
<1> QED
  BY <1>1, CountsInvariant, PTL

(* However many users, faults and restarts there are, every reconcile of a   *)
(* review counts one way it ended and no two, or a requeue and none.         *)
THEOREM ReviewEndsAreCountedOnce == MetricsSpec => []ReviewReconcilesAreCountedOnce
<1>1. CountsInv => ReviewReconcilesAreCountedOnce
  BY DEF CountsInv, ReviewCountsOK, ReviewReconcilesAreCountedOnce, ReviewReconciled
<1> QED
  BY <1>1, CountsInvariant, PTL

(* No reconcile of a request counts two ways it ended.                       *)
THEOREM RequestEndsAreNotCountedTwice == MetricsSpec => []NoRequestReconcileIsCountedTwice
<1>1. CountsInv => NoRequestReconcileIsCountedTwice
  BY DEF CountsInv, RequestCountsOK, NoRequestReconcileIsCountedTwice
<1> QED
  BY <1>1, CountsInvariant, PTL

-----------------------------------------------------------------------------
(* What a step may never do to the counters. *)

(* A state a controller writes is in the counters of the reconcile that      *)
(* wrote it, and exposed, but for two: Conflicted is not exposed, and        *)
(* Malformed is not counted for a Started request whose Job is not read.     *)
THEOREM WrittenStatesAreCounted == MetricsSpec => StatesAreCounted
<1> DEFINE RequestOK(n) ==
             \/ CountedAndExposed(requests'[n].state)
             \/ requests'[n].state = "Conflicted" /\ "Conflicted" \in reqCounted'
             \/ requests'[n].state = "Malformed" /\ reqWorker.obj.state = "Started"
<1>1. ASSUME CountsInv, MetricsNext, NEW n \in Requests, SetsState(n)
      PROVE  RequestOK(n)
  <2>0. /\ reqWorker.pc = "SetState" /\ Stays(n)
        /\ requests'[n].state # requests[n].state /\ requests'[n].state \notin Decisions
    BY <1>1 DEF SetsState
  <2>1. TypeOK /\ KeysOK /\ WritesOK /\ RequestCountsOK /\ Next
    BY <1>1, CountedSteps DEF CountsInv, MetricsTypeOK
  <2>2. RequestSet(n)
    <3>1. RequestKept(n) \/ RequestEdited(n) \/ RequestDecided(n) \/ RequestSet(n)
      BY <2>0, <2>1, RequestSteps DEF RequestCreated, RequestGone, Stays, Exists
    <3>2. revWorker.obj.decision \in Decisions
      BY <2>1 DEF TypeOK, RevWorkerTypeOK, RevWorkers, JobRequestReview
    <3> QED
      BY <2>0, <3>1, <3>2 DEF RequestKept, RequestEdited, RequestDecided
  <2>3. reqCounted' = reqCounted \cup reqThen
    <3>1. reqWorker' # reqWorker
      <4>1. ReqIdle.pc = "Idle"
        BY DEF ReqIdle
      <4> QED
        BY <2>0, <2>2, <4>1 DEF RequestSet
    <3>2. UNCHANGED requests => FALSE
      BY <2>0
    <3>3. CountRequestStep
      BY <1>1, <2>0, <3>1, <3>2
      DEF MetricsNext, workers, CountPickRequest, PickRequest, ReconcileRequest,
          CountReviewStep, CountPickReview, PickReview, Restart, store
    <3>4. CountSetRequestState
      BY <2>0, <3>3
      DEF CountRequestStep, CountPruneRequest, PruneRequest, CountLookUpTarget, LookUpTarget,
          CountCalculateState, CalculateState, CountCheckNoJob, CheckNoJob, CountCreateJob,
          CreateJob, CountCheckJob, CheckJob, CountRefreshRequest, RefreshRequest
    <3> QED
      BY <3>4 DEF CountSetRequestState, CountRequest
  <2>4. /\ requests'[n].state = reqWorker.to
        /\ reqWorker.to \in JobRequestStates \ (Decisions \cup {""})
        /\ \/ reqWorker.to \in reqThen
           \/ reqWorker.to = "Malformed" /\ reqWorker.obj.state = "Started"
    BY <2>0, <2>1, <2>2
    DEF RequestSet, TypeOK, ReqWorkerTypeOK, ReqWorkers, WritesOK, RequestCountsOK
  <2>5. reqWorker.to \in RegisteredRequestCounters \cup {"Conflicted"}
    BY <2>4 DEF JobRequestStates, Decisions, RegisteredRequestCounters, RequestCounters
  <2> QED
    BY <2>3, <2>4, <2>5 DEF CountedAndExposed
<1>2. ASSUME CountsInv, MetricsNext, NEW r \in Reviews, Exists(reviews[r]),
             reviews'[r].uid = reviews[r].uid, reviews'[r].state # reviews[r].state
      PROVE  reviews'[r].state \in revCounted'
  <2>1. TypeOK /\ KeysOK /\ ReviewCountsOK /\ Next
    BY <1>2, CountedSteps DEF CountsInv, MetricsTypeOK
  <2>2. ReviewSet(r)
    BY <1>2, <2>1, ReviewSteps DEF ReviewKept, ReviewCreated, ReviewGone, ReviewEdited, Exists
  <2>3. /\ reviews'[r].state = revWorker.to /\ revWorker.pc = "SetState"
        /\ revWorker'.pc = "Idle" /\ UNCHANGED requests
    <3>1. revWorker'.pc = "Idle"
      BY <2>1, <2>2, RevWorkerWrites DEF ReviewSet, SetReviewState, TypeOK, RevWorkerTypeOK
    <3> QED
      BY <2>2, <3>1 DEF ReviewSet
  <2>4. revCounted' = revCounted \cup revThen
    <3>1. UNCHANGED <<requests, reviews>> => FALSE
      BY <1>2
    <3>2. CountReviewStep
      <4>1. revWorker' # revWorker
        BY <2>3
      <4>2. ~(ClusterNext /\ UNCHANGED workers)
        BY <4>1 DEF workers
      <4>3. ~CountRequestStep /\ ~\E n \in Requests : CountPickRequest(n)
        BY <4>1 DEF CountRequestStep, CountPickRequest, PickRequest
      <4>4. ASSUME NEW s \in Reviews, CountPickReview(s)
            PROVE  FALSE
        BY <2>3, <4>4 DEF CountPickReview, PickReview, ReconcileReview
      <4>5. ~Restart
        BY <3>1 DEF Restart, store
      <4> QED
        BY <1>2, <4>2, <4>3, <4>4, <4>5, Zenon DEF MetricsNext
    <3>3. CountSetReviewState
      BY <2>3, <3>2
      DEF CountReviewStep, CountPruneReview, PruneReview, CountListRequest, ListRequest,
          CountUpdateRequest, UpdateRequest
    <3> QED
      BY <3>3 DEF CountSetReviewState, CountReview
  <2> QED
    BY <2>1, <2>3, <2>4 DEF ReviewCountsOK
<1>3. CountsInv /\ [MetricsNext]_metricsVars =>
        [/\ \A n \in Requests : SetsState(n) => RequestOK(n)
         /\ \A r \in Reviews :
               (Exists(reviews[r]) /\ reviews'[r].uid = reviews[r].uid
                  /\ reviews'[r].state # reviews[r].state)
                   => reviews'[r].state \in revCounted']_metricsVars
  BY <1>1, <1>2
<1> QED
  BY <1>3, CountsInvariant, PTL DEF MetricsSpec, StatesAreCounted

(* Whether a reconcile counts a requeue and whether it returns an error is   *)
(* the same, however the calls in between went, but at the two places where  *)
(* the code does one without the other.                                      *)
THEOREM ErrorsAreCountedAsRequeues == MetricsSpec => RequeuesAreCounted
<1> DEFINE Told == \/ "Requeue" \in reqCounted' <=> ReturnsError
                   \/ "ErrorAlreadyDeleted" \in reqCounted' /\ ~ReturnsError
                   \/ reqWorker.pc = "GetJob" /\ ReturnsError
<1>1. ASSUME CountsInv, MetricsNext, EndsRequest
      PROVE  Told
  <2>0. reqWorker.pc # "Idle" /\ reqWorker'.pc = "Idle" /\ reqWorker' # reqWorker
    BY <1>1 DEF EndsRequest, ReqBusy
  <2>1. /\ TypeOK /\ RequestCountsOK /\ "Requeue" \notin reqCounted
        /\ reqWorker \in ReqWorkers
    BY <1>1, <2>0 DEF CountsInv, MetricsTypeOK, RequestCountsOK, ReqBusy, TypeOK, ReqWorkerTypeOK
  <2>2. ASSUME NEW counters, CountRequest(counters)
        PROVE  "Requeue" \in reqCounted' <=> "Requeue" \in counters
    BY <2>1, <2>2 DEF CountRequest
  <2>3. CountRequestStep
    BY <1>1, <2>0, <2>1
    DEF MetricsNext, workers, CountPickRequest, PickRequest, ReconcileRequest, CountReviewStep,
        CountPickReview, PickReview, Restart, EndsRequest, TypeOK, ClusterTypeOK
  <2>4. CASE CountPruneRequest
    <3>1. reqWorker.pc = "Delete" /\ (ReturnsError <=> Failed)
      BY <2>4 DEF CountPruneRequest, PruneRequest, ReturnsError
    <3>2. \/ Failed /\ CountRequest({"ErrorDeletingByTtl", "Requeue"})
          \/ ~Failed /\ CountRequest({"DeletedByTtl"})
          \/ ~Failed /\ CountRequest({"ErrorAlreadyDeleted", "Requeue"})
      BY <2>4 DEF CountPruneRequest
    <3>3. CountRequest({"ErrorAlreadyDeleted", "Requeue"}) => "ErrorAlreadyDeleted" \in reqCounted'
      BY DEF CountRequest
    <3> QED
      BY <2>2, <3>1, <3>2, <3>3
  <2>5. CASE CountLookUpTarget
    <3>1. ~Writes(reqWorker) /\ reqWorker.pc = "ListTarget"
      BY <2>0, <2>5 DEF Writes, CountLookUpTarget, LookUpTarget
    <3>2. Failed
      <4>1. ~Continue("ListReviews") /\ ~ThenSetState("Malformed", FALSE)
        BY <2>0, <2>1 DEF Continue, ThenSetState, ReqWorkers
      <4>2. ApiFault
        BY <2>5, <4>1 DEF CountLookUpTarget, LookUpTarget
      <4> QED
        BY <2>1, <4>2, FailedCalls
    <3>3. CountRequest({"ErrorGettingRequest", "Requeue"})
      BY <2>5, <3>1, <3>2 DEF CountLookUpTarget
    <3> QED
      BY <2>2, <3>1, <3>2, <3>3 DEF ReturnsError
  <2>6. CASE CountCalculateState
    <3>1. reqWorker.pc = "ListReviews" /\ ~ReturnsError
      BY <2>6 DEF CountCalculateState, CalculateState, ReturnsError
    <3>2. \E counters \in {{"Rejected", "TimeTilReview"}, {}} : CountRequest(counters)
      BY <2>0, <2>6 DEF CountCalculateState, Writes, Begins
    <3> QED
      BY <2>2, <3>1, <3>2
  <2>7. CASE CountCheckNoJob
    <3>1. ~Continue("CreateJob") /\ ~ThenSetState("Conflicted", FALSE)
      BY <2>0, <2>1 DEF Continue, ThenSetState, ReqWorkers
    <3>2. reqWorker.pc = "GetJob" /\ ApiFault
      BY <2>7, <3>1 DEF CountCheckNoJob, CheckNoJob
    <3>3. Failed
      BY <2>1, <3>2, FailedCalls
    <3> QED
      BY <3>2, <3>3 DEF ReturnsError
  <2>8. ~CountCreateJob /\ ~CountCheckJob
    <3>1. ~CountCreateJob
      <4>1. reqWorker' # [reqWorker EXCEPT !.pc = "SetState", !.to = "Started",
                                           !.obj.jobName = reqWorker.key]
        BY <2>0, <2>1 DEF ReqWorkers
      <4> QED
        BY <2>0, <2>1, <4>1, ReqWorkerWrites DEF CountCreateJob, CreateJob
    <3>2. ~CountCheckJob
      <4>1. reqWorker' # [reqWorker EXCEPT !.pc = "GetAgain",
                                           !.to = Outcome(jobs[reqWorker.key].phase)]
        BY <2>0, <2>1 DEF ReqWorkers
      <4> QED
        BY <2>0, <2>1, <4>1, ReqWorkerWrites DEF CountCheckJob, CheckJob
    <3> QED
      BY <3>1, <3>2
  <2>9. CASE CountRefreshRequest
    <3>1. reqWorker.pc = "GetAgain" /\ ~ReturnsError
      BY <2>9 DEF CountRefreshRequest, RefreshRequest, ReturnsError
    <3>2. CountRequest({"ErrorGettingRequest"}) \/ CountRequest({})
      BY <2>0, <2>9 DEF CountRefreshRequest, Writes
    <3> QED
      BY <2>2, <3>1, <3>2
  <2>10. CASE CountSetRequestState
    <3>1. reqWorker.pc = "SetState" /\ CountRequest(reqThen)
      BY <2>10 DEF CountSetRequestState, SetRequestState
    <3>2. ReturnsError <=> "Requeue" \in reqThen
      BY <2>1, <3>1 DEF ReturnsError, RequestCountsOK
    <3> QED
      BY <2>2, <3>1, <3>2
  <2> QED
    BY <2>3, <2>4, <2>5, <2>6, <2>7, <2>8, <2>9, <2>10 DEF CountRequestStep
<1>2. CountsInv /\ [MetricsNext]_metricsVars => [EndsRequest => Told]_metricsVars
  BY <1>1
<1> QED
  BY <1>2, CountsInvariant, PTL DEF MetricsSpec, RequeuesAreCounted
=============================================================================
