---------------------------- MODULE DecisionProofs ----------------------------
(***************************************************************************)
(* Theorems about the decisions and the conflicts of JobRequestOperator,   *)
(* under conditions of Undisturbed.                                        *)
(***************************************************************************)
EXTENDS UndisturbedProofs

-----------------------------------------------------------------------------
(* What the status updates do. *)

LEMMA WrittenStatus ==
    ASSUME NEW stored \in JobRequest, NEW copy \in JobRequest
    PROVE  /\ RequestStatusUpdated(stored, copy).state = copy.state
           /\ RequestStatusUpdated(stored, copy).reviewName = copy.reviewName
<1> DEFINE written == [stored EXCEPT !.state = copy.state, !.reviewName = copy.reviewName,
                                     !.jobName = copy.jobName]
<1>1. /\ written \in JobRequest
      /\ written.state = copy.state /\ written.reviewName = copy.reviewName
  BY DEF JobRequest
<1>2. RequestStatusUpdated(stored, copy) = Written(stored, written)
  BY DEF RequestStatusUpdated
<1> HIDE DEF written
<1> QED
  BY <1>1, <1>2 DEF Written, JobRequest

(* A status that is written as it is makes no new version.                   *)
LEMMA SameStatus ==
    ASSUME NEW stored \in JobRequest, NEW copy \in JobRequest,
           copy.state = stored.state, copy.reviewName = stored.reviewName,
           copy.jobName = stored.jobName
    PROVE  RequestStatusUpdated(stored, copy) = stored
<1> DEFINE written == [stored EXCEPT !.state = copy.state, !.reviewName = copy.reviewName,
                                     !.jobName = copy.jobName]
<1>1. written = stored
  BY DEF JobRequest
<1>2. RequestStatusUpdated(stored, copy) = Written(stored, written)
  BY DEF RequestStatusUpdated
<1> HIDE DEF written
<1> QED
  BY <1>1, <1>2 DEF Written

(* A step that sets the state of a request changes it.                       *)
LEMMA SetWritesNews ==
    ASSUME KeptInv, Next, NEW n \in Requests, RequestSet(n), reqWorker.to # "Started"
    PROVE  reqWorker.obj = requests[n] /\ reqWorker.to # requests[n].state
<1>1. /\ reqWorker.pc = "SetState" /\ n = reqWorker.key /\ Current(reqWorker.obj, requests[n])
      /\ requests'[n].rv = requests[n].rv + 1 /\ SetRequestState
  BY DEF RequestSet
<1>2. reqWorker.obj = requests[n]
  BY <1>1, KeptParts DEF HeldCopyOK, ReqBusy
<1>3. ASSUME reqWorker.to = requests[n].state
      PROVE  FALSE
  <2> DEFINE copy == [reqWorker.obj EXCEPT !.state = reqWorker.to]
  <2>1. requests \in [Requests -> JobRequest]
    BY KeptParts DEF TypeOK, ClusterTypeOK
  <2>2. /\ copy \in JobRequest /\ copy.state = requests[n].state
        /\ copy.reviewName = requests[n].reviewName /\ copy.jobName = requests[n].jobName
    BY <1>2, <1>3, <2>1 DEF JobRequest
  <2>3. \/ requests' = [requests EXCEPT ![n] = RequestStatusUpdated(requests[n], copy)]
        \/ requests' = requests
    BY <1>1, Zenon DEF SetRequestState
  <2> HIDE DEF copy
  <2>4. RequestStatusUpdated(requests[n], copy) = requests[n]
    BY <2>1, <2>2, SameStatus
  <2>5. requests'[n] = requests[n] /\ requests[n].rv \in Nat
    BY <2>1, <2>3, <2>4 DEF JobRequest
  <2> QED
    BY <1>1, <2>5
<1> QED
  BY <1>2, <1>3

(* A decision that is written from the stored version names its review.     *)
LEMMA DecisionIsWritten ==
    ASSUME KeptInv, Next, faults' = faults, UpdateRequest,
           Current(revWorker.req, requests[revWorker.obj.request])
    PROVE  requests'[revWorker.obj.request].reviewName = revWorker.key
<1> DEFINE n == revWorker.obj.request
           copy == Decided(revWorker.req, revWorker.key, revWorker.obj.decision)
<1>1. requests \in [Requests -> JobRequest] /\ n \in Requests
  BY KeptParts DEF TypeOK, ClusterTypeOK, KeysOK, UpdateRequest
<1>2. copy \in JobRequest /\ copy.rv = revWorker.req.rv /\ copy.reviewName = revWorker.key
  <2>1. /\ revWorker.req \in JobRequest /\ revWorker.obj.decision \in JobRequestStates
        /\ revWorker.key \in Reviews
    BY KeptParts
    DEF TypeOK, RevWorkerTypeOK, RevWorkers, KeysOK, UpdateRequest, JobRequestReview,
        Decisions, JobRequestStates
  <2> QED
    BY <2>1 DEF Decided, JobRequest
<1>3. \/ requests' = [requests EXCEPT ![n] = RequestStatusUpdated(requests[n], copy)]
      \/ ~Current(copy, requests[n]) \/ ApiFault
  BY Zenon DEF UpdateRequest
<1>4. Current(copy, requests[n])
  BY <1>2 DEF Current
<1>5. ~ApiFault
  BY KeptParts DEF ApiFault, TypeOK, ClusterTypeOK
<1> HIDE DEF copy
<1> QED
  BY <1>1, <1>2, <1>3, <1>4, <1>5, WrittenStatus

-----------------------------------------------------------------------------
(* Nobody else edits requests, and every target is found. *)

(* What RecordsInv adds to KeptInv.                                          *)
LEMMA RecordParts ==
    ASSUME RecordsInv
    PROVE  KeptInv /\ DecidingIsCurrent /\ DecisionsName /\ RefusalsOK /\ AnswersOK
  BY DEF RecordsInv

(* Without edits a request changes by the operator alone.                    *)
LEMMA NoEdits == ASSUME NobodyEdits, NEW n \in Requests PROVE ~RequestEdited(n)
  BY DEF RequestEdited, NobodyEdits, Allowed

(* A Pending request with a known requester is not written by the worker     *)
(* that reconciles it.                                                       *)
LEMMA PendingIsLeftAlone ==
    ASSUME RecordsInv, Next, NEW n \in Requests,
           requests[n].state = "Pending", Identified(requests[n].by)
    PROVE  ~RequestSet(n)
<1> SUFFICES ASSUME RequestSet(n) PROVE FALSE
  OBVIOUS
<1>1. reqWorker.pc = "SetState" /\ n = reqWorker.key /\ ReqBusy
  BY DEF RequestSet, ReqBusy
<1>2. reqWorker.obj.state \in {"", "Pending"}
  BY <1>1, RecordParts, KeptParts DEF HeldStateOK
<1>3. reqWorker.to = "Malformed" \/ reqWorker.to = "Pending"
  <2>1. reqWorker.to \in JobRequestStates \ (Decisions \cup {""})
    BY <1>1, RecordParts, KeptParts DEF TypeOK, ReqWorkerTypeOK, ReqWorkers, WritesOK
  <2>2. reqWorker.to \notin {"Started", "Conflicted", "Complete", "Failed"}
    BY <1>1, <1>2, RecordParts, KeptParts DEF PlansOK, HeldStateOK
  <2> QED
    BY <2>1, <2>2 DEF JobRequestStates, Decisions
<1>4. reqWorker.to # "Pending"
  BY RecordParts, SetWritesNews
<1>5. reqWorker.to # "Malformed"
  BY <1>1, <1>2, RecordParts, KeptParts DEF RefusalsOK, HeldIsThere
<1> QED
  BY <1>3, <1>4, <1>5

(* The review a request names it names from then on.                         *)
LEMMA NamedReviewStays ==
    ASSUME CallsSucceed, NobodyEdits, RecordsInv, Next,
           NEW n \in Requests, requests[n].reviewName # NoName
    PROVE  requests'[n].reviewName = requests[n].reviewName
<1>1. requests[n].state \notin {"", "Pending"} /\ Exists(requests[n])
  BY RecordParts, KeptParts DEF DecisionsName, StoredStatesOK
<1>2. ~RequestDecided(n) /\ ~RequestEdited(n)
  BY <1>1, RecordParts, DecidedFromPending, NoEdits
<1>3. CASE RequestSet(n)
  <2>1. reqWorker.obj.reviewName = requests[n].reviewName
    <3>1. reqWorker.obj = requests[n]
             \/ reqWorker.obj = [requests[n] EXCEPT !.jobName = reqWorker.key]
      BY <1>3, RecordParts, KeptParts DEF HeldCopyOK, RequestSet, ReqBusy
    <3>2. requests[n] \in JobRequest
      BY RecordParts, KeptParts DEF TypeOK, ClusterTypeOK
    <3> QED
      BY <3>1, <3>2 DEF JobRequest
  <2> QED
    BY <1>3, <2>1 DEF RequestSet, ReviewNamed
<1> QED
  BY <1>1, <1>2, <1>3, RecordParts, RequestsStay DEF RequestKept

(* Until it is written, the decision is about the stored version.            *)
LEMMA DecidingIsCurrentNext ==
    ASSUME CallsSucceed, NobodyEdits, RecordsInv, Next
    PROVE  DecidingIsCurrent'
<1> SUFFICES ASSUME revWorker'.pc = "UpdateRequest"
             PROVE  Current(revWorker'.req, requests'[revWorker'.obj.request])
  BY DEF DecidingIsCurrent, Deciding, Current, Exists
<1> DEFINE n == revWorker.obj.request
<1>1. CASE UNCHANGED revWorker
  <2>1. /\ Deciding /\ n \in Requests /\ Current(revWorker.req, requests[n])
        /\ requests[n] = revWorker.req
    BY <1>1, RecordParts, KeptParts DEF Deciding, DecidingIsCurrent, KeysOK, CopiesOK
  <2>2. requests[n].state = "Pending" /\ Identified(requests[n].by)
    BY <2>1, RecordParts, KeptParts DEF WritesOK, FourEyes
  <2>3. ~RequestSet(n) /\ ~RequestEdited(n)
    BY <2>1, <2>2, PendingIsLeftAlone, NoEdits
  <2>4. ~RequestDecided(n)
    <3>1. ASSUME UpdateRequest
          PROVE  revWorker'.pc = "SetState"
      <4>1. ThenSetReviewState(revWorker.obj.decision, FALSE)
        BY <3>1, Zenon DEF UpdateRequest
      <4>2. revWorker \in RevWorkers
        BY RecordParts, KeptParts DEF TypeOK, RevWorkerTypeOK
      <4> QED
        BY <4>1, <4>2 DEF ThenSetReviewState, RevWorkers
    <3> QED
      BY <3>1 DEF RequestDecided
  <2>5. Exists(requests[n])
    BY <2>1 DEF Current
  <2>6. requests'[n] = requests[n]
    BY <2>1, <2>3, <2>4, <2>5, RecordParts, RequestsStay DEF RequestKept
  <2> QED
    BY <1>1, <2>1, <2>6
<1>2. CASE RevWorkerDecides
  <2>1. revWorker.obj.request \in Requests
    BY <1>2, RecordParts, KeptParts DEF RevWorkerDecides, KeysOK
  <2>2. requests[n].state # "" => Exists(requests[n])
    BY <2>1, RecordParts, KeptParts DEF StoredStatesOK
  <2> QED
    BY <1>2, <2>1, <2>2 DEF RevWorkerDecides, Current
<1> QED
  BY <1>1, <1>2, RecordParts, KeptParts, RevWorkerChanges

(* A request gets the name of its review with its decision.                  *)
LEMMA DecisionsNameNext ==
    ASSUME CallsSucceed, NobodyEdits, RecordsInv, Next
    PROVE  DecisionsName'
<1> SUFFICES ASSUME NEW n \in Requests, requests'[n].reviewName # NoName
             PROVE  requests'[n].state \notin {"", "Pending"}
  BY DEF DecisionsName
<1>1. CASE RequestKept(n)
  BY <1>1, RecordParts DEF RequestKept, DecisionsName
<1>2. ~RequestCreated(n) /\ ~RequestEdited(n)
  BY NoEdits DEF RequestCreated, ReviewNamed
<1>3. ~RequestGone(n)
  BY RecordParts, RequestsStay DEF RequestGone, Exists
<1>4. CASE RequestDecided(n)
  BY <1>4, RecordParts, DecidedFromPending DEF RequestDecided, Decisions
<1>5. CASE RequestSet(n)
  <2>1. reqWorker.pc = "SetState" /\ requests'[n].state = reqWorker.to
    BY <1>5 DEF RequestSet
  <2>2. reqWorker.to # ""
    BY <2>1, RecordParts, KeptParts DEF WritesOK
  <2>3. ASSUME reqWorker.to = "Pending"
        PROVE  FALSE
    <3>1. reqWorker.obj = requests[n] /\ requests'[n].reviewName = reqWorker.obj.reviewName
      BY <1>5, <2>3, RecordParts, SetWritesNews DEF RequestSet, ReviewNamed
    <3>2. reqWorker.obj.state \in {"", "Pending"}
      BY <2>1, <2>3, RecordParts, KeptParts DEF HeldStateOK
    <3> QED
      BY <3>1, <3>2, RecordParts DEF DecisionsName
  <2> QED
    BY <2>1, <2>2, <2>3
<1> QED
  BY <1>1, <1>2, <1>3, <1>4, <1>5, RecordParts, KeptParts, RequestSteps

(* Only a decided request, or one of a requester who is not identified, is   *)
(* refused.                                                                  *)
LEMMA RefusalsNext ==
    ASSUME TargetsAreThere, RecordsInv, Next
    PROVE  RefusalsOK'
<1> SUFFICES ASSUME reqWorker'.pc = "SetState", reqWorker'.to = "Malformed"
             PROVE  \/ reqWorker'.obj.state \in {"Approved", "Started"}
                    \/ ~Identified(reqWorker'.obj.by)
  BY DEF RefusalsOK, Identified
<1>1. CASE UNCHANGED reqWorker
  BY <1>1, RecordParts DEF RefusalsOK
<1>2. CASE reqWorker' = ReqIdle
  BY <1>2 DEF ReqIdle
<1>3. CASE WorkerMoves
  <2>1. reqWorker.pc \in {"GetJob", "CreateJob"}
    BY <1>3 DEF WorkerMoves, MovedFor, TargetsAreThere
  <2>2. reqWorker.obj.state \in {"Approved", "Started"}
    BY <2>1, RecordParts, KeptParts DEF PlansOK, WritesOK
  <2> QED
    BY <1>3, <2>2 DEF WorkerMoves
<1>4. CASE WorkerRefreshes
  BY <1>4, RecordParts, KeptParts DEF WorkerRefreshes, WritesOK
<1>5. CASE \E m \in Requests : WorkerPicks(m)
  BY <1>5 DEF WorkerPicks, PickedFor
<1> QED
  BY <1>1, <1>2, <1>3, <1>4, <1>5, RecordParts, KeptParts, ReqWorkerChanges

(* A review gets its decision as its state after the request has named it.   *)
LEMMA AnswersNext ==
    ASSUME CallsSucceed, NobodyEdits, RecordsInv, Next, faults' = faults
    PROVE  AnswersOK'
<1>0. NoName \notin Reviews
  BY NamesAssumption
<1>1. ASSUME revWorker'.pc = "SetState", revWorker'.to \in Decisions
      PROVE  requests'[revWorker'.obj.request].reviewName = revWorker'.key
  <2>1. CASE UNCHANGED revWorker
    <3>1. /\ revWorker.key \in Reviews
          /\ requests[revWorker.obj.request].reviewName = revWorker.key
      BY <1>1, <2>1, RecordParts, KeptParts DEF AnswersOK, KeysOK
    <3>2. revWorker.obj.request \in Requests
      BY <1>1, <2>1, <3>1, RecordParts, KeptParts
      DEF ReviewsAreThere, ReviewCopiesOK, SameReview, KeysOK, Exists
    <3> QED
      BY <1>0, <2>1, <3>1, <3>2, NamedReviewStays
  <2>2. CASE revWorker' = RevIdle
    BY <1>1, <2>2 DEF RevIdle
  <2>3. CASE ReviewConsidered
    BY <1>1, <2>3 DEF ReviewConsidered
  <2>4. CASE ReviewApplied
    <3>1. UpdateRequest /\ Deciding
      BY <2>4 DEF ReviewApplied, UpdateRequest, Deciding
    <3>2. Current(revWorker.req, requests[revWorker.obj.request])
      BY <3>1, RecordParts DEF DecidingIsCurrent
    <3> QED
      BY <2>4, <3>1, <3>2, RecordParts, DecisionIsWritten DEF ReviewApplied
  <2>5. CASE \E r \in Reviews : ReviewPicked(r)
    BY <1>1, <2>5 DEF ReviewPicked
  <2> QED
    BY <2>1, <2>2, <2>3, <2>4, <2>5, RecordParts, KeptParts, ReviewWorkerSteps
<1>2. ASSUME NEW r \in Reviews, reviews'[r].state \in Decisions
      PROVE  requests'[reviews'[r].request].reviewName = r
  <2>1. CASE ReviewKept(r) \/ ReviewEdited(r)
    <3>1. reviews'[r].request = reviews[r].request /\ reviews[r].state \in Decisions
      BY <1>2, <2>1 DEF ReviewKept, ReviewEdited
    <3>2. requests[reviews[r].request].reviewName = r
      BY <3>1, RecordParts DEF AnswersOK
    <3>3. reviews[r].request \in Requests
      BY <3>1, RecordParts, KeptParts DEF StoredStatesOK, KeysOK, Decisions
    <3> QED
      BY <1>0, <3>1, <3>2, <3>3, NamedReviewStays
  <2>2. CASE ReviewSet(r)
    <3>1. /\ revWorker.pc = "SetState" /\ r = revWorker.key /\ revWorker.to \in Decisions
          /\ UNCHANGED requests /\ reviews'[r].request = reviews[r].request
      BY <1>2, <2>2 DEF ReviewSet
    <3>2. reviews[r].request = revWorker.obj.request
      BY <3>1, RecordParts, KeptParts DEF ReviewsAreThere, ReviewCopiesOK, SameReview
    <3> QED
      BY <3>1, <3>2, RecordParts DEF AnswersOK
  <2>3. ~ReviewCreated(r) /\ ~ReviewGone(r)
    BY <1>2 DEF ReviewCreated, ReviewGone, Decisions
  <2> QED
    BY <2>1, <2>2, <2>3, RecordParts, KeptParts, ReviewSteps
<1> QED
  BY <1>1, <1>2 DEF AnswersOK

(* The four parts hold of an empty cluster.                                  *)
LEMMA RecordsInvInit == Init => RecordsInv
<1> SUFFICES ASSUME Init PROVE RecordsInv
  OBVIOUS
<1>1. reqWorker.pc = "Idle" /\ revWorker.pc = "Idle"
  BY DEF Init, ReqWorkerInit, RevWorkerInit, ReqIdle, RevIdle
<1>2. /\ \A n \in Requests : requests[n].reviewName = NoName
      /\ \A r \in Reviews : reviews[r].state \notin Decisions
  BY DEF Init, ClusterInit, NoRequest, NoReview, Decisions
<1> QED
  BY <1>1, <1>2, KeptInvInit
  DEF RecordsInv, DecidingIsCurrent, Deciding, DecisionsName, RefusalsOK, AnswersOK

(* Nothing comes between the read of a Pending request and the write of its  *)
(* decision, and what a review says it decided its request says too.         *)
THEOREM RecordsInvariant ==
    ASSUME CallsSucceed, NobodyEdits, TargetsAreThere
    PROVE  Spec => []RecordsInv
<1>1. Init => RecordsInv
  BY RecordsInvInit
<1>2. RecordsInv /\ [Next]_vars => RecordsInv'
  <2> SUFFICES ASSUME RecordsInv, [Next]_vars PROVE RecordsInv'
    OBVIOUS
  <2>1. CASE Next
    <3>1. KeptInv' /\ faults' = faults
      BY <2>1, RecordParts, KeptInvNext
    <3>2. DecidingIsCurrent' /\ DecisionsName' /\ RefusalsOK' /\ AnswersOK'
      BY <2>1, <3>1, DecidingIsCurrentNext, DecisionsNameNext, RefusalsNext, AnswersNext
    <3> QED
      BY <3>1, <3>2 DEF RecordsInv
  <2>2. CASE UNCHANGED vars
    <3>1. UNCHANGED <<requests, reviews, reqWorker, revWorker>>
      BY <2>2 DEF vars, clusterVars, store, workers
    <3> QED
      BY <2>2, <3>1, RecordParts, KeptInvStays
      DEF RecordsInv, DecidingIsCurrent, Deciding, Current, Exists, DecisionsName, RefusalsOK,
          AnswersOK
  <2> QED
    BY <2>1, <2>2
<1> QED
  BY <1>1, <1>2, PTL DEF Spec

(* A review whose state is a decision is the one its request names           *)
(* (handleReviewDecision), so no two reviews of a request both say they      *)
(* decided it.                                                               *)
THEOREM DecisionsAreRecorded ==
    ASSUME CallsSucceed, NobodyEdits, TargetsAreThere
    PROVE  Spec => []DecisionIsRecorded
<1>1. RecordsInv => DecisionIsRecorded
  BY DEF RecordsInv, AnswersOK, DecisionIsRecorded
<1> QED
  BY <1>1, RecordsInvariant, PTL

-----------------------------------------------------------------------------
(* Nobody else edits requests, and the manager is not restarted. *)

LEMMA ConflictParts ==
    ASSUME ConflictsInv
    PROVE  KeptInv /\ HeldIsCurrent /\ StartsAreWritten
  BY DEF ConflictsInv

(* The copy of a decided request stays that of the stored version.           *)
LEMMA HeldIsCurrentNext ==
    ASSUME CallsSucceed, NobodyEdits, ConflictsInv, Next
    PROVE  HeldIsCurrent'
<1> SUFFICES ASSUME ReqBusy', reqWorker'.obj.state \notin {"", "Pending"}
             PROVE  Current(reqWorker'.obj, requests'[reqWorker'.key])
  BY DEF HeldIsCurrent, Current, Exists
<1> DEFINE n == reqWorker.key
<1>0. ReqIdle.pc = "Idle"
  BY DEF ReqIdle
<1>1. CASE UNCHANGED reqWorker
  <2>1. /\ n \in Requests /\ Exists(requests[n]) /\ requests[n].state = reqWorker.obj.state
        /\ Current(reqWorker.obj, requests[n])
    BY <1>1, ConflictParts, KeptParts
    DEF ReqBusy, KeysOK, HeldIsThere, HeldStateOK, HeldIsCurrent
  <2>2. ~RequestDecided(n) /\ ~RequestEdited(n)
    BY <1>1, <2>1, ConflictParts, DecidedFromPending, NoEdits
  <2>3. ~RequestSet(n)
    BY <1>0, <1>1 DEF RequestSet, ReqBusy
  <2> QED
    BY <1>1, <2>1, <2>2, <2>3, ConflictParts, RequestsStay DEF RequestKept
<1>2. CASE WorkerMoves
  BY <1>2, ConflictParts DEF WorkerMoves, HeldIsCurrent, ReqBusy, Current
<1>3. CASE WorkerRefreshes
  BY <1>3 DEF WorkerRefreshes, Current
<1>4. CASE \E m \in Requests : WorkerPicks(m)
  BY <1>4 DEF WorkerPicks, Current
<1> QED
  BY <1>0, <1>1, <1>2, <1>3, <1>4, ConflictParts, KeptParts, ReqWorkerChanges DEF ReqBusy

(* The states that say that a request was started, or was given up.          *)
LEMMA StartedStays ==
    ASSUME CallsSucceed, NobodyEdits, ConflictsInv, Next, NEW n \in Requests,
           requests[n].state \in {"Started", "Complete", "Failed", "Malformed"}
    PROVE  requests'[n].state \in {"Started", "Complete", "Failed", "Malformed"}
<1>1. Exists(requests[n]) /\ ~RequestDecided(n) /\ ~RequestEdited(n)
  BY ConflictParts, KeptParts, DecidedFromPending, NoEdits DEF StoredStatesOK
<1>2. CASE RequestSet(n)
  <2>1. /\ reqWorker.pc = "SetState" /\ n = reqWorker.key /\ InPart
        /\ requests'[n].state = reqWorker.to
        /\ Current(reqWorker.obj, requests[n])
    BY <1>2 DEF RequestSet, InPart, ReqBusy
  <2>2. requests[n].state = "Started"
    BY <2>1, ConflictParts, KeptParts DEF NotTerminalWhileBusy, InTerminalState
  <2>3. reqWorker.obj.state = "Started"
    <3>1. reqWorker.obj = requests[n]
             \/ reqWorker.obj = [requests[n] EXCEPT !.jobName = reqWorker.key]
      BY <2>1, ConflictParts, KeptParts DEF HeldCopyOK, InPart
    <3>2. requests[n] \in JobRequest
      BY ConflictParts, KeptParts DEF TypeOK, ClusterTypeOK
    <3> QED
      BY <2>2, <3>1, <3>2 DEF JobRequest
  <2>4. reqWorker.to \in JobRequestStates \ (Decisions \cup {""})
    BY <2>1, ConflictParts, KeptParts DEF TypeOK, ReqWorkerTypeOK, ReqWorkers, WritesOK
  <2>5. reqWorker.to \notin {"Pending", "Conflicted"}
    BY <2>1, <2>3, ConflictParts, KeptParts DEF HeldStateOK, PlansOK
  <2> QED
    BY <2>1, <2>4, <2>5 DEF JobRequestStates, Decisions
<1> QED
  BY <1>1, <1>2, ConflictParts, RequestsStay DEF RequestKept

(* The write of Started is not refused.                                      *)
LEMMA StartIsWritten ==
    ASSUME NoRestarts, CallsSucceed, ConflictsInv, Next, faults' = faults,
           reqWorker.pc = "SetState", reqWorker.to = "Started", reqWorker' # reqWorker
    PROVE  requests'[reqWorker.key].state = "Started"
<1> DEFINE n == reqWorker.key
           copy == [reqWorker.obj EXCEPT !.state = reqWorker.to]
<1>1. SetRequestState
  <2>1. ~Restart
    BY ConflictParts, KeptParts DEF Restart, NoRestarts, TypeOK, ClusterTypeOK
  <2>2. CASE ReqWorkerStep
    BY <2>2
    DEF ReqWorkerStep, PruneRequest, LookUpTarget, CalculateState, CheckNoJob, CreateJob,
        CheckJob, RefreshRequest
  <2> QED
    BY <2>1, <2>2
    DEF Next, RequestWorkerNext, PickRequest, ReviewWorkerNext, PickReview, ReconcileRequest,
        workers
<1>2. requests \in [Requests -> JobRequest] /\ n \in Requests /\ ReqBusy
  BY ConflictParts, KeptParts DEF TypeOK, ClusterTypeOK, KeysOK, ReqBusy
<1>3. copy \in JobRequest /\ copy.rv = reqWorker.obj.rv /\ copy.state = "Started"
  BY ConflictParts, KeptParts DEF TypeOK, ReqWorkerTypeOK, ReqWorkers, JobRequest
<1>4. Current(reqWorker.obj, requests[n])
  BY <1>2, ConflictParts, KeptParts DEF PlansOK, HeldIsCurrent
<1>5. \/ requests' = [requests EXCEPT ![n] = RequestStatusUpdated(requests[n], copy)]
      \/ ~Current(copy, requests[n]) \/ ApiFault
  BY <1>1, Zenon DEF SetRequestState
<1>6. ~ApiFault /\ Current(copy, requests[n])
  BY <1>3, <1>4, ConflictParts, KeptParts DEF ApiFault, TypeOK, ClusterTypeOK, Current
<1> HIDE DEF copy
<1> QED
  BY <1>2, <1>3, <1>5, <1>6, WrittenStatus

(* After the Job of a request is made the next step of its worker writes     *)
(* Started.                                                                  *)
LEMMA StartsAreWrittenNext ==
    ASSUME CallsSucceed, NobodyEdits, NoRestarts, ConflictsInv, Next, faults' = faults
    PROVE  StartsAreWritten'
<1> SUFFICES ASSUME NEW n \in Requests, jobs'[n].owner # 0,
                    requests'[n].state \notin {"Started", "Complete", "Failed", "Malformed"}
             PROVE  /\ reqWorker'.key = n /\ reqWorker'.pc = "SetState"
                    /\ reqWorker'.to = "Started"
  BY DEF StartsAreWritten
<1>1. CASE JobKept(n) \/ JobFinished(n)
  <2>1. jobs[n].owner # 0
    BY <1>1 DEF JobKept, JobFinished
  <2>2. requests[n].state \notin {"Started", "Complete", "Failed", "Malformed"}
    BY StartedStays
  <2>3. reqWorker.key = n /\ reqWorker.pc = "SetState" /\ reqWorker.to = "Started"
    BY <2>1, <2>2, ConflictParts DEF StartsAreWritten
  <2>4. reqWorker' = reqWorker
    BY <2>3, StartIsWritten
  <2> QED
    BY <2>3, <2>4
<1>2. CASE JobMade(n)
  BY <1>2 DEF JobMade, CreateIsAnswered
<1>3. ~JobRemoved(n) /\ ~JobMadeByOthers(n)
  BY DEF JobRemoved, JobMadeByOthers, NoJob
<1> QED
  BY <1>1, <1>2, <1>3, ConflictParts, KeptParts, JobSteps

(* Both parts hold of an empty cluster.                                      *)
LEMMA ConflictsInvInit == Init => ConflictsInv
<1> SUFFICES ASSUME Init PROVE ConflictsInv
  OBVIOUS
<1>1. reqWorker.pc = "Idle"
  BY DEF Init, ReqWorkerInit, ReqIdle
<1>2. \A n \in Requests : jobs[n].owner = 0
  BY DEF Init, ClusterInit, NoJob
<1> QED
  BY <1>1, <1>2, KeptInvInit DEF ConflictsInv, HeldIsCurrent, StartsAreWritten, ReqBusy

(* The copy of a decided request is of the stored version, so that Started   *)
(* is written once the Job of the request has been made.                     *)
THEOREM ConflictsInvariant ==
    ASSUME CallsSucceed, NobodyEdits, NoRestarts
    PROVE  Spec => []ConflictsInv
<1>1. Init => ConflictsInv
  BY ConflictsInvInit
<1>2. ConflictsInv /\ [Next]_vars => ConflictsInv'
  <2> SUFFICES ASSUME ConflictsInv, [Next]_vars PROVE ConflictsInv'
    OBVIOUS
  <2>1. CASE Next
    <3>1. KeptInv' /\ faults' = faults
      BY <2>1, ConflictParts, KeptInvNext
    <3>2. HeldIsCurrent' /\ StartsAreWritten'
      BY <2>1, <3>1, HeldIsCurrentNext, StartsAreWrittenNext
    <3> QED
      BY <3>1, <3>2 DEF ConflictsInv
  <2>2. CASE UNCHANGED vars
    <3>1. UNCHANGED <<requests, jobs, reqWorker>>
      BY <2>2 DEF vars, clusterVars, store, workers
    <3> QED
      BY <2>2, <3>1, ConflictParts, KeptInvStays
      DEF ConflictsInv, HeldIsCurrent, StartsAreWritten, ReqBusy, Current, Exists
  <2> QED
    BY <2>1, <2>2
<1> QED
  BY <1>1, <1>2, PTL DEF Spec

(* A Conflicted request is in conflict with a Job that is not its own, when  *)
(* the write that follows the creation of a Job is not refused.              *)
THEOREM ConflictsAreWithOthers ==
    ASSUME CallsSucceed, NobodyEdits, NoRestarts
    PROVE  Spec => []ConflictIsWithAnotherJob
<1>1. ConflictsInv => ConflictIsWithAnotherJob
  <2> SUFFICES ASSUME ConflictsInv, NEW n \in Requests, requests[n].state = "Conflicted",
                      jobs[n].owner = requests[n].uid
               PROVE  FALSE
    BY DEF ConflictIsWithAnotherJob
  <2>1. jobs[n].owner # 0
    BY ConflictParts, KeptParts DEF StoredStatesOK, Exists
  <2>2. reqWorker.key = n /\ InPart
    BY <2>1, ConflictParts DEF StartsAreWritten, InPart, ReqBusy
  <2> QED
    BY <2>2, ConflictParts, KeptParts DEF NotTerminalWhileBusy, InTerminalState
<1> QED
  BY <1>1, ConflictsInvariant, PTL
=============================================================================
