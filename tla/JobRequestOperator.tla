------------------------- MODULE JobRequestOperator -------------------------
(***************************************************************************)
(* The operator: the manager's two controllers, running concurrently on    *)
(* the cluster, and the restarts of the manager.                           *)
(***************************************************************************)
EXTENDS JobRequestController, JobRequestReviewController

VARIABLES
    approved,  \* history: <<name, uid>> of the requests that a user other
               \* than the requester has approved
    launched   \* history: <<name, uid>> of the requests whose Job was
               \* created, and not deleted from under them since

workers == <<reqWorker, revWorker>>
history == <<approved, launched>>
vars == <<clusterVars, workers, history>>

TypeOK ==
    /\ ClusterTypeOK
    /\ ReqWorkerTypeOK
    /\ RevWorkerTypeOK
    /\ approved \subseteq Requests \X Nat
    /\ launched \subseteq Requests \X Nat

Init ==
    /\ ClusterInit
    /\ ReqWorkerInit /\ RevWorkerInit
    /\ approved = {} /\ launched = {}

(* The manager dies and another takes over: whatever its workers held is    *)
(* lost, and the new informers list every object and queue it.              *)
Restart ==
    /\ crashes < MaxCrashes
    /\ crashes' = crashes + 1
    /\ reqWorker' = ReqIdle /\ revWorker' = RevIdle
    /\ revCache' = reviews
    /\ reqQueue' = {n \in Requests : Exists(requests[n]) \/ jobs[n].owner # 0}
    /\ revQueue' = {r \in Reviews : Exists(reviews[r])}
    /\ UNCHANGED <<store, clock, ops, faults, resyncs>>

-----------------------------------------------------------------------------
(* The history variables. *)

(* The reviewer is not the requester, and both are known.                   *)
FourEyes(requester, reviewer) ==
    Identified(requester) /\ Identified(reviewer) /\ requester # reviewer

ApprovedNow(n) ==
    /\ requests[n].state # "Approved" /\ requests'[n].state = "Approved"
    /\ requests'[n].uid = requests[n].uid
    /\ revWorker.obj.request = n
    /\ FourEyes(requests[n].by, revWorker.obj.by)

LaunchedNow(n) ==
    /\ jobs'[n].owner # 0
    /\ jobs[n].phase # "Running" /\ jobs'[n].phase = "Running"

LostItsJobNow(n) ==
    jobs[n].owner # 0 /\ jobs'[n] = NoJob /\ requests[n].uid = jobs[n].owner

Observe ==
    /\ approved' = approved \cup
          {<<n, requests[n].uid>> : n \in {m \in Requests : ApprovedNow(m)}}
    /\ launched' =
          (launched \cup {<<n, jobs'[n].owner>> : n \in {m \in Requests : LaunchedNow(m)}})
              \ {<<n, jobs[n].owner>> : n \in {m \in Requests : LostItsJobNow(m)}}

(* The steps of the workers, complete. *)
RequestWorkerNext == ReqWorkerStep /\ UNCHANGED revWorker /\ Observe
ReviewWorkerNext == RevWorkerStep /\ UNCHANGED reqWorker /\ Observe
PickRequest(n) == ReconcileRequest(n) /\ UNCHANGED revWorker /\ Observe
PickReview(r) == ReconcileReview(r) /\ UNCHANGED reqWorker /\ Observe
Synchronise(r) == SyncReview(r) /\ UNCHANGED workers /\ Observe

Next ==
    \/ ClusterNext /\ UNCHANGED workers /\ Observe
    \/ RequestWorkerNext \/ \E n \in Requests : PickRequest(n)
    \/ ReviewWorkerNext \/ \E r \in Reviews : PickReview(r)
    \/ Restart /\ Observe

Spec == Init /\ [][Next]_vars

(* The workers do not stop, the watch delivers, and the work queues are     *)
(* first in, first out, so that a key that is queued over and over cannot   *)
(* keep another waiting.  Nothing is assumed of users, Jobs or the clock.   *)
Fairness ==
    /\ WF_vars(RequestWorkerNext) /\ WF_vars(ReviewWorkerNext)
    /\ \A n \in Requests : SF_vars(PickRequest(n))
    /\ \A r \in Reviews : SF_vars(PickReview(r)) /\ WF_vars(Synchronise(r))

FairSpec == Spec /\ Fairness

-----------------------------------------------------------------------------
(* Safety. *)

Stays(n) == Exists(requests[n]) /\ requests'[n].uid = requests[n].uid

(* A Job the operator made runs a request that a user other than its        *)
(* requester approved (validateReviewerAndRequesterDiffer, handleState).    *)
OnlyApprovedRequestsRun ==
    \A n \in Requests : jobs[n].owner # 0 => <<n, jobs[n].owner>> \in approved

(* A request with a state that HasBeenApproved (api/v1) counts as approved  *)
(* has been approved.  Conflicted counts too: it is entered from Approved.  *)
ApprovedStatesAreEarned ==
    \A n \in Requests : HasBeenApproved(requests[n]) => <<n, requests[n].uid>> \in approved

(* The Job of a request is created once, as long as nobody deletes the      *)
(* request or that Job: not again after a restart, a failed or unanswered   *)
(* Create, a lost status update, or a review that was replaced.             *)
JobRunsOnce ==
    [][\A n \in Requests :
          (LaunchedNow(n) /\ requests[n].uid = jobs'[n].owner)
              => <<n, jobs'[n].owner>> \notin launched]_vars

(* A terminal state is never left (endReconcileIfInTerminalState), whoever  *)
(* writes the status, from whatever copy.                                   *)
TerminalIsFinal ==
    [][\A n \in Requests :
          (Stays(n) /\ requests[n].state \in {"Complete", "Failed", "Malformed", "Conflicted"})
              => requests'[n].state = requests[n].state]_vars

(* A decision is only ever taken on a request that is Pending when its      *)
(* status is written, not one that was Pending when it was read             *)
(* (handleState and handleReviewDecision of the review controller).         *)
DecidedWhilePending ==
    [][\A n \in Requests :
          (Stays(n) /\ requests'[n].state \in Decisions
             /\ requests'[n].state # requests[n].state)
              => requests[n].state = "Pending"]_vars

(* A review in the state of a decision is the review its request names, so  *)
(* that of two reviews of a request at most one says it decided             *)
(* (handleReviewDecision).  Needs that nobody else writes the request       *)
(* between the read and the write of its status.                            *)
DecisionIsRecorded ==
    \A r \in Reviews :
        (reviews[r].state \in Decisions /\ Exists(requests[reviews[r].request]))
            => requests[reviews[r].request].reviewName = r

(* A request is in conflict with a Job that is not its own (the last case   *)
(* of an Approved request in handleState).  Needs that the status update    *)
(* that follows the creation of the Job is not lost.                        *)
ConflictIsWithAnotherJob ==
    \A n \in Requests :
        requests[n].state = "Conflicted" => jobs[n].owner # requests[n].uid

(* The reconcilers delete objects that have lived for ResourceTtl, not      *)
(* younger ones of the same name (Reconcile, both controllers).  A review   *)
(* that is not the one the controller read, from its cache, is excepted:    *)
(* when a review is gone and another has been made under its name, the      *)
(* Delete by name of the first takes the second, of whatever age.           *)
OnlyOldObjectsArePruned ==
    [][/\ \A n \in Requests :
             (reqWorker.pc = "Delete" /\ reqWorker' # reqWorker
                /\ Exists(requests[n]) /\ ~Exists(requests'[n]))
                 => clock - requests[n].created >= ResourceTtl
       /\ \A r \in Reviews :
             (revWorker.pc = "Delete" /\ revWorker' # revWorker
                /\ Exists(reviews[r]) /\ ~Exists(reviews'[r]))
                 => \/ clock - reviews[r].created >= ResourceTtl
                    \/ reviews[r].uid # revWorker.obj.uid]_vars

-----------------------------------------------------------------------------
(* Why safety holds: an inductive invariant, in named parts.                *)

ReqBusy == reqWorker.pc # "Idle"
Deciding == revWorker.pc = "UpdateRequest"
InPart == ReqBusy /\ reqWorker.pc # "Delete"

(* Workers hold the keys of objects, and reviews name requests.             *)
KeysOK ==
    /\ ReqBusy => reqWorker.key \in Requests
    /\ revWorker.pc # "Idle" => revWorker.key \in Reviews
    /\ revWorker.pc \in {"ListRequest", "UpdateRequest"} => revWorker.obj.request \in Requests
    /\ \A r \in Reviews : /\ Exists(reviews[r]) => reviews[r].request \in Requests
                          /\ Exists(revCache[r]) => revCache[r].request \in Requests

(* Versions only grow, so that no copy is of a version yet to come ...      *)
VersionsOK ==
    /\ \A n \in Requests : requests[n].uid <= requests[n].rv
    /\ ReqBusy => /\ reqWorker.obj.rv <= requests[reqWorker.key].rv
                  /\ reqWorker.obj.uid <= requests[reqWorker.key].rv
    /\ Deciding => revWorker.req.rv <= requests[revWorker.obj.request].rv

(* ... and a copy of the stored version is a copy of what is stored.        *)
CopiesOK ==
    /\ (ReqBusy /\ Current(reqWorker.obj, requests[reqWorker.key]))
          => reqWorker.obj.uid = requests[reqWorker.key].uid
    /\ (Deciding /\ Current(revWorker.req, requests[revWorker.obj.request]))
          => revWorker.req = requests[revWorker.obj.request]

(* What the workers are about to write.                                     *)
WritesOK ==
    /\ reqWorker.pc = "SetState" => reqWorker.to \notin Decisions \cup {""}
    /\ reqWorker.pc = "GetAgain" => reqWorker.to \in {"", "Complete", "Failed"}
    /\ reqWorker.pc = "CreateJob" => reqWorker.obj.state = "Approved"
    /\ revWorker.pc = "ListRequest" => Identified(revWorker.obj.by)
    /\ Deciding => /\ revWorker.req.state = "Pending"
                   /\ FourEyes(revWorker.req.by, revWorker.obj.by)

(* While a request is being reconciled its state is not terminal: only this  *)
(* controller writes terminal states, and it has one worker.                 *)
NotTerminalWhileBusy ==
    InPart => ~InTerminalState(requests[reqWorker.key].state)

(* Wherever an approval is relied on, it has been given.                    *)
ApprovalsOK ==
    /\ \A n \in Requests :
          requests[n].state \in {"Approved", "Started"} => <<n, requests[n].uid>> \in approved
    /\ (InPart /\ reqWorker.obj.state \in {"Approved", "Started"})
          => <<reqWorker.key, reqWorker.obj.uid>> \in approved
    /\ (reqWorker.pc = "SetState" /\ reqWorker.to = "Started")
          => <<reqWorker.key, reqWorker.obj.uid>> \in approved
    /\ OnlyApprovedRequestsRun

(* A Job that is absent has no controller.                                  *)
JobsOK == \A n \in Requests : jobs[n].owner # 0 => JobExists(n)

(* A request whose Job was created has that Job.                            *)
LaunchesOK ==
    /\ \A l \in launched : l[2] <= requests[l[1]].rv
    /\ \A n \in Requests :
          (Exists(requests[n]) /\ <<n, requests[n].uid>> \in launched)
              => JobExists(n) /\ jobs[n].owner = requests[n].uid

SafetyInv ==
    /\ VersionsOK /\ CopiesOK /\ WritesOK /\ NotTerminalWhileBusy
    /\ ApprovalsOK /\ JobsOK /\ LaunchesOK

IInv == TypeOK /\ KeysOK /\ SafetyInv

-----------------------------------------------------------------------------
(* The lifecycle this operator gives a request while nobody deletes objects *)
(* and no List fails.                                                       *)

PhaseOf(request) ==
    CASE ~Exists(request) -> "None"
      [] Exists(request) /\ request.state = "" -> "New"
      [] OTHER -> request.state

RunOf(job) == IF job.owner # 0 THEN job.phase ELSE "Absent"

Lifecycle == INSTANCE JobRequestLifecycle WITH
    phase <- [n \in Requests |-> PhaseOf(requests[n])],
    run <- [n \in Requests |-> RunOf(jobs[n])]

(* Every step of the operator is a step of the abstract lifecycle, or leaves *)
(* it as it is (both reconcilers' handleState, with everything that happens  *)
(* between their API calls).                                                 *)
FollowsLifecycle == Lifecycle!Spec

-----------------------------------------------------------------------------
(* Liveness, of FairSpec. *)

(* A request gets a state: it does not stay as it was created (Reconcile,   *)
(* calculateState).                                                         *)
RequestsGetAState ==
    \A n \in Requests : Exists(requests[n]) ~> (requests[n].state # "" \/ ~Exists(requests[n]))

(* A review gets a state, whatever the state of the request it names        *)
(* (handleState of the review controller).                                  *)
ReviewsAreAnswered ==
    \A r \in Reviews : Exists(reviews[r]) ~> (reviews[r].state # "" \/ ~Exists(reviews[r]))

(* An Approved request is acted on: its Job is created, or it is refused    *)
(* (handleState).                                                           *)
ApprovedIsActedOn ==
    \A n \in Requests :
        requests[n].state = "Approved"
            ~> (JobExists(n) /\ requests[n].state # "Approved") \/ requests[n].state = "Malformed"

(* The outcome of a Job becomes the state of its request (Owns, and         *)
(* handleState of a Started request).                                       *)
OutcomesAreRecorded ==
    \A n \in Requests : \A outcome \in {"Complete", "Failed"} :
        (jobs[n].owner # 0 /\ jobs[n].phase = outcome) ~> requests[n].state = outcome
=============================================================================
