------------------------------- MODULE Cluster -------------------------------
(***************************************************************************)
(* What the operator runs against: the API server holding JobRequests,     *)
(* JobRequestReviews and Jobs, the users and Kubernetes controllers that   *)
(* change them, the informer cache of JobRequestReviews the manager reads, *)
(* and the work queue of each of its two controllers.                      *)
(*                                                                         *)
(* None of this is code of the repository: it is modelled from how the     *)
(* reconcilers use it.  Everything that can happen to an object between    *)
(* two API calls of a reconcile is an action here.                         *)
(***************************************************************************)
EXTENDS JobRequestAPI

CONSTANTS
    ResourceTtl,          \* age at which the reconcilers prune an object
    MaxClock,             \* bound of the clock
    MaxOps,               \* bound on the things users do
    MaxFaults,            \* bound on the API calls that fail
    MaxCrashes,           \* bound on the restarts of the manager
    MaxResyncs,           \* bound on the keys queued with nothing new to see
    Disturbances,         \* what users may do besides creating objects
    RequesterAnnotations, \* requested-by annotations requests come with
    ReviewerAnnotations,  \* reviewed-by annotations reviews come with
    Targets               \* what looking up a target container can find

AllDisturbances ==
    {"DeleteRequest", "EditRequest", "DeleteReview", "EditReview",
     "EarlyReview", "DeleteJob", "ForeignJob"}

ASSUME ClusterAssumption ==
    /\ ResourceTtl \in Nat \ {0}
    /\ {MaxClock, MaxOps, MaxFaults, MaxCrashes, MaxResyncs} \subseteq Nat
    /\ Disturbances \subseteq AllDisturbances
    /\ RequesterAnnotations \subseteq Annotations
    /\ ReviewerAnnotations \subseteq Annotations
    /\ Targets \subseteq {"Found", "NotFound", "NoContainer"}

VARIABLES
    requests,  \* the stored JobRequest of each name
    reviews,   \* the stored JobRequestReview of each name
    jobs,      \* the stored Job of each request name
    clock,
    reqQueue,  \* keys the JobRequest controller has to reconcile
    revQueue,  \* keys the JobRequestReview controller has to reconcile
    revCache,  \* the manager's informer cache of JobRequestReviews
    ops,       \* things users did
    faults,    \* API calls that failed
    crashes,   \* restarts of the manager
    resyncs    \* keys queued with nothing new to see

store == <<requests, reviews, jobs>>
queues == <<reqQueue, revQueue>>
clusterVars == <<store, clock, queues, revCache, ops, faults, crashes, resyncs>>

ClusterTypeOK ==
    /\ requests \in [Requests -> JobRequest]
    /\ reviews \in [Reviews -> JobRequestReview]
    /\ jobs \in [Requests -> Job]
    /\ clock \in 0..MaxClock
    /\ reqQueue \subseteq Requests
    /\ revQueue \subseteq Reviews
    /\ revCache \in [Reviews -> JobRequestReview]
    /\ ops \in 0..MaxOps
    /\ faults \in 0..MaxFaults
    /\ crashes \in 0..MaxCrashes
    /\ resyncs \in 0..MaxResyncs

ClusterInit ==
    /\ requests = [n \in Requests |-> NoRequest(0)]
    /\ reviews = [r \in Reviews |-> NoReview(0)]
    /\ jobs = [n \in Requests |-> NoJob]
    /\ clock = 0
    /\ reqQueue = {} /\ revQueue = {}
    /\ revCache = reviews
    /\ ops = 0 /\ faults = 0 /\ crashes = 0 /\ resyncs = 0

-----------------------------------------------------------------------------
(* The API server. *)

(* An update is accepted only from a copy of the version that is stored.    *)
Current(copy, stored) == Exists(stored) /\ stored.rv = copy.rv

(* A write that changes nothing keeps the resourceVersion and makes no      *)
(* event.                                                                   *)
Written(stored, written) ==
    IF written = stored THEN stored ELSE [written EXCEPT !.rv = stored.rv + 1]

(* Status().Update of a JobRequest: only the status of the copy is taken.   *)
RequestStatusUpdated(stored, copy) ==
    Written(stored, [stored EXCEPT !.state = copy.state,
                                   !.reviewName = copy.reviewName,
                                   !.jobName = copy.jobName])

ReviewStatusUpdated(stored, copy) ==
    Written(stored, [stored EXCEPT !.state = copy.state])

(* Delete by name, with no precondition on the uid or the version.          *)
RequestDeleted(n) ==
    requests' = [requests EXCEPT ![n] = IF Exists(@) THEN NoRequest(@.rv + 1) ELSE @]

ReviewDeleted(r) ==
    reviews' = [reviews EXCEPT ![r] = IF Exists(@) THEN NoReview(@.rv + 1) ELSE @]

JobExists(n) == jobs[n].phase # "Absent"

ApiFault == faults < MaxFaults /\ faults' = faults + 1
ApiAnswers == UNCHANGED faults

(* For(&JobRequest{}) and Owns(&Job{}): a change of a JobRequest, or of a    *)
(* Job with a controller, queues the request's name.  retried are the keys   *)
(* the controller itself asked to be given again.                            *)
SlipJobsNotOwned == {n \in Requests : requests'[n] # requests[n]}
RequestEvents ==
    {n \in Requests : \/ requests'[n] # requests[n]
                      \/ /\ jobs'[n] # jobs[n]
                         /\ jobs[n].owner # 0 \/ jobs'[n].owner # 0}

QueueRequests(pending) == reqQueue' = pending \cup RequestEvents

(* age >= ResourceTtl *)
SlipExpiresEarly(object) == clock - object.created + 1 >= ResourceTtl
Expired(object) == clock - object.created >= ResourceTtl

-----------------------------------------------------------------------------
(* Users. *)

UserOp == ops < MaxOps /\ ops' = ops + 1

Allowed(disturbance) == disturbance \in Disturbances

CreateRequest(n, by) ==
    /\ UserOp
    /\ ~Exists(requests[n])
    /\ LET version == requests[n].rv + 1 IN
       requests' = [requests EXCEPT ![n] =
           [NoRequest(version) EXCEPT !.uid = version, !.created = clock, !.by = by]]
    /\ UNCHANGED <<reviews, jobs, clock, revQueue, revCache, faults, crashes, resyncs>>
    /\ QueueRequests(reqQueue)

DeleteRequest(n) ==
    /\ Allowed("DeleteRequest") /\ UserOp
    /\ Exists(requests[n])
    /\ RequestDeleted(n)
    /\ UNCHANGED <<reviews, jobs, clock, revQueue, revCache, faults, crashes, resyncs>>
    /\ QueueRequests(reqQueue)

(* Any write of a request by a user: a label, an annotation, the spec.      *)
EditRequest(n) ==
    /\ Allowed("EditRequest") /\ UserOp
    /\ Exists(requests[n])
    /\ requests' = [requests EXCEPT ![n].rv = @ + 1]
    /\ UNCHANGED <<reviews, jobs, clock, revQueue, revCache, faults, crashes, resyncs>>
    /\ QueueRequests(reqQueue)

(* Without "EarlyReview" users review a request only once it has a state.   *)
CreateReview(r, n, decision, by) ==
    /\ UserOp
    /\ ~Exists(reviews[r])
    /\ Allowed("EarlyReview") \/ requests[n].state # ""
    /\ LET version == reviews[r].rv + 1 IN
       reviews' = [reviews EXCEPT ![r] =
           [NoReview(version) EXCEPT !.uid = version, !.created = clock, !.by = by,
                                     !.request = n, !.decision = decision]]
    /\ UNCHANGED <<requests, jobs, clock, queues, revCache, faults, crashes, resyncs>>

DeleteReview(r) ==
    /\ Allowed("DeleteReview") /\ UserOp
    /\ Exists(reviews[r])
    /\ ReviewDeleted(r)
    /\ UNCHANGED <<requests, jobs, clock, queues, revCache, faults, crashes, resyncs>>

EditReview(r, decision) ==
    /\ Allowed("EditReview") /\ UserOp
    /\ Exists(reviews[r])
    /\ reviews' = [reviews EXCEPT ![r].decision = decision, ![r].rv = @ + 1]
    /\ UNCHANGED <<requests, jobs, clock, queues, revCache, faults, crashes, resyncs>>

DeleteJob(n) ==
    /\ Allowed("DeleteJob") /\ UserOp
    /\ JobExists(n)
    /\ jobs' = [jobs EXCEPT ![n] = NoJob]
    /\ UNCHANGED <<requests, reviews, clock, revQueue, revCache, faults, crashes, resyncs>>
    /\ QueueRequests(reqQueue)

CreateForeignJob(n) ==
    /\ Allowed("ForeignJob") /\ UserOp
    /\ ~JobExists(n)
    /\ jobs' = [jobs EXCEPT ![n] = [owner |-> 0, phase |-> "Running"]]
    /\ UNCHANGED <<requests, reviews, clock, queues, revCache, faults, crashes, resyncs>>

Tick ==
    /\ clock < MaxClock
    /\ clock' = clock + 1
    /\ UNCHANGED <<store, queues, revCache, ops, faults, crashes, resyncs>>

-----------------------------------------------------------------------------
(* Kubernetes. *)

(* The Job controller runs the Job to its end.                              *)
FinishJob(n, outcome) ==
    /\ jobs[n].phase = "Running"
    /\ jobs' = [jobs EXCEPT ![n].phase = outcome]
    /\ UNCHANGED <<requests, reviews, clock, revQueue, revCache, ops, faults, crashes, resyncs>>
    /\ QueueRequests(reqQueue)

(* The garbage collector removes a Job whose controlling request is gone.   *)
CollectJob(n) ==
    /\ jobs[n].owner # 0
    /\ requests[n].uid # jobs[n].owner
    /\ jobs' = [jobs EXCEPT ![n] = NoJob]
    /\ UNCHANGED <<requests, reviews, clock, revQueue, revCache, ops, faults, crashes, resyncs>>
    /\ QueueRequests(reqQueue)

(* The watch delivers the latest version of a review to the cache, which     *)
(* queues its name.  Versions it skips were coalesced.                       *)
SyncReview(r) ==
    /\ revCache[r] # reviews[r]
    /\ revCache' = [revCache EXCEPT ![r] = reviews[r]]
    /\ revQueue' = revQueue \cup {r}
    /\ UNCHANGED <<store, clock, reqQueue, ops, faults, crashes, resyncs>>

(* The informers' periodic resync, or an event that arrives after what it    *)
(* reports has been seen.                                                    *)
ResyncRequest(n) ==
    /\ resyncs < MaxResyncs /\ resyncs' = resyncs + 1
    /\ Exists(requests[n]) /\ n \notin reqQueue
    /\ reqQueue' = reqQueue \cup {n}
    /\ UNCHANGED <<store, clock, revQueue, revCache, ops, faults, crashes>>

ResyncReview(r) ==
    /\ resyncs < MaxResyncs /\ resyncs' = resyncs + 1
    /\ Exists(revCache[r]) /\ r \notin revQueue
    /\ revQueue' = revQueue \cup {r}
    /\ UNCHANGED <<store, clock, reqQueue, revCache, ops, faults, crashes>>

UserNext ==
    \/ \E n \in Requests :
          \/ \E by \in RequesterAnnotations : CreateRequest(n, by)
          \/ DeleteRequest(n) \/ EditRequest(n)
          \/ DeleteJob(n) \/ CreateForeignJob(n)
    \/ \E r \in Reviews, decision \in Decisions :
          \/ \E n \in Requests, by \in ReviewerAnnotations : CreateReview(r, n, decision, by)
          \/ EditReview(r, decision)
    \/ \E r \in Reviews : DeleteReview(r)

KubernetesNext ==
    \/ Tick
    \/ \E n \in Requests :
          \/ \E outcome \in {"Complete", "Failed"} : FinishJob(n, outcome)
          \/ CollectJob(n) \/ ResyncRequest(n)
    \/ \E r \in Reviews : SyncReview(r) \/ ResyncReview(r)

ClusterNext == UserNext \/ KubernetesNext
=============================================================================
