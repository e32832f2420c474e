# Verification of the GOV.UK Job Request Operator

TLA+ models of the operator in this repository, TLC configurations that check
them on small instances, and theorems about them proved with TLAPS for every
value of their constants. Paths below are relative to the repository root.

## 1. Inventory

The operator is one process, the *manager* (`cmd/main.go`), with two
controllers and a metric collector. A `JobRequest` asks for a command to be run
in the container of a Deployment; a `JobRequestReview` made by another user
approves or rejects it; an approved request gets a Kubernetes `Job`.

| Component | State it keeps | Operations | Interacts with |
|---|---|---|---|
| API types, `api/v1/*_types.go` | none (status lives in the API server) | `WasReviewedBy`, `HasBeenReviewed`, `HasBeenApproved`, `HasBeenRejected`, `GetRequestedBy`, `GetReviewedBy` | used by both controllers and by `govuk-cli` |
| `JobRequestReconciler`, `internal/controller/jobrequest_controller.go` | the copy of the request being reconciled | prune, validate requester, look up target, `calculateState`, `handleState` | live reads of requests, reviews, Deployments, Jobs; writes request status, Jobs |
| `JobRequestReviewReconciler`, `internal/controller/jobrequestreview_controller.go` | the copies of the review and of its request | prune, validate reviewer, `handleState`, `handleReviewDecision` | reviews from the informer cache, requests live; writes the status of both |
| Manager, `cmd/main.go` | work queues, informer caches, the leader's lease | start, restart, take over from another manager, resync | queues request names for changes of requests and of the Jobs they own, review names for changes of reviews |
| User identity, `api/v1/user_identity.go` | none | `ParseUserIdentityFromARN` | both controllers |
| Metric collector, `internal/metrics/collector.go` | gauges | `collect` every 30 s | cache of requests and reviews |
| Reconcile metrics, `internal/metrics/*_vars.go`, `cmd/init.go` | counters | increments in the reconcilers | Prometheus |
| Logging, `internal/controller/reconciler.go` | none | log lines | |
| Admission policies, `config/extras` | none | set `requested-by` / `reviewed-by` on creation | API server |
| Manifests, CRDs, tests, CI | none | | |

What is hard about it: each controller has one worker, but the two run at the
same time, on objects that users and Kubernetes change too. A reconcile is a
chain of up to six API calls working on a copy taken at the first one. A status
update is refused when the copy is out of date, and the refusal is only logged.
Reviews are read from a cache that lags. Deletes go by name. The manager may
stop between any two calls. `PROJECT.json` lists the hazards with their lines.

What makes each component correct:

- request controller: a Job is created only for a request somebody else
  approved; once; terminal states stay; a conflict is with another Job; every
  request gets a state, every approved one is acted on, the outcome of a Job
  reaches its request; only old objects are pruned;
- review controller: a decision is taken on a pending request only, by another
  user than the requester, once; the review that says it decided is the one the
  request names; every review is answered; only old objects are pruned;
- manager: what is true of one manager stays true when another takes over, and
  with resyncs going on everything old is pruned and nothing new is forgotten;
- identity: the user names that are compared tell people apart;
- collector: a gauge says what was listed, and comes to say what there is;
- reconcile metrics: a reconcile is counted once, by the way it ended; a state
  that is written is counted, and so is a requeue that is made.

## 2. Modules

```
JobRequestAPI                     api/v1 objects, states, predicates
  Cluster                         API server, users, Kubernetes, queues, cache
    JobRequestController          \  one worker each,
    JobRequestReviewController    /  one action per API call
      JobRequestOperator          both controllers on one cluster; restarts;
                                  properties; inductive invariant
        JobRequestOperatorProofs  theorems
        LeaderHandover            two managers, one after the other
          LeaderHandoverProofs    theorems
        PeriodicResync            resyncs without end, objects growing old
        ReconcileMetrics          the counters both reconcilers increment
          ReconcileMetricsProofs  theorems
        Undisturbed               conditions under which more holds, and the
                                  inductive invariants for it
          UndisturbedProofs       theorems, of PeriodicResync too
            DecisionProofs        theorems about decisions and conflicts
            JobRequestLifecycleProofs
                                  the refinement, proved
  MetricCollector                 the gauges, from the cache
    MetricCollectorProofs         theorems
JobRequestLifecycle               abstract specification, implemented by
                                  JobRequestOperator (FollowsLifecycle)
UserIdentity                      from ARNs to user names, and what the two
    UserIdentityProofs            controllers make of them; theorems
```

Each specification `X` that TLC runs has a module `MCX` with its instances.
Operators called `Slip...` stand before the definition they are a faulty variant
of; no specification uses them.

**JobRequestAPI.** An object is a record with `uid`, `rv` (resourceVersion),
`created`, `by` (what its requested-by or reviewed-by annotation parses to, or
`"Missing"` / `"Invalid"`) and its status. `uid = 0`: no such object. A uid is
the version the object was made at, so neither versions nor uids are reused.
Namespaces are left out: everything the operator does stays in one namespace.
Commands, arguments and target names are left out: no property tells them apart.

**Cluster** is what the repository's code runs against, modelled from how the
reconcilers use it: optimistic status updates that do not touch spec or
annotations and do nothing when nothing changes (`Current`, `Written`,
`RequestStatusUpdated`), deletes without precondition, users who create, edit
and delete objects and Jobs, the Job controller, the garbage collector, an
informer cache of reviews that may skip versions (`SyncReview`), resyncs and the
work queues. A queue is a set: the library keeps a key once. A change of a request
or of its Job queues the name at once; as requests are read live, an event that
comes later is a key that is taken later, or taken once more (`ResyncRequest`; the
theorems are for any number of those). No property is about what a queue holds at a
moment, which the delay of an event would change. Edits change the
version, and the decision of a review; annotations are set when an object is
created (`config/extras`) and assumed not to change.

**JobRequestController** and **JobRequestReviewController.** The worker is a
record: `pc` names the API call it makes next, `obj` (and `req`) the copies it
holds, `to` the state `setState` is about to write, `retry` whether the
reconcile returns an error. An action is one API call and the computation up to
the next; its disjuncts are the ways the call can end. Events and logs are left
out; metrics are in `ReconcileMetrics`.

| Action | Code (`jobrequest_controller.go`) |
|---|---|
| `ReconcileRequest` + `StartOfReconcile` | `getJobRequest`, age, terminal state, annotation (70-126) |
| `PruneRequest` | Delete (83-107) |
| `LookUpTarget` | `getTargetResource`, `createJobTemplate` (128-156) |
| `CalculateState` + `HandleState` | `calculateState`, start of `handleState` (314-350, 400-411, 460) |
| `CheckNoJob`, `CreateJob` | Approved (351-399) |
| `CheckJob`, `RefreshRequest` | Started (412-459) |
| `SetRequestState` | `setState` (465-471) |

| Action | Code (`jobrequestreview_controller.go`) |
|---|---|
| `ReconcileReview` + `StartOfReview` | `getJobRequestReview`, age, state, annotation (65-117) |
| `PruneReview` | Delete (77-96) |
| `ListRequest` + `HandleRequest` + `ReviewPending` | `getJobRequest`, `handleState`, `validateReviewerAndRequesterDiffer` (119-147, 199-230, 240-311, 357-455) |
| `UpdateRequest` | `handleReviewDecision` (319-345) |
| `SetReviewState` | `setState` (232-238) |

Not translated, because nothing reaches it: `SetControllerReference` cannot fail
on the fresh Job of `createJobTemplate` (288-295), and a `switch` on a state
outside the CRD's enumeration (review controller, 432-454). A Job with several
terminal conditions is not modelled: Kubernetes sets one. `RequeueAfter` and the
rate limiter's delays are a key that is queued again at once.

**JobRequestOperator** composes them. `Restart` stands for a stop of the manager
followed by the start of the next one, which lists everything: between the two
nothing of the operator acts, and what users do in between they can as well do
before or after. Two history variables record approvals and created Jobs; no
action reads them. `RequestWorkerNext` and the like are the steps of a worker
with everything else that happens in them.

**JobRequestLifecycle** is what the operator promises of a request, told in two
variables: its phase and the run of its Job. An approval is given once, a Job
made once and only when Approved, `Started` comes after the Job was made, the
outcome is that of the Job. `FollowsLifecycle` maps the detailed state to it
(`PhaseOf`, `RunOf`).

**Undisturbed** adds no behaviour to `JobRequestOperator`. It names conditions on
the constants (`OnlyOperatorDeletes`, `CallsSucceed`, `NobodyEdits`,
`NobodyDeletesJobs`, `TargetsAreThere`, `NoRestarts`) under which the operator
keeps to more than in general, and the inductive invariants that say why.

**LeaderHandover.** With `-leader-elect` one manager at a time runs its
controllers, but a call that the last leader's worker had sent may be carried
out after the next leader started. `TakeOver` is a `Restart` that keeps the write
each worker was making as a *late call*; `LandRequestCall` and `LandReviewCall`
carry it out, with the check of the resource version it would have had in time
(`setState`, `handleReviewDecision`), or by name without one (`Delete`, `Create`).
A late call that the API server refuses, or that never arrives, needs no action.
A late `Delete` can remove a recreated object, as a delayed one of the same
manager can. One hand-over leaves one late call per controller; the
next would replace them.

**PeriodicResync.** `JobRequestOperator` bounds its resyncs by a counter, which is
enough for safety. Here an informer hands its objects to the queue over and over
(`RequeueRequest`, `RequeueReview`), which is what pruning and recovery from a
dropped key rest on: nothing in the code queues an object that grows old.

**ReconcileMetrics** adds to each action of the two controllers the counters the
code increments there. Those that follow a `setState` are kept in `reqThen` or
`revThen` until its call returned, as a stop of the manager in between loses
them. Counters only grow, so the model keeps those of the reconcile under way and
forgets them with the first step after it: everything that can be said of a
counter is said of the reconcile that increments it. Labels are left out.

| Definition | Code |
|---|---|
| `CountPickRequest`, `CountPruneRequest` | request controller 61-126 |
| `CountLookUpTarget` | `getTargetResource`, `createJobTemplate` and their callers |
| `CountCalculateState`, `CountCheckNoJob`, `CountCreateJob`, `CountCheckJob`, `CountRefreshRequest` | the cases of `handleState`, and 161-176 |
| `CountPickReview`, `CountPruneReview` | review controller 56-117 |
| `CountListRequest`, `CountUpdateRequest` | review controller 119-151, `handleState`, `handleReviewDecision` |
| `RegisteredRequestCounters` | `MustRegister` in `cmd/init.go` |

**MetricCollector.** Its own state machine over the state of each object in the
cache, which may go from any state to any other, as an informer skips versions.
`ListRequests` and `ListReviews` are two moments; a failed one ends the
collection. The tally maps each listed state, and each state it starts with, to
a number; `SetRequestGauge` and `SetReviewGauge` set one gauge each, as a Go map
is ranged over in any order and Prometheus reads in between. A state with no gauge
is passed over (`ToSet`). `NewManager` starts with gauges at zero.

**UserIdentity.** A text is the sequence of the words between its hyphens, which
is all that `HasSuffix`, `TrimSuffix` and `HasPrefix` look at here; an ARN is its
parts between colons, with the sixth split at its slashes. `Creators` are persons
in sessions: GDS users, whose name is the beginning of their role's name and who
choose their session's name; Entra ID users, whose session is named by their
address; and ARNs of nobody. The admission policies of `config/extras` put that ARN in
the annotation. Both controllers' use of the parse follows: `ValidateRequestedBy`,
`ValidateReviewedBy`, `ReviewMalformedRequest`,
`ValidateReviewerAndRequesterDiffer`. `PeopleAssumption` says what names look
like: a GDS user's has no `@`, an Entra role does not end in the name of a GDS
role after a hyphen. The account is not compared, so two people of one name in two
accounts would be one to the code: names are taken to be persons'. One person
with both kinds of session has two names; nothing in the code relates them.

## 3. Runs

Runs of the operator, alone and in `LeaderHandover`, `PeriodicResync` and
`ReconcileMetrics`, are bounded by: `MaxOps` things users do (any of those
`Disturbances` allows, at any moment), `MaxFaults` failed API calls,
`MaxCrashes` restarts (or hand-overs), `MaxResyncs` keys queued with nothing new to
see, `MaxClock` and `ResourceTtl` the ages.

| Run | Asks | Instance |
|---|---|---|
| `faults` | `TypeOK`, `IInv`, `ApprovedStatesAreEarned`, `EarnedInv`, `TerminalIsFinal`, `JobRunsOnce` when calls fail | 1 request, 2 reviews, 3 ops, 2 failed calls, 1 restart |
| `lifecycle` | `LifecycleInv`, `FollowsLifecycle`, `ApprovedIsActedOn` | 1 request, 2 reviews, 3 ops, 1 restart; no deletion, no failed call |
| `answers` | `DecisionIsRecorded`, `ConflictIsWithAnotherJob`, `RecordsInv`, `ConflictsInv`, `RequestsGetAState`, `ReviewsAreAnswered`, `OutcomesAreRecorded` | 1 request, 2 reviews, 3 ops, 1 resync; users review what has a state and edit nothing |
| `pruning` | `OnlyOldObjectsArePruned`, `OldRequestsArePruned`, `OldReviewsArePruned`, `RequestsGetAState`, with resyncs without end | 1 request, 1 review, 2 ops, 1 failed call, 1 restart, TTL 1; users delete nothing |
| `handover` | `HandoverTypeOK`, `OnlyApprovedRequestsRun`, `HandoverInv`, `JobRunsOnce`, `DecidedWhilePending`, `TerminalIsNeverReopened` when the leader changes | 1 request, 1 review, 3 ops, 1 hand-over, TTL 1 |
| `metrics` | `ReviewReconcilesAreCountedOnce`, `NoRequestReconcileIsCountedTwice`, `CountsInv` (with `MetricsTypeOK`), `StatesAreCounted`, `RequeuesAreCounted` | 1 request, 1 review, 3 ops, 1 failed call, 1 restart, TTL 1 |
| `collector` | `CollectorTypeOK`, `GaugesTellWhatWasListed`, `GaugesAddUp`, `GaugesConverge` | 1 request, 1 review, 2 changes of the cache, 1 failed List, 1 restart |
| `identity` | `IdentityTypeOK`, `NobodyReviewsTheirOwn`, `NobodyIsTakenForAnother`, `PeopleAreRecognised`, `OnlyPeopleAreCompared` | 2 GDS users (`joe`, `joe-developer`) in 6 roles, 2 Entra ID users in 2 roles, 2 accounts, 8 other annotations and none |

The least number of user operations a complete life needs is two (a request and
its review); the third is what disturbs it: a second review, an edit, a
deletion, a Job of the same name. Three are also enough to delete the review of
an approved request, after which it is Pending again. `pruning` has two: with
three, a request can be pruned and made again while its old review, younger than
it was, names it, and `RequestsGetAState` fails as in `early_review`. One restart and two failed
calls, at every point of every interleaving, reach each pair of calls of a
reconcile. One request is enough, as no property relates two of them and they share
only the workers; what a busy worker does to another key is what its own restart
or delay does to this one. More requests, and the recreation of a reviewed one
(four operations), are covered by the theorems. `SYMMETRY` of the reviews is used
in `faults` alone, which checks no liveness. `CHECK_DEADLOCK FALSE`: when users
have done all they do, the system comes to rest.

Two changes of the cache are the least that can leave a gauge counting what is
gone: an object enters a state, is counted, and leaves it. The names of
`identity` are chosen so that each parser could mistake one for another: a GDS
user's name ends in a role's, a session is named like a person, like an address,
an Entra role is named `developer`.

### Where the code does something else than its texts say

Four runs expect a violation:

- `early_review`: the review is created before the request's first List of
  reviews. `calculateState` then keeps the state `""`, `handleState` ignores it,
  and the review controller waits for a state: neither moves again.
- `own_job_conflict`: restart after `Create` of the Job. The request is still
  Approved, its own Job is found, the request becomes Conflicted for good.
- `lost_decision`: a user edits the request between the review controller's List
  and its status update. The update is refused, the refusal logged, the review
  set to Approved. The request stays Pending, and that review is done.
- `forgotten_approval`: the List of reviews fails while an Approved request is
  reconciled; it becomes Pending, and its review, having a state, is done.

The passing runs exclude what leads there: `DecisionIsRecorded` and
`ConflictIsWithAnotherJob` are checked without edits and restarts,
`RequestsGetAState` without early reviews, `ApprovedIsActedOn` without failed
calls. Four more behaviours of this kind follow from a change of one of the
passing configurations:

- A Delete by name removes a younger object that was made under the name after
  the read (request controller 83): `OnlyOldObjectsArePruned` fails in `pruning`
  with `"DeleteRequest"` among the `Disturbances` and `MaxOps = 3`. For reviews
  it needs no user who deletes: a review is pruned, another is made under its
  name, and when the key comes back before the cache has caught up it is the age
  of the pruned one that is looked at (review controller 74-77).
  `OnlyOldObjectsArePruned` excepts a review that is not the one read.
- A Started request is replaced between the Get of its Job and `getJobRequest` in
  the Started case (432): the new one, which nobody reviewed, becomes Complete.
  `ApprovedStatesAreEarned` fails in `faults` with `"DeleteRequest"` and `MaxOps = 4`.
- The leader stops while it sets a Started request Malformed; the next one reads
  the request, still Started, and its Job, which has completed; the late update
  lands; `getJobRequest` reads the request anew, Malformed by now, and Complete
  is written over it (448). `TerminalIsFinal`, which one manager alone
  satisfies, fails with the constants of `handover`; that run checks
  `TerminalIsNeverReopened`, which allows that one overwriting.
- The update of the review fails after that of its request; from then on
  `WasReviewedBy` is true (review controller 399) and the review is left without
  a state. `ReviewsAreAnswered` fails with the constants of `pruning`.

The counters of a request do not always say what their texts in
`internal/metrics/request_vars.go` (17, 24, 115, 122) say. No run is needed to see
it; the properties of `metrics` name the places as their exceptions:

- A request that somebody else deleted between the controller's read and its
  Delete is counted as requeued (88), and logged as finished, and no error is
  returned (89). That the deletion's event queues the name again is not this
  reconcile's doing, and it may come after the reconcile has ended. The review
  controller does the same (81-82). The converse: when the Get of an Approved
  request's Job fails the error is returned (388), for which the key is queued
  again, and no requeue is counted. `RequeuesAreCounted` excepts the two. It asks
  whether an error is returned (`ReturnsError`), never what the queue holds.
- Of a Started request whose Job cannot be read the counter of Malformed is
  looked up, not incremented (427); that of Conflicted is incremented (397) and
  `cmd/init.go` does not register it. `StatesAreCounted` excepts the two.
- The counter of reconciles that succeeded is looked up, not incremented (175).
  Nothing checks it, and `NoRequestReconcileIsCountedTwice` says at most once
  where `ReviewReconcilesAreCountedOnce` says once.

Conflicted requests have no gauge either (`collector.go` 76-93, 123-133);
`GaugesAddUp` leaves them out. The theorems carry the same
restrictions as the runs: `StatesAreCounted`, `RequeuesAreCounted`, `GaugesAddUp` and
`OnlyOldObjectsArePruned` are proved with the exceptions their formulas name, the
theorems of section 4 that have a column *Under* with those conditions.

### Fairness

`Fairness` asks that a worker in the middle of a reconcile goes on (`WF`), that
the watch delivers (`WF` of `Synchronise`), and that a queued key is taken in the
end. The last is `SF`, per key: the work queues are first in, first out, while
the key in the worker's hands makes `PickRequest(n)` disabled again and again.
Nothing is asked of users, of the clock or of Jobs. `ReviewsAreAnswered` and
`OutcomesAreRecorded` are checked without failed calls or restarts: after a
restart between the two writes of a decision, as after a failed second write,
the review stays without a state. `ApprovedIsActedOn` is checked with a restart,
`RequestsGetAState` without resyncs in a system without failures (`answers`) and
with resyncs through a failed call and a restart (`pruning`).

`ResyncFairness` adds that an informer's resync comes round for every object it
holds, and that the clock goes on. The first is the periodic resync of the
library's informers, which `cmd/main.go` leaves at its default. It is weak
fairness of putting a key in the queue that is not in it; that the key is then
taken is `Fairness` again. Failed calls stay bounded.

`CollectorFairSpec` asks that the collector goes on (`WF` of its steps): `Start`
waits for nothing but its ticker.

## 4. Proofs

Theorems hold for every value of the constants that the named assumptions admit.

`JobRequestOperatorProofs` proves, for any finite sets of requests, reviews and
users, any TTL and any bounds, from the assumptions `NamesAssumption` and
`ClusterAssumption`:

| Theorem | Statement |
|---|---|
| `TypeCorrectness` | `Spec => []TypeOK` |
| `SafetyInvariant` | `Spec => []IInv` |
| `ApprovalBeforeJob` | `Spec => []OnlyApprovedRequestsRun` |
| `TerminalStatesAreFinal` | `Spec => TerminalIsFinal` |
| `DecisionsFallOnPending` | `Spec => DecidedWhilePending` |
| `JobsRunOnce` | `Spec => JobRunsOnce` |

None of these but `TypeOK` is inductive: that a Job was approved depends on the
copy the worker holds when it creates it. `IInv` adds, in named parts:

- `KeysOK`: workers hold keys of objects, reviews name requests;
- `VersionsOK`: no copy is of a version yet to come;
- `CopiesOK`: a copy of the stored version is a copy of what is stored, so the
  version check of a status update carries what was seen at the read over to the
  moment of the write;
- `WritesOK`: what each worker may be about to write; decisions are written by
  the review controller alone, and only by another user than the requester;
- `NotTerminalWhileBusy`: a request that is being reconciled is not in a terminal
  state. Only the request controller writes those, and it has one worker. This,
  rather than the version check, is why the Started case, which reads the request
  again, does not overwrite a terminal state;
- `ApprovalsOK`: wherever an approval is relied on it has been given;
- `JobsOK`, `LaunchesOK`: a request whose Job was created has it, by its name.

The proofs go through a small catalogue of what a step can do: to a request
(`RequestSteps`: kept, created, gone, edited, decided, set), to a Job
(`JobSteps`), to a worker (`ReqWorkerChanges`, `RevWorkerChanges`). Each is
proved by cases on the actions; the parts of the invariant then need the
catalogue only. `IInv` is checked by TLC in `faults`.

`LeaderHandoverProofs`, for any number of leaders, from the same assumptions:

| Theorem | Statement |
|---|---|
| `HandoverInvariant` | `HandoverSpec => []HandoverInv` |
| `HandoverTypes` | `HandoverSpec => []HandoverTypeOK` |
| `ApprovalBeforeLateJob` | `HandoverSpec => []OnlyApprovedRequestsRun` |
| `LateJobsRunOnce` | `HandoverSpec => JobRunsOnce` |
| `LateDecisionsFallOnPending` | `HandoverSpec => DecidedWhilePending` |
| `TerminalStatesAreNotReopened` | `HandoverSpec => TerminalIsNeverReopened` |

`IInv` is not invariant here. `NotTerminalWhileBusy` rests on there being one
worker, and a late call is a second one: it sets the request that the next leader
is reconciling Malformed, and `TerminalIsFinal` goes with it. `HandoverInv` keeps
every other part and adds `CallsOK`: a call under way, of the worker or late, is
of a version that was stored, and right about it - what it sets does not reopen a
terminal request, what it decides was Pending, what it relies on was approved. As
versions only grow, a call stays right about its version (`CallsStayRight`); when
it lands the version check lets it through only if that version is still stored.
The two writes that are not checked, `Create` and `Delete`, are covered by the
approval that the Job's uid carries and by the name of the Job.

`ReconcileMetricsProofs`, from the same assumptions:

| Theorem | Statement |
|---|---|
| `CountingIsInvisible` | `MetricsSpec => Spec` |
| `CountsInvariant` | `MetricsSpec => []CountsInv` |
| `MetricsTypes` | `MetricsSpec => []MetricsTypeOK` |
| `ReviewEndsAreCountedOnce` | `MetricsSpec => []ReviewReconcilesAreCountedOnce` |
| `RequestEndsAreNotCountedTwice` | `MetricsSpec => []NoRequestReconcileIsCountedTwice` |
| `WrittenStatesAreCounted` | `MetricsSpec => StatesAreCounted` |
| `ErrorsAreCountedAsRequeues` | `MetricsSpec => RequeuesAreCounted` |

`CountsInv` says what each worker has counted at each of its calls and, before a
status update, what it will count after it: no end yet while the reconcile goes
on, one end and the state about to be written in `reqThen` or `revThen` before the
last call, a requeue with it exactly if an error will be returned: from this
`ErrorsAreCountedAsRequeues` follows by the step that ends the reconcile, with the
two exceptions in the formula. The state is in
`reqThen` but for Malformed of a request held as Started, and every counter but
that of Conflicted is registered: the two exceptions of `StatesAreCounted`.

`UndisturbedProofs`, `DecisionProofs` and `JobRequestLifecycleProofs` prove what
holds under conditions, each an assumption of the theorem. No bound, and no number
of objects, is among them, but for the failed calls and restarts that are zero:

| Theorem | Statement | Under |
|---|---|---|
| `EarnedInvariant` | `Spec => []EarnedInv` | `OnlyOperatorDeletes` |
| `ApprovedStatesFollowApproval` | `Spec => []ApprovedStatesAreEarned` | `OnlyOperatorDeletes` |
| `OnlyTheOldArePruned` | `Spec => OnlyOldObjectsArePruned` | `OnlyOperatorDeletes` |
| `OnlyTheOldAreEverPruned` | `ResyncSpec => OnlyOldObjectsArePruned` | `OnlyOperatorDeletes` |
| `KeptInvariant` | `Spec => []KeptInv` | `CallsSucceed` |
| `RecordsInvariant` | `Spec => []RecordsInv` | `CallsSucceed`, `NobodyEdits`, `TargetsAreThere` |
| `DecisionsAreRecorded` | `Spec => []DecisionIsRecorded` | `CallsSucceed`, `NobodyEdits`, `TargetsAreThere` |
| `ConflictsInvariant` | `Spec => []ConflictsInv` | `CallsSucceed`, `NobodyEdits`, `NoRestarts` |
| `ConflictsAreWithOthers` | `Spec => []ConflictIsWithAnotherJob` | `CallsSucceed`, `NobodyEdits`, `NoRestarts` |
| `LifecycleInvariant` | `Spec => []LifecycleInv` | `CallsSucceed`, `NobodyDeletesJobs` |
| `OperatorFollowsLifecycle` | `Spec => FollowsLifecycle` | `CallsSucceed`, `NobodyDeletesJobs` |

The constants of `faults` and `pruning` meet the first condition, those of
`lifecycle` the second and `NobodyDeletesJobs`, those of `answers` all of them. The
conditions are those of the code, not of the proofs; without them the
properties fail, in the ways section 3 describes:

- `OnlyOperatorDeletes` (users delete no requests; they may delete reviews and
  Jobs): Deletes are by name, and the Started case reads the request again by
  name, so a request that a user replaces is pruned, or completed, for the old
  one. The operator itself deletes only the request it holds. `EarnedInv` says so
  (`HeldIsThere`), and that what a worker is about to do suits the copy it does
  it from (`PlansOK`): it prunes what has expired in that copy, and an outcome is
  written to the request that was approved (`OutcomesOK`).
- `CallsSucceed` (moreover, users delete no reviews, nothing reaches the TTL, no
  call fails): `calculateState` makes a request Pending when its review is gone
  or the List fails. `KeptInv` says that reviews and requests stay, so a decided
  request is written by the worker that holds it alone and not reopened.
- `NobodyEdits`: an edit between a read and a status update makes the update
  refused, and the refusal is only logged: the decision is lost, or the start of
  a Job is not written and the next reconcile finds that Job in conflict. With
  `TargetsAreThere` a Pending request is refused for nothing but its requester,
  so that the same holds of the other controller (`RecordsInv`).
- `NoRestarts`: a stop between `Create` and `setState` has that effect too
  (`ConflictsInv`).
- `NobodyDeletesJobs`: the lifecycle has one Job for a request, which stays.

The refinement is proved in three steps. A step writes one request, or one Job,
or neither (`OneWriteAtATime`); what it does to that request is a move of its
phase (`PhasesMove`), what it does to that Job a move of its run (`RunsMove`), from
`LifecycleInv`; and each such move is an action of `JobRequestLifecycle` with the
rest unchanged, or none at all (`LifecycleStepRefines`). The steps in which the code
differs from the abstract specification at first sight are the outcome, which is
computed from a Job read two calls earlier (it is still that Job's, as outcomes
are final), and `Started`, written after the Job exists, from a copy that is Approved.

`MetricCollectorProofs`, for any finite sets of objects and any bounds, from
`NamesAssumption` and `CollectorAssumption`:

| Theorem | Statement |
|---|---|
| `CollectorTypes` | `CollectorSpec => []CollectorTypeOK` |
| `GaugesSayWhatWasListed` | `CollectorSpec => []GaugesTellWhatWasListed` |
| `GaugesAlwaysAddUp` | `CollectorSpec => []GaugesAddUp` |

The second is inductive once types are known: the lists do not change while
gauges are set, and each gauge leaves the set of those to be set as it gets its
value. What it needs beyond that is that every gauge's state is in the tally,
even if no object is in it, which is why the tally starts with all of them. The
third follows from it by counting: the sets of the objects in one state are
disjoint, and there is one for each state with a gauge (`OneStateMore`).

`UserIdentityProofs`, for any people, roles, accounts and sessions, from
`WordsAssumption` and `PeopleAssumption` (the last theorem, from `OthersAssumption` too):

| Theorem | Statement |
|---|---|
| `GdsUsersAreIdentified`, `EntraUsersAreIdentified` | what `ParseUserIdentityFromARN` makes of the ARN of each kind of person |
| `IdentityTypes` | `IdentitySpec => []IdentityTypeOK` |
| `NoOneReviewsTheirOwn` | `IdentitySpec => []NobodyReviewsTheirOwn` |
| `NoOneIsTakenForAnother` | `IdentitySpec => []NobodyIsTakenForAnother` |
| `EveryoneIsRecognised` | `IdentitySpec => []PeopleAreRecognised` |
| `OthersAreNeverCompared` | `IdentitySpec => []OnlyPeopleAreCompared` |

The argument: a person's annotation parses, and the user name is the person
(`PeopleHaveTheirNames`, from the two theorems about the parse), so comparing
names compares persons. A state machine invariant in three parts carries that
from the creation of the two objects to the decision. `OthersAssumption` says what
it is to be nobody: an annotation in neither of the two formats. That such
annotations are not parsed is a lemma; the theorem adds that there is no way around
`ValidateRequestedBy` and `ValidateReviewedBy` in whatever order the controllers
come to the two objects.

Only model-checked: the liveness properties, which need `ENABLED`:
`RequestsGetAState`, `ApprovedIsActedOn`, `ReviewsAreAnswered`,
`OutcomesAreRecorded`, `OldRequestsArePruned`, `OldReviewsArePruned` and
`GaugesConverge`. Every other property that a passing run checks is proved, and
every inductive invariant that is proved is checked by TLC in the run of the
properties that rest on it: `IInv` and `EarnedInv` in `faults`, `LifecycleInv`
(which contains `KeptInv`) in `lifecycle`, `RecordsInv` and `ConflictsInv` in
`answers`, `HandoverInv` in `handover`, `CountsInv` in `metrics`.

## 5. Not modelled

- `internal/controller/reconciler.go`: log lines only.
- `api/v1/zz_generated.deepcopy.go`, `groupversion_info.go`: generated copies and
  registration.
- The flags of `cmd/main.go`, its TLS options, webhook server and probes: they
  are set once, before the manager starts.
- Labels of metrics and the values of the histogram, though two hazards are
  about them: series of deleted objects stay, and a rejected request is observed
  at each reconcile.
- How the admission policies match resources; manifests, CRDs, tests, CI.
- Annotations that are edited after an object is created.

## 6. Plan

Done: the API types, the identity of users, the cluster, both controllers, their
composition, the abstract lifecycle, the hand-over between managers, resyncs, the
collector and the counters; every safety and action property of the passing runs
proved, and the refinement of the lifecycle. Left, in this order:

1. The invariant of one manager under `ResyncSpec`, whole: so far only `EarnedInv`
   is shown to survive the resyncs.
2. `ApprovedStatesAreEarned` and `OnlyOldObjectsArePruned` of `HandoverSpec`, whose
   late `Delete` goes by name, or the condition under which they hold.
3. What holds of the lifecycle when calls do fail: an abstract specification with
   the step back from Approved to Pending, implemented without `CallsSucceed`.
