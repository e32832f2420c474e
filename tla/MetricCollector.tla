--------------------------- MODULE MetricCollector ---------------------------
(***************************************************************************)
(* MetricCollector: every Interval it lists the JobRequests and the        *)
(* JobRequestReviews in the manager's cache and sets, for each state, a    *)
(* gauge to the number of them in that state.                              *)
(*                                                                         *)
(* The two Lists see the cache at two moments, either can fail, and the    *)
(* gauges are set one after the other, in no fixed order, while Prometheus *)
(* may read them.                                                          *)
(***************************************************************************)
EXTENDS JobRequestAPI

CONSTANTS
    MaxChanges,   \* bound on the changes the cache sees
    MaxFailures,  \* bound on the Lists that fail
    MaxRestarts   \* bound on the restarts of the manager

ASSUME CollectorAssumption == {MaxChanges, MaxFailures, MaxRestarts} \subseteq Nat

(* The states that have a gauge (CollectorCustomMetrics).                   *)
RequestGauges ==
    {"Pending", "Approved", "Rejected", "Started", "Complete", "Failed", "Malformed"}
ReviewGauges ==
    {"Approved", "Rejected", "JobRequestMalformed", "JobRequestNotFound", "Conflict"}

Absent == "None"
RequestsSeen == [Requests -> JobRequestStates \cup {Absent}]
ReviewsSeen == [Reviews -> JobRequestReviewStates \cup {Absent}]

VARIABLES
    cachedRequests,  \* the state of each request in the cache
    cachedReviews,
    pc,              \* what the collector does next
    requestList,     \* what its last List of requests returned
    reviewList,
    unsetRequests,   \* the request gauges it has still to set
    unsetReviews,
    requestGauges,   \* what the gauges say
    reviewGauges,
    changes, failures, restarts

cache == <<cachedRequests, cachedReviews>>
collector == <<pc, requestList, reviewList, unsetRequests, unsetReviews>>
gauges == <<requestGauges, reviewGauges>>
counters == <<changes, failures, restarts>>
collectorVars == <<cache, collector, gauges, counters>>

CollectorTypeOK ==
    /\ cachedRequests \in RequestsSeen /\ cachedReviews \in ReviewsSeen
    /\ pc \in {"Waiting", "ListReviews", "Emit"}
    /\ requestList \in RequestsSeen /\ reviewList \in ReviewsSeen
    /\ unsetRequests \subseteq RequestGauges /\ unsetReviews \subseteq ReviewGauges
    /\ requestGauges \in [RequestGauges -> Nat]
    /\ reviewGauges \in [ReviewGauges -> Nat]
    /\ changes \in 0..MaxChanges
    /\ failures \in 0..MaxFailures
    /\ restarts \in 0..MaxRestarts

CollectorInit ==
    /\ cachedRequests = [n \in Requests |-> Absent]
    /\ cachedReviews = [r \in Reviews |-> Absent]
    /\ pc = "Waiting"
    /\ requestList = cachedRequests /\ reviewList = cachedReviews
    /\ unsetRequests = {} /\ unsetReviews = {}
    /\ requestGauges = [s \in RequestGauges |-> 0]
    /\ reviewGauges = [s \in ReviewGauges |-> 0]
    /\ changes = 0 /\ failures = 0 /\ restarts = 0

-----------------------------------------------------------------------------
(* The cache.  An informer skips versions it has not delivered, so a request *)
(* it holds can go from any state to any other.                             *)

Change == changes < MaxChanges /\ changes' = changes + 1

RequestChanges(n, state) ==
    /\ Change
    /\ cachedRequests' = [cachedRequests EXCEPT ![n] = state]
    /\ UNCHANGED <<cachedReviews, collector, gauges, failures, restarts>>

ReviewChanges(r, state) ==
    /\ Change
    /\ cachedReviews' = [cachedReviews EXCEPT ![r] = state]
    /\ UNCHANGED <<cachedRequests, collector, gauges, failures, restarts>>

-----------------------------------------------------------------------------
(* The collector. *)

Count(states, s) == Cardinality({o \in DOMAIN states : states[o] = s})

(* The states that a tally has a number for: those it starts with, with     *)
(* zero, and those of the objects in the list.                              *)
SlipNothingToStartWith == {}
InitRequestStates == RequestGauges
InitReviewStates == ReviewGauges

Listed(states) == {states[o] : o \in DOMAIN states} \ {Absent}
Tallied(initial, states) == initial \cup Listed(states)

(* The gauges to set for the states in a tally: a state that has none is    *)
(* passed over.                                                             *)
SlipNoDefaultCase(gaugeStates, tallied) == tallied
ToSet(gaugeStates, tallied) == gaugeStates \cap tallied

ListSucceeds == UNCHANGED failures

(* A List that fails ends the collection: no gauge is touched.              *)
ListFails ==
    /\ failures < MaxFailures /\ failures' = failures + 1
    /\ pc' = "Waiting"

(* The ticker fires: listRequests.                                          *)
ListRequests ==
    /\ pc = "Waiting"
    /\ \/ ListSucceeds /\ requestList' = cachedRequests /\ pc' = "ListReviews"
       \/ ListFails /\ UNCHANGED requestList
    /\ UNCHANGED <<cache, reviewList, unsetRequests, unsetReviews, gauges, changes, restarts>>

ListReviews ==
    /\ pc = "ListReviews"
    /\ \/ /\ ListSucceeds /\ reviewList' = cachedReviews /\ pc' = "Emit"
          /\ unsetRequests' = ToSet(RequestGauges, Tallied(InitRequestStates, requestList))
          /\ unsetReviews' = ToSet(ReviewGauges, Tallied(InitReviewStates, cachedReviews))
       \/ ListFails /\ UNCHANGED <<reviewList, unsetRequests, unsetReviews>>
    /\ UNCHANGED <<cache, requestList, gauges, changes, restarts>>

(* emitRequestMetrics ranges over a map: the order is any.                  *)
SetRequestGauge(s) ==
    /\ pc = "Emit" /\ s \in unsetRequests
    /\ requestGauges' = [requestGauges EXCEPT ![s] = Count(requestList, s)]
    /\ unsetRequests' = unsetRequests \ {s}
    /\ UNCHANGED <<cache, pc, requestList, reviewList, unsetReviews, reviewGauges, counters>>

SlipSetFromTheCache(s) ==
    /\ pc = "Emit" /\ unsetRequests = {} /\ s \in unsetReviews
    /\ reviewGauges' = [reviewGauges EXCEPT ![s] = Count(cachedReviews, s)]
    /\ unsetReviews' = unsetReviews \ {s}
    /\ UNCHANGED <<cache, pc, requestList, reviewList, unsetRequests, requestGauges, counters>>

(* emitReviewMetrics, after the gauges of requests.                         *)
SetReviewGauge(s) ==
    /\ pc = "Emit" /\ unsetRequests = {} /\ s \in unsetReviews
    /\ reviewGauges' = [reviewGauges EXCEPT ![s] = Count(reviewList, s)]
    /\ unsetReviews' = unsetReviews \ {s}
    /\ UNCHANGED <<cache, pc, requestList, reviewList, unsetRequests, requestGauges, counters>>

Emitted == pc = "Emit" /\ unsetRequests = {} /\ unsetReviews = {}

(* collect returns, and Start waits for the next tick.                      *)
CollectionEnds ==
    /\ Emitted
    /\ pc' = "Waiting"
    /\ UNCHANGED <<cache, requestList, reviewList, unsetRequests, unsetReviews, gauges, counters>>

(* A new manager: its gauges say zero until its first collection, one       *)
(* Interval later, and its cache holds what there is.                       *)
NewManager ==
    /\ restarts < MaxRestarts /\ restarts' = restarts + 1
    /\ pc' = "Waiting"
    /\ requestList' = [n \in Requests |-> Absent] /\ reviewList' = [r \in Reviews |-> Absent]
    /\ unsetRequests' = {} /\ unsetReviews' = {}
    /\ requestGauges' = [s \in RequestGauges |-> 0]
    /\ reviewGauges' = [s \in ReviewGauges |-> 0]
    /\ UNCHANGED <<cache, changes, failures>>

CollectorStep ==
    \/ ListRequests \/ ListReviews \/ CollectionEnds
    \/ \E s \in RequestGauges : SetRequestGauge(s)
    \/ \E s \in ReviewGauges : SetReviewGauge(s)

CacheStep ==
    \/ \E n \in Requests, s \in JobRequestStates \cup {Absent} : RequestChanges(n, s)
    \/ \E r \in Reviews, s \in JobRequestReviewStates \cup {Absent} : ReviewChanges(r, s)

CollectorNext == CollectorStep \/ CacheStep \/ NewManager

CollectorSpec == CollectorInit /\ [][CollectorNext]_collectorVars

(* The ticker goes on firing, and a collection goes on to its end.          *)
CollectorFairSpec == CollectorSpec /\ WF_collectorVars(CollectorStep)

-----------------------------------------------------------------------------
(* A gauge that a collection has set says what the collection listed; when  *)
(* it is through every gauge does.  None keeps what an earlier collection   *)
(* said, that of a state no object is in any more included, and none shows  *)
(* what happened after the List (initRequestStateMap, initReviewStateMap,   *)
(* emitRequestMetrics, emitReviewMetrics).                                  *)
GaugesTellWhatWasListed ==
    pc = "Emit" =>
        /\ \A s \in RequestGauges \ unsetRequests : requestGauges[s] = Count(requestList, s)
        /\ \A s \in ReviewGauges \ unsetReviews : reviewGauges[s] = Count(reviewList, s)

(* Once a collection is through, the gauges together count each request    *)
(* that has a state once, whatever state it was in when an earlier          *)
(* collection counted it; all but those Conflicted, which have no gauge     *)
(* (tallyResourceState, initRequestStateMap, emitRequestMetrics).           *)
GaugesAddUp ==
    Emitted =>
        requestGauges["Pending"] + requestGauges["Approved"] + requestGauges["Rejected"]
          + requestGauges["Started"] + requestGauges["Complete"] + requestGauges["Failed"]
          + requestGauges["Malformed"]
        = Cardinality({n \in Requests : requestList[n] \notin {Absent, "", "Conflicted"}})

(* When nothing changes any more, the gauges come to say what is in the     *)
(* cache, through failed Lists and restarts (Start, collect).               *)
GaugesConverge ==
    <>[](/\ \A s \in RequestGauges : requestGauges[s] = Count(cachedRequests, s)
         /\ \A s \in ReviewGauges : reviewGauges[s] = Count(cachedReviews, s))
=============================================================================
