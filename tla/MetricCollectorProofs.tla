------------------------ MODULE MetricCollectorProofs ------------------------
(***************************************************************************)
(* What the gauges say, proved for any requests and reviews and any bounds.*)
(***************************************************************************)
EXTENDS MetricCollector, FiniteSetTheorems, TLAPS

(* Counting the objects in a state gives a number.                          *)
LEMMA CountIsNat ==
    ASSUME NEW names, IsFiniteSet(names), NEW states, DOMAIN states = names, NEW s
    PROVE  Count(states, s) \in Nat
<1>1. {o \in names : states[o] = s} \subseteq names
  OBVIOUS
<1>2. IsFiniteSet({o \in names : states[o] = s})
  BY <1>1, FS_Subset
<1> QED
  BY <1>2, FS_CardinalityType DEF Count

(* The variables of the collector have their types: in particular a gauge   *)
(* is never negative, and none but those of CollectorCustomMetrics is set.  *)
THEOREM CollectorTypes == CollectorSpec => []CollectorTypeOK
<1> USE NamesAssumption, CollectorAssumption DEF NamesAssumption, CollectorAssumption
<1>1. CollectorInit => CollectorTypeOK
  BY DEF CollectorInit, CollectorTypeOK, RequestsSeen, ReviewsSeen, JobRequestStates,
         JobRequestReviewStates
<1>2. CollectorTypeOK /\ [CollectorNext]_collectorVars => CollectorTypeOK'
  <2> SUFFICES ASSUME CollectorTypeOK, [CollectorNext]_collectorVars
               PROVE  CollectorTypeOK'
    OBVIOUS
  <2> USE DEF CollectorTypeOK, cache, collector, gauges, counters
  <2>1. CASE ListRequests
    BY <2>1 DEF ListRequests, ListSucceeds, ListFails
  <2>2. CASE ListReviews
    BY <2>2 DEF ListReviews, ListSucceeds, ListFails, ToSet
  <2>3. CASE CollectionEnds
    BY <2>3 DEF CollectionEnds, Emitted
  <2>4. CASE \E s \in RequestGauges : SetRequestGauge(s)
    <3>1. PICK s \in RequestGauges : SetRequestGauge(s)
      BY <2>4
    <3>2. Count(requestList, s) \in Nat
      BY CountIsNat DEF RequestsSeen
    <3> QED
      BY <3>1, <3>2 DEF SetRequestGauge
  <2>5. CASE \E s \in ReviewGauges : SetReviewGauge(s)
    <3>1. PICK s \in ReviewGauges : SetReviewGauge(s)
      BY <2>5
    <3>2. Count(reviewList, s) \in Nat
      BY CountIsNat DEF ReviewsSeen
    <3> QED
      BY <3>1, <3>2 DEF SetReviewGauge
  <2>6. CASE \E n \in Requests, s \in JobRequestStates \cup {Absent} : RequestChanges(n, s)
    BY <2>6 DEF RequestChanges, Change, RequestsSeen
  <2>7. CASE \E r \in Reviews, s \in JobRequestReviewStates \cup {Absent} : ReviewChanges(r, s)
    BY <2>7 DEF ReviewChanges, Change, ReviewsSeen
  <2>8. CASE NewManager
    BY <2>8 DEF NewManager, RequestsSeen, ReviewsSeen
  <2>9. CASE UNCHANGED collectorVars
    BY <2>9 DEF collectorVars
  <2> QED
    BY <2>1, <2>2, <2>3, <2>4, <2>5, <2>6, <2>7, <2>8, <2>9
       DEF CollectorNext, CollectorStep, CacheStep
<1> QED
  BY <1>1, <1>2, PTL DEF CollectorSpec

(* Every gauge that a collection has set says what that collection listed.  *)
THEOREM GaugesSayWhatWasListed == CollectorSpec => []GaugesTellWhatWasListed
<1>1. CollectorInit => GaugesTellWhatWasListed
  BY DEF CollectorInit, GaugesTellWhatWasListed
<1>2. CollectorTypeOK /\ GaugesTellWhatWasListed /\ [CollectorNext]_collectorVars
        => GaugesTellWhatWasListed'
  <2> SUFFICES ASSUME CollectorTypeOK, GaugesTellWhatWasListed,
                      [CollectorNext]_collectorVars
               PROVE  GaugesTellWhatWasListed'
    OBVIOUS
  <2> USE DEF GaugesTellWhatWasListed
  <2>1. CASE ListRequests
    BY <2>1 DEF ListRequests, ListFails
  \* The maps that are tallied into start with every state that has a gauge.
  <2>2. CASE ListReviews
    <3>1. /\ ToSet(RequestGauges, Tallied(InitRequestStates, requestList)) = RequestGauges
          /\ ToSet(ReviewGauges, Tallied(InitReviewStates, cachedReviews)) = ReviewGauges
      BY DEF ToSet, Tallied, InitRequestStates, InitReviewStates
    <3> QED
      BY <2>2, <3>1 DEF ListReviews, ListFails
  <2>3. CASE CollectionEnds
    BY <2>3 DEF CollectionEnds
  <2>4. CASE \E s \in RequestGauges : SetRequestGauge(s)
    <3>1. PICK s \in RequestGauges : SetRequestGauge(s)
      BY <2>4
    <3>2. \A t \in RequestGauges \ unsetRequests' : requestGauges'[t] = Count(requestList, t)
      BY <3>1 DEF SetRequestGauge, CollectorTypeOK
    <3> QED
      BY <3>1, <3>2 DEF SetRequestGauge
  <2>5. CASE \E s \in ReviewGauges : SetReviewGauge(s)
    <3>1. PICK s \in ReviewGauges : SetReviewGauge(s)
      BY <2>5
    <3>2. \A t \in ReviewGauges \ unsetReviews' : reviewGauges'[t] = Count(reviewList, t)
      BY <3>1 DEF SetReviewGauge, CollectorTypeOK
    <3> QED
      BY <3>1, <3>2 DEF SetReviewGauge
  <2>6. CASE CacheStep
    BY <2>6 DEF CacheStep, RequestChanges, ReviewChanges, collector, gauges
  <2>7. CASE NewManager
    BY <2>7 DEF NewManager
  <2>8. CASE UNCHANGED collectorVars
    BY <2>8 DEF collectorVars, collector, gauges
  <2> QED
    BY <2>1, <2>2, <2>3, <2>4, <2>5, <2>6, <2>7, <2>8
       DEF CollectorNext, CollectorStep
<1> QED
  BY <1>1, <1>2, CollectorTypes, PTL DEF CollectorSpec

(* The objects that are in one of some states.                              *)
InStates(states, some) == {o \in DOMAIN states : states[o] \in some}

(* With one state more there are more, by those in that state.              *)
LEMMA OneStateMore ==
    ASSUME NEW names, IsFiniteSet(names), NEW states, DOMAIN states = names,
           NEW some, NEW s, s \notin some
    PROVE  /\ Cardinality(InStates(states, some)) \in Nat
           /\ Cardinality(InStates(states, some \cup {s}))
                = Cardinality(InStates(states, some)) + Count(states, s)
<1> DEFINE old == InStates(states, some)
           new == {o \in DOMAIN states : states[o] = s}
<1>1. IsFiniteSet(old) /\ IsFiniteSet(new)
  <2>1. old \subseteq names /\ new \subseteq names
    BY DEF InStates
  <2> QED
    BY <2>1, FS_Subset
<1>2. InStates(states, some \cup {s}) = old \cup new /\ old \cap new = {}
  BY DEF InStates
<1>3. Cardinality(old) \in Nat /\ Cardinality(new) \in Nat
  BY <1>1, FS_CardinalityType
<1>4. Count(states, s) = Cardinality(new)
  BY DEF Count
<1> HIDE DEF old, new
<1>5. Cardinality(old \cup new) = Cardinality(old) + Cardinality(new) - Cardinality(old \cap new)
  BY <1>1, FS_Union
<1>6. Cardinality(old \cap new) = 0
  BY <1>2, FS_EmptySet
<1>7. Cardinality(old \cup new) = Cardinality(old) + Cardinality(new)
  BY <1>3, <1>5, <1>6
<1> QED
  BY <1>2, <1>3, <1>4, <1>7 DEF old

(* The states are disjoint, and they are all there are but those without a  *)
(* gauge: once every gauge says what was listed they add up.                *)
LEMMA WhatWasListedAddsUp ==
    ASSUME CollectorTypeOK, GaugesTellWhatWasListed
    PROVE  GaugesAddUp
<1> DEFINE few1 == {"Pending"}
           few2 == few1 \cup {"Approved"}
           few3 == few2 \cup {"Rejected"}
           few4 == few3 \cup {"Started"}
           few5 == few4 \cup {"Complete"}
           few6 == few5 \cup {"Failed"}
           few7 == few6 \cup {"Malformed"}
           Size(some) == Cardinality(InStates(requestList, some))
<1> SUFFICES ASSUME Emitted PROVE GaugesAddUp
  BY DEF GaugesAddUp
<1>1. DOMAIN requestList = Requests /\ IsFiniteSet(Requests)
  BY NamesAssumption DEF CollectorTypeOK, RequestsSeen, NamesAssumption
<1>2. \A s \in RequestGauges : requestGauges[s] = Count(requestList, s)
  BY DEF Emitted, GaugesTellWhatWasListed
<1>3. Size({}) = 0
  BY FS_EmptySet DEF InStates
<1>4. Size(few1) = Count(requestList, "Pending")
  <2>1. Size({} \cup {"Pending"}) = Size({}) + Count(requestList, "Pending")
    BY <1>1, OneStateMore
  <2>2. Count(requestList, "Pending") \in Nat
    BY <1>1, CountIsNat
  <2> QED
    BY <1>3, <2>1, <2>2
<1>5. Size(few2) = Size(few1) + Count(requestList, "Approved")
  BY <1>1, OneStateMore
<1>6. Size(few3) = Size(few2) + Count(requestList, "Rejected")
  BY <1>1, OneStateMore
<1>7. Size(few4) = Size(few3) + Count(requestList, "Started")
  BY <1>1, OneStateMore
<1>8. Size(few5) = Size(few4) + Count(requestList, "Complete")
  BY <1>1, OneStateMore
<1>9. Size(few6) = Size(few5) + Count(requestList, "Failed")
  BY <1>1, OneStateMore
<1>10. Size(few7) = Size(few6) + Count(requestList, "Malformed")
  BY <1>1, OneStateMore
<1>11. InStates(requestList, few7)
         = {n \in Requests : requestList[n] \notin {Absent, "", "Conflicted"}}
  BY DEF InStates, CollectorTypeOK, RequestsSeen, JobRequestStates, Absent
<1> HIDE DEF few2, few3, few4, few5, few6, few7
<1> QED
  BY <1>2, <1>4, <1>5, <1>6, <1>7, <1>8, <1>9, <1>10, <1>11
  DEF RequestGauges, GaugesAddUp

(* When a collection is through, the gauges add up to the requests that     *)
(* were listed in a state that has one, however many there are.             *)
THEOREM GaugesAlwaysAddUp == CollectorSpec => []GaugesAddUp
  BY WhatWasListedAddsUp, CollectorTypes, GaugesSayWhatWasListed, PTL
=============================================================================
