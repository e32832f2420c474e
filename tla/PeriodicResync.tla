--------------------------- MODULE PeriodicResync ---------------------------
(***************************************************************************)
(* The operator over a long time: the informers' resync gives the          *)
(* controllers every object again, over and over, and objects grow old.    *)
(* Without it nothing queues an object that has passed its TTL, and        *)
(* nothing brings back a key whose reconcile dropped it.                   *)
(*                                                                         *)
(* JobRequestOperator bounds its resyncs by a counter.  Here they never    *)
(* end, which is what liveness can rest on.                                *)
(***************************************************************************)
EXTENDS JobRequestOperator

(* The informer of JobRequests hands an object it holds to the queue.       *)
RequeueRequest(n) ==
    /\ Exists(requests[n]) /\ n \notin reqQueue
    /\ reqQueue' = reqQueue \cup {n}
    /\ UNCHANGED <<store, clock, revQueue, revCache, ops, faults, crashes, resyncs,
                   workers, history>>

RequeueReview(r) ==
    /\ Exists(revCache[r]) /\ r \notin revQueue
    /\ revQueue' = revQueue \cup {r}
    /\ UNCHANGED <<store, clock, reqQueue, revCache, ops, faults, crashes, resyncs,
                   workers, history>>

TimePasses == Tick /\ UNCHANGED workers /\ Observe

ResyncNext ==
    \/ Next
    \/ \E n \in Requests : RequeueRequest(n)
    \/ \E r \in Reviews : RequeueReview(r)

(* A resync comes round for every object, and time goes on.                 *)
ResyncFairness ==
    /\ \A n \in Requests : WF_vars(RequeueRequest(n))
    /\ \A r \in Reviews : WF_vars(RequeueReview(r))
    /\ WF_vars(TimePasses)

ResyncSpec == Init /\ [][ResyncNext]_vars /\ Fairness /\ ResyncFairness

-----------------------------------------------------------------------------
(* It grows old before the clock stops.                                     *)
GrowsOld(object) == Exists(object) /\ object.created + ResourceTtl <= MaxClock

(* Every request that reaches the TTL is removed, whatever its state and    *)
(* through failed reads and Deletes (Reconcile of the JobRequest            *)
(* controller: the age is looked at before the state).                      *)
OldRequestsArePruned == \A n \in Requests : GrowsOld(requests[n]) ~> ~GrowsOld(requests[n])

(* The same of reviews, which are seen through the cache.                   *)
OldReviewsArePruned == \A r \in Reviews : GrowsOld(reviews[r]) ~> ~GrowsOld(reviews[r])
=============================================================================
