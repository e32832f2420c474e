----------------------------- MODULE Undisturbed -----------------------------
(***************************************************************************)
(* What JobRequestOperator keeps to when less can happen to it than in     *)
(* general: nobody else deletes requests, or nothing is deleted and no API *)
(* call fails.  Four of its properties need such conditions.  Here are the *)
(* conditions, as assumptions on the constants, and the inductive          *)
(* invariants that explain the properties, in named parts.                 *)
(***************************************************************************)
EXTENDS JobRequestOperator

(* Only the operator deletes requests, when they are old.                   *)
OnlyOperatorDeletes == "DeleteRequest" \notin Disturbances

(* No request or review is deleted, by users or for its age, and every API  *)
(* call succeeds.                                                            *)
CallsSucceed ==
    /\ Disturbances \cap {"DeleteRequest", "DeleteReview"} = {}
    /\ MaxClock < ResourceTtl
    /\ MaxFaults = 0

NobodyEdits == "EditRequest" \notin Disturbances
NobodyDeletesJobs == "DeleteJob" \notin Disturbances
TargetsAreThere == Targets \subseteq {"Found"}
NoRestarts == MaxCrashes = 0

-----------------------------------------------------------------------------
(* In general: what the copies have in common with what is stored.          *)

(* A copy of the stored version of a request is what is stored, but for the *)
(* name of the Job that has just been made.                                 *)
HeldCopyOK ==
    (ReqBusy /\ Current(reqWorker.obj, requests[reqWorker.key])) =>
        reqWorker.obj =
            IF reqWorker.pc = "SetState" /\ reqWorker.to = "Started"
            THEN [requests[reqWorker.key] EXCEPT !.jobName = reqWorker.key]
            ELSE requests[reqWorker.key]

(* Copies of the same review, of whatever version, agree on what never      *)
(* changes.                                                                 *)
SameReview(copy, stored) ==
    /\ copy.uid <= stored.rv
    /\ (Exists(copy) /\ copy.uid = stored.uid)
          => copy.created = stored.created /\ copy.request = stored.request

ReviewCopiesOK ==
    /\ \A r \in Reviews : /\ reviews[r].uid <= reviews[r].rv
                          /\ SameReview(revCache[r], reviews[r])
    /\ revWorker.pc # "Idle" => SameReview(revWorker.obj, reviews[revWorker.key])

(* What is about to be done suits the copy it is done from.                 *)
PlansOK ==
    /\ (ReqBusy /\ reqWorker.pc = "Delete") => Expired(reqWorker.obj)
    /\ revWorker.pc = "Delete" => Expired(revWorker.obj)
    /\ reqWorker.pc = "GetJob" => reqWorker.obj.state \in {"Approved", "Started"}
    /\ reqWorker.pc = "GetAgain" => reqWorker.obj.state = "Started"
    /\ (reqWorker.pc = "SetState" /\ reqWorker.to \in {"Started", "Conflicted"})
          => reqWorker.obj.state = "Approved"

(* What has a state is stored.                                              *)
StoredStatesOK ==
    /\ \A n \in Requests : requests[n].state # "" => Exists(requests[n])
    /\ \A r \in Reviews : reviews[r].state # "" => Exists(reviews[r])

-----------------------------------------------------------------------------
(* OnlyOperatorDeletes: the request under reconciliation stays where it is, *)
(* so the copy that is read again is of the same request.                   *)

HeldIsThere ==
    ReqBusy => /\ Exists(requests[reqWorker.key])
               /\ requests[reqWorker.key].uid = reqWorker.obj.uid
               /\ requests[reqWorker.key].created = reqWorker.obj.created
               /\ requests[reqWorker.key].by = reqWorker.obj.by

OutcomesOK ==
    (reqWorker.pc = "SetState" /\ reqWorker.to \in {"Complete", "Failed"})
        => <<reqWorker.key, reqWorker.obj.uid>> \in approved

EarnedInv ==
    /\ IInv /\ HeldCopyOK /\ ReviewCopiesOK /\ PlansOK /\ StoredStatesOK
    /\ HeldIsThere /\ OutcomesOK /\ ApprovedStatesAreEarned

-----------------------------------------------------------------------------
(* CallsSucceed. *)

(* A reviewed request has its review, and every copy of a review is of the  *)
(* one that is stored.                                                      *)
ReviewsAreThere ==
    /\ \A r \in Reviews : Exists(revCache[r]) => revCache[r].uid = reviews[r].uid
    /\ revWorker.pc # "Idle" => /\ Exists(revWorker.obj)
                                /\ revWorker.obj.uid = reviews[revWorker.key].uid
    /\ \A n \in Requests :
          requests[n].state \in {"Approved", "Rejected", "Started"} => Reviewed(n)

(* Once a request is decided nobody but the worker that holds it writes its *)
(* state, and it does not go back to Pending.                               *)
HeldStateOK ==
    /\ (ReqBusy /\ reqWorker.obj.state \notin {"", "Pending"})
          => requests[reqWorker.key].state = reqWorker.obj.state
    /\ (reqWorker.pc = "SetState" /\ reqWorker.to = "Pending")
          => reqWorker.obj.state \in {"", "Pending"}
    /\ (reqWorker.pc = "SetState" /\ reqWorker.to \in {"Complete", "Failed"})
          => reqWorker.obj.state = "Started"

JobsHaveTheirRequests ==
    \A n \in Requests :
        jobs[n].owner # 0 => Exists(requests[n]) /\ jobs[n].owner = requests[n].uid

KeptInv ==
    /\ EarnedInv /\ ReviewsAreThere /\ HeldStateOK /\ JobsHaveTheirRequests
    /\ reqWorker.pc # "Delete" /\ revWorker.pc # "Delete"

(* With NobodyDeletesJobs: a Started request has its Job, and the outcome   *)
(* that is about to be written is the outcome of that Job.                  *)
LifecycleInv ==
    /\ KeptInv
    /\ \A n \in Requests :
          requests[n].state = "Started" => jobs[n].owner = requests[n].uid
    /\ (reqWorker.pc = "SetState" /\ reqWorker.to = "Started")
          => jobs[reqWorker.key].owner = reqWorker.obj.uid
    /\ (reqWorker.pc \in {"GetAgain", "SetState"} /\ reqWorker.to \in {"Complete", "Failed"})
          => jobs[reqWorker.key].phase = reqWorker.to

(* With NobodyEdits and TargetsAreThere: nothing comes between the read of  *)
(* a Pending request and the write of its decision ...                      *)
DecidingIsCurrent == Deciding => Current(revWorker.req, requests[revWorker.obj.request])

(* ... only a decision names a review ...                                   *)
DecisionsName ==
    \A n \in Requests :
        requests[n].reviewName # NoName => requests[n].state \notin {"", "Pending"}

RefusalsOK ==
    (reqWorker.pc = "SetState" /\ reqWorker.to = "Malformed")
        => \/ reqWorker.obj.state \in {"Approved", "Started"}
           \/ ~Identified(reqWorker.obj.by)

(* ... and a review says it decided after its request has named it.         *)
AnswersOK ==
    /\ (revWorker.pc = "SetState" /\ revWorker.to \in Decisions)
          => requests[revWorker.obj.request].reviewName = revWorker.key
    /\ \A r \in Reviews :
          reviews[r].state \in Decisions => requests[reviews[r].request].reviewName = r

RecordsInv == KeptInv /\ DecidingIsCurrent /\ DecisionsName /\ RefusalsOK /\ AnswersOK

(* With NobodyEdits and NoRestarts: the write that follows the creation of  *)
(* a Job is not refused ...                                                 *)
HeldIsCurrent ==
    (ReqBusy /\ reqWorker.obj.state \notin {"", "Pending"})
        => Current(reqWorker.obj, requests[reqWorker.key])

(* ... so a Job whose request does not say it was started is one the worker *)
(* is about to say it of.                                                   *)
StartsAreWritten ==
    \A n \in Requests :
        (jobs[n].owner # 0
            /\ requests[n].state \notin {"Started", "Complete", "Failed", "Malformed"})
          => reqWorker.key = n /\ reqWorker.pc = "SetState" /\ reqWorker.to = "Started"

ConflictsInv == KeptInv /\ HeldIsCurrent /\ StartsAreWritten
=============================================================================
