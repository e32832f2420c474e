---------------------------- MODULE JobRequestAPI ----------------------------
(***************************************************************************)
(* The api/v1 types: what a JobRequest, a JobRequestReview and the Job     *)
(* made for a request look like to the operator, and the predicates        *)
(* api/v1 defines on them.                                                 *)
(*                                                                         *)
(* An object is a record.  uid = 0 says that no object of that name is     *)
(* stored.  rv is the resourceVersion: it grows with every write of the    *)
(* name, deletions included, and an object's uid is the rv it was created  *)
(* at, so neither is ever reused.                                          *)
(***************************************************************************)
EXTENDS Naturals, FiniteSets

CONSTANTS
    Requests,   \* names of JobRequests; the Job of a request has its name
    Reviews,    \* names of JobRequestReviews
    Users,      \* user names an annotation's ARN can parse to
    NoName      \* the empty string in a name field

ASSUME NamesAssumption ==
    /\ IsFiniteSet(Requests) /\ IsFiniteSet(Reviews) /\ IsFiniteSet(Users)
    /\ NoName \notin Requests \cup Reviews
    /\ Users \cap {"Missing", "Invalid"} = {}

JobRequestStates ==
    {"", "Pending", "Approved", "Rejected", "Started", "Complete", "Failed",
     "Malformed", "Conflicted"}

Decisions == {"Approved", "Rejected"}

JobRequestReviewStates ==
    Decisions \cup {"", "JobRequestMalformed", "JobRequestNotFound", "Conflict"}

(* A requested-by or reviewed-by annotation, by what the operator can get   *)
(* out of it: a user name, an ARN that does not parse, or no annotation.    *)
Annotations == Users \cup {"Missing", "Invalid"}

(* GetRequestedBy / GetReviewedBy and ParseUserIdentityFromARN succeed.     *)
Identified(annotation) == annotation \in Users

JobRequest ==
    [uid: Nat, rv: Nat, created: Nat, by: Annotations,
     state: JobRequestStates, reviewName: Reviews \cup {NoName},
     jobName: Requests \cup {NoName}]

JobRequestReview ==
    [uid: Nat, rv: Nat, created: Nat, by: Annotations,
     request: Requests \cup {NoName}, decision: Decisions,
     state: JobRequestReviewStates]

(* owner is the uid of the controlling JobRequest, 0 for a Job the operator *)
(* did not make; phase abstracts the Job's conditions.                      *)
JobPhases == {"Absent", "Running", "Complete", "Failed"}
Job == [owner: Nat, phase: JobPhases]

NoJob == [owner |-> 0, phase |-> "Absent"]

NoRequest(rv) ==
    [uid |-> 0, rv |-> rv, created |-> 0, by |-> "Missing", state |-> "",
     reviewName |-> NoName, jobName |-> NoName]

NoReview(rv) ==
    [uid |-> 0, rv |-> rv, created |-> 0, by |-> "Missing",
     request |-> NoName, decision |-> "Rejected", state |-> ""]

Exists(object) == object.uid # 0

SlipReviewedByAnyone(request, review) == request.reviewName # NoName
WasReviewedBy(request, review) == request.reviewName = review

HasBeenReviewed(request) == request.state \notin {"", "Pending", "Malformed"}

HasBeenRejected(request) == request.state = "Rejected"

HasBeenApproved(request) == HasBeenReviewed(request) /\ ~HasBeenRejected(request)
=============================================================================
