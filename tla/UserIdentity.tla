----------------------------- MODULE UserIdentity -----------------------------
(***************************************************************************)
(* ParseUserIdentityFromARN, and what the two controllers make of it: the  *)
(* user name that a requested-by or a reviewed-by annotation stands for.   *)
(*                                                                         *)
(* JobRequestAPI takes an annotation for a user name, or for no user name. *)
(* Here it is what the admission policies put there, the ARN of a session, *)
(* and the question is whether user names tell people apart.               *)
(*                                                                         *)
(* A text is the sequence of the words between its hyphens: a suffix       *)
(* "-developer" is a last word, "developer", after at least one other.     *)
(***************************************************************************)
EXTENDS Naturals, Sequences

CONSTANTS
    Words,
    MailWords,         \* the words with an @ in them
    RoleWords,         \* the words that begin with "role"
    AccountIds,        \* account fields that begin with twelve digits
    GdsPeople,         \* the names GDS users have in their roles' names
    GdsSessions,       \* the session names GDS users choose
    EntraPeople,       \* the addresses Entra ID users have as session names
    EntraRoles,        \* the roles Entra ID users assume
    OtherAnnotations   \* annotations that stand for neither

GdsRoles ==
    {"fulladmin", "tempadmin", "platformengineer", "developer", "readonly", "ithctester"}

Text == Seq(Words)
Mentions(text, words) == \E i \in DOMAIN text : text[i] \in words
EndsIn(text, words) == Len(text) >= 2 /\ text[Len(text)] \in words

ASSUME WordsAssumption ==
    /\ GdsRoles \cup MailWords \cup RoleWords \cup {"assumed"} \subseteq Words
    /\ "role" \in RoleWords
    /\ GdsRoles \cap MailWords = {}

Nobody == <<>>

ASSUME PeopleAssumption ==
    /\ \A name \in GdsPeople : name \in Text \ {Nobody} /\ ~Mentions(name, MailWords)
    /\ \A name \in GdsSessions : name \in Text
    /\ \A name \in EntraPeople : name \in Text \ {Nobody} /\ Mentions(name, MailWords)
    /\ \A role \in EntraRoles : role \in Text /\ ~EndsIn(role, GdsRoles)

-----------------------------------------------------------------------------
(* Annotations.  pieces are the parts between colons, of which SplitN gives *)
(* seven at most, the sixth left out; resource is what the sixth has        *)
(* between its slashes: a type, and for an assumed role the role's name and *)
(* the session's.                                                           *)

NoAnnotation == [present |-> FALSE, pieces |-> <<>>, resource |-> <<>>]

AssumedRole(account, role, session) ==
    [present |-> TRUE, pieces |-> <<"arn", "aws", "sts", "", account>>,
     resource |-> <<<<"assumed", "role">>, role, session>>]

IsAssumedRole(arn) ==
    /\ Len(arn.pieces) = 5
    /\ arn.pieces[1] = "arn" /\ arn.pieces[2] = "aws" /\ arn.pieces[3] = "sts"
    /\ arn.pieces[5] \in AccountIds
    /\ Len(arn.resource[1]) >= 2
    /\ arn.resource[1][1] = "assumed" /\ arn.resource[1][2] \in RoleWords

(* What is nobody's is in neither format: no session of a role, or one in   *)
(* which neither the role nor the session is named as those of people are.  *)
ASSUME OthersAssumption ==
    \A arn \in OtherAnnotations :
        \/ ~IsAssumedRole(arn) \/ Len(arn.resource) # 3
        \/ ~EndsIn(arn.resource[2], GdsRoles) /\ ~Mentions(arn.resource[3], MailWords)

(* A user name of Nobody is the nil that the parsers return.                *)
Identity(account, user, role) ==
    [accountId |-> account, userName |-> user, roleName |-> role]
NoIdentity == Identity("", Nobody, Nobody)

(* The name is what is left of a GDS user's role without its last word.     *)
SlipRoleForgotten(role, session) ==
    IF EndsIn(role, GdsRoles \ {"readonly"})
    THEN Identity("", SubSeq(role, 1, Len(role) - 1), <<role[Len(role)]>>) ELSE NoIdentity
ParseGdsUsersARN(role, session) ==
    IF EndsIn(role, GdsRoles)
    THEN Identity("", SubSeq(role, 1, Len(role) - 1), <<role[Len(role)]>>) ELSE NoIdentity

SlipRoleIsTheName(role, session) ==
    IF Mentions(session, MailWords) THEN Identity("", role, session) ELSE NoIdentity
SlipAnySession(role, session) == Identity("", session, role)
ParseEntraIDArn(role, session) ==
    IF Mentions(session, MailWords) THEN Identity("", session, role) ELSE NoIdentity

(* The formats are tried in this order.                                     *)
ParseUserIdentityFromARN(arn) ==
    IF ~IsAssumedRole(arn) \/ Len(arn.resource) # 3 THEN NoIdentity
    ELSE LET gds == ParseGdsUsersARN(arn.resource[2], arn.resource[3])
             entra == ParseEntraIDArn(arn.resource[2], arn.resource[3])
             identity == IF gds # NoIdentity THEN gds ELSE entra
         IN  IF identity = NoIdentity THEN NoIdentity
             ELSE [identity EXCEPT !.accountId = arn.pieces[5]]

(* GetRequestedBy or GetReviewedBy, and the parse of what it returns.       *)
Identified(annotation) ==
    annotation.present /\ ParseUserIdentityFromARN(annotation) # NoIdentity

UserName(annotation) == ParseUserIdentityFromARN(annotation).userName

-----------------------------------------------------------------------------
(* Who creates objects: a person in a session of the one or the other kind, *)
(* or something else.  The policies set the annotation to the name of the   *)
(* user that sends the CREATE.                                              *)

Creator(person, annotation) == [person |-> person, annotation |-> annotation]

GdsUsers ==
    {Creator(name, AssumedRole(account, Append(name, role), session)) :
        name \in GdsPeople, role \in GdsRoles, account \in AccountIds, session \in GdsSessions}
EntraUsers ==
    {Creator(name, AssumedRole(account, role, name)) :
        name \in EntraPeople, role \in EntraRoles, account \in AccountIds}
Others == {Creator(Nobody, annotation) : annotation \in OtherAnnotations \cup {NoAnnotation}}

Creators == GdsUsers \cup EntraUsers \cup Others

VARIABLES
    requester, requestState,   \* who created the request, and its state
    reviewer, reviewState      \* the same of the review that names it

identityVars == <<requester, requestState, reviewer, reviewState>>

IdentityTypeOK ==
    /\ requester \in Creators /\ reviewer \in Creators
    /\ requestState \in {"None", "", "Pending", "Malformed", "Approved"}
    /\ reviewState \in {"None", "", "JobRequestMalformed", "Conflict", "Approved"}

IdentityInit ==
    /\ requester = Creator(Nobody, NoAnnotation) /\ reviewer = requester
    /\ requestState = "None" /\ reviewState = "None"

CreateRequest(creator) ==
    /\ requestState = "None" /\ requestState' = ""
    /\ requester' = creator
    /\ UNCHANGED <<reviewer, reviewState>>

CreateReview(creator) ==
    /\ reviewState = "None" /\ reviewState' = ""
    /\ reviewer' = creator
    /\ UNCHANGED <<requester, requestState>>

(* A new request is Pending, or Malformed.                                  *)
ValidateRequestedBy ==
    /\ requestState = ""
    /\ requestState' = IF Identified(requester.annotation) THEN "Pending" ELSE "Malformed"
    /\ UNCHANGED <<requester, reviewer, reviewState>>

(* The other controller may get a review before the request it names.       *)
SlipStateOfARequest ==
    /\ reviewState = "" /\ ~Identified(reviewer.annotation)
    /\ reviewState' = "Malformed"
    /\ UNCHANGED <<requester, requestState, reviewer>>
ValidateReviewedBy ==
    /\ reviewState = "" /\ ~Identified(reviewer.annotation)
    /\ reviewState' = "JobRequestMalformed"
    /\ UNCHANGED <<requester, requestState, reviewer>>

ReviewMalformedRequest ==
    /\ reviewState = "" /\ Identified(reviewer.annotation)
    /\ requestState = "Malformed"
    /\ reviewState' = "JobRequestMalformed"
    /\ UNCHANGED <<requester, requestState, reviewer>>

(* What validateReviewerAndRequesterDiffer compares.                        *)
SlipRolesCompared(requestedBy, reviewedBy) ==
    ParseUserIdentityFromARN(requestedBy) = ParseUserIdentityFromARN(reviewedBy)
SameUser(requestedBy, reviewedBy) == UserName(requestedBy) = UserName(reviewedBy)

ValidateReviewerAndRequesterDiffer ==
    /\ reviewState = "" /\ Identified(reviewer.annotation)
    /\ requestState = "Pending"
    /\ UNCHANGED <<requester, reviewer>>
    /\ IF SameUser(requester.annotation, reviewer.annotation)
       THEN reviewState' = "Conflict" /\ UNCHANGED requestState
       ELSE reviewState' = "Approved" /\ requestState' = "Approved"

IdentityNext ==
    \/ \E creator \in Creators : CreateRequest(creator) \/ CreateReview(creator)
    \/ ValidateRequestedBy \/ ValidateReviewedBy
    \/ ReviewMalformedRequest \/ ValidateReviewerAndRequesterDiffer

IdentitySpec == IdentityInit /\ [][IdentityNext]_identityVars

-----------------------------------------------------------------------------
(* A person's request is approved only by a review of another person,       *)
(* whatever roles, accounts and session names the two used                  *)
(* (validateReviewerAndRequesterDiffer: a user cannot review their own).    *)
NobodyReviewsTheirOwn ==
    requestState = "Approved" /\ Nobody \notin {requester.person, reviewer.person}
        => requester.person # reviewer.person

(* A review of a person is in Conflict only with a request of their own: no *)
(* two people have one user name, though a name may end in the name of a    *)
(* role (parseGdsUsersARN, parseEntraIDArn).                                *)
NobodyIsTakenForAnother ==
    reviewState = "Conflict" /\ Nobody \notin {requester.person, reviewer.person}
        => requester.person = reviewer.person

(* Objects of people are never Malformed for their annotation, in any role  *)
(* of GDS users or of Entra ID (ParseUserIdentityFromARN).                  *)
PeopleAreRecognised ==
    /\ requestState = "Malformed" => requester.person = Nobody
    /\ reviewState = "JobRequestMalformed" => Nobody \in {requester.person, reviewer.person}

(* Only reviews and requests of people are compared: those of a service     *)
(* account, an IAM user, a role that is neither GDS users' nor has an       *)
(* address in its session, or without annotation are not (isAssumedRole,    *)
(* GetRequestedBy, GetReviewedBy).                                          *)
OnlyPeopleAreCompared ==
    reviewState \in {"Conflict", "Approved"} => Nobody \notin {requester.person, reviewer.person}
=============================================================================
