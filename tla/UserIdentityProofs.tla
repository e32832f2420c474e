-------------------------- MODULE UserIdentityProofs --------------------------
(***************************************************************************)
(* That user names tell people apart, proved for any people, accounts,     *)
(* session names and Entra ID roles that meet PeopleAssumption.            *)
(***************************************************************************)
EXTENDS UserIdentity, SequenceTheorems, TLAPS

(* The name that is left of a GDS user's role is the one it was made from.  *)
LEMMA LastWordTrimmed ==
    ASSUME NEW name \in Text, NEW role \in Words
    PROVE  /\ Len(Append(name, role)) = Len(name) + 1
           /\ Append(name, role)[Len(name) + 1] = role
           /\ SubSeq(Append(name, role), 1, Len(name)) = name
<1>1. Len(name) \in Nat
  BY LenProperties DEF Text
<1>2. /\ Append(name, role) \in Seq(Words)
      /\ Len(Append(name, role)) = Len(name) + 1
      /\ Append(name, role)[Len(name) + 1] = role
      /\ \A i \in 1..Len(name) : Append(name, role)[i] = name[i]
  BY <1>1, AppendProperties DEF Text
<1>3. /\ SubSeq(Append(name, role), 1, Len(name)) \in Seq(Words)
      /\ Len(SubSeq(Append(name, role), 1, Len(name))) = Len(name)
      /\ \A i \in 1..Len(name) : SubSeq(Append(name, role), 1, Len(name))[i] = name[i]
  <2>1. \A i \in 1..Len(name) : Append(name, role)[i] \in Words
    BY <1>1, <1>2, ElementOfSeq DEF Text
  <2> QED
    BY <1>1, <1>2, <2>1, SubSeqProperties
<1>4. SubSeq(Append(name, role), 1, Len(name)) = name
  BY <1>1, <1>3, SeqEqual DEF Text
<1> QED
  BY <1>2, <1>4

(* A GDS user is identified, in any role, account and session, by name.     *)
THEOREM GdsUsersAreIdentified ==
    ASSUME NEW name \in GdsPeople, NEW role \in GdsRoles,
           NEW account \in AccountIds, NEW session \in GdsSessions
    PROVE  ParseUserIdentityFromARN(AssumedRole(account, Append(name, role), session))
             = Identity(account, name, <<role>>)
<1> DEFINE full == Append(name, role)
           arn == AssumedRole(account, full, session)
<1>1. name \in Text /\ name # Nobody /\ role \in Words
  BY PeopleAssumption, WordsAssumption DEF PeopleAssumption, WordsAssumption
<1>2. Len(name) \in Nat \ {0}
  BY <1>1, EmptySeq DEF Text, Nobody
<1>3. Len(full) = Len(name) + 1 /\ full[Len(full)] = role /\ SubSeq(full, 1, Len(full) - 1) = name
  BY <1>1, <1>2, LastWordTrimmed
<1> HIDE DEF full
<1>4. EndsIn(full, GdsRoles)
  BY <1>2, <1>3 DEF EndsIn
<1>5. ParseGdsUsersARN(full, session) = Identity("", name, <<role>>)
  BY <1>3, <1>4 DEF ParseGdsUsersARN
<1>6. Identity("", name, <<role>>) # NoIdentity
  BY <1>1 DEF Identity, NoIdentity
<1>7. IsAssumedRole(arn) /\ Len(arn.resource) = 3
  BY WordsAssumption DEF IsAssumedRole, AssumedRole, WordsAssumption
<1>8. arn.resource[2] = full /\ arn.resource[3] = session /\ arn.pieces[5] = account
  BY DEF AssumedRole
<1> HIDE DEF arn
<1>9. ParseUserIdentityFromARN(arn) = [Identity("", name, <<role>>) EXCEPT !.accountId = account]
  BY <1>5, <1>6, <1>7, <1>8 DEF ParseUserIdentityFromARN
<1> QED
  BY <1>9 DEF arn, full, Identity

(* An Entra ID user is identified by the address the session is named for.  *)
THEOREM EntraUsersAreIdentified ==
    ASSUME NEW name \in EntraPeople, NEW role \in EntraRoles, NEW account \in AccountIds
    PROVE  ParseUserIdentityFromARN(AssumedRole(account, role, name))
             = Identity(account, name, role)
<1> DEFINE arn == AssumedRole(account, role, name)
<1>1. name # Nobody /\ Mentions(name, MailWords) /\ ~EndsIn(role, GdsRoles)
  BY PeopleAssumption DEF PeopleAssumption
<1>2. ParseGdsUsersARN(role, name) = NoIdentity
  BY <1>1 DEF ParseGdsUsersARN
<1>3. ParseEntraIDArn(role, name) = Identity("", name, role)
  BY <1>1 DEF ParseEntraIDArn
<1>4. Identity("", name, role) # NoIdentity
  BY <1>1 DEF Identity, NoIdentity
<1>5. IsAssumedRole(arn) /\ Len(arn.resource) = 3
  BY WordsAssumption DEF IsAssumedRole, AssumedRole, WordsAssumption
<1>6. arn.resource[2] = role /\ arn.resource[3] = name /\ arn.pieces[5] = account
  BY DEF AssumedRole
<1> HIDE DEF arn
<1>7. ParseUserIdentityFromARN(arn) = [Identity("", name, role) EXCEPT !.accountId = account]
  BY <1>2, <1>3, <1>4, <1>5, <1>6 DEF ParseUserIdentityFromARN
<1> QED
  BY <1>7 DEF arn, Identity

(* Whoever creates an object is somebody only as a user of either kind, who *)
(* is then identified by name.                                              *)
LEMMA PeopleHaveTheirNames ==
    ASSUME NEW creator \in Creators, creator.person # Nobody
    PROVE  /\ Identified(creator.annotation)
           /\ UserName(creator.annotation) = creator.person
<1>1. CASE creator \in GdsUsers
  <2>1. PICK name \in GdsPeople, role \in GdsRoles, account \in AccountIds, session \in GdsSessions :
            creator = Creator(name, AssumedRole(account, Append(name, role), session))
    BY <1>1 DEF GdsUsers
  <2>2. ParseUserIdentityFromARN(creator.annotation) = Identity(account, name, <<role>>)
    BY <2>1, GdsUsersAreIdentified DEF Creator
  <2>3. creator.person = name /\ creator.annotation.present
    BY <2>1 DEF Creator, AssumedRole
  <2>4. /\ Identity(account, name, <<role>>).userName = name
        /\ NoIdentity.userName = Nobody
    BY DEF Identity, NoIdentity
  <2> QED
    BY <2>2, <2>3, <2>4 DEF Identified, UserName
<1>2. CASE creator \in EntraUsers
  <2>1. PICK name \in EntraPeople, role \in EntraRoles, account \in AccountIds :
            creator = Creator(name, AssumedRole(account, role, name))
    BY <1>2 DEF EntraUsers
  <2>2. ParseUserIdentityFromARN(creator.annotation) = Identity(account, name, role)
    BY <2>1, EntraUsersAreIdentified DEF Creator
  <2>3. creator.person = name /\ creator.annotation.present
    BY <2>1 DEF Creator, AssumedRole
  <2>4. /\ Identity(account, name, role).userName = name
        /\ NoIdentity.userName = Nobody
    BY DEF Identity, NoIdentity
  <2> QED
    BY <2>2, <2>3, <2>4 DEF Identified, UserName
<1>3. CASE creator \in Others
  BY <1>3 DEF Others, Creator
<1> QED
  BY <1>1, <1>2, <1>3 DEF Creators

(* The creators of both objects are among the creators.                     *)
THEOREM IdentityTypes == IdentitySpec => []IdentityTypeOK
<1>1. IdentityInit => IdentityTypeOK
  BY DEF IdentityInit, IdentityTypeOK, Creators, Others
<1>2. IdentityTypeOK /\ [IdentityNext]_identityVars => IdentityTypeOK'
  BY DEF IdentityTypeOK, IdentityNext, identityVars, CreateRequest, CreateReview,
         ValidateRequestedBy, ValidateReviewedBy, ReviewMalformedRequest,
         ValidateReviewerAndRequesterDiffer
<1> QED
  BY <1>1, <1>2, PTL DEF IdentitySpec

(* What the states of the two objects say of who created them.  A review is *)
(* through before its request is Pending only if its own annotation is no   *)
(* person's, and it is the one review that approves the request.            *)
PeopleAreToldApart ==
    /\ NobodyReviewsTheirOwn /\ NobodyIsTakenForAnother /\ PeopleAreRecognised
    /\ requestState \in {"None", ""} /\ reviewState \notin {"None", ""}
         => reviewState = "JobRequestMalformed" /\ reviewer.person = Nobody
    /\ requestState = "Approved" => reviewState = "Approved"

(* The two controllers carry it from the annotations to the decision.        *)
LEMMA ToldApart == IdentitySpec => []PeopleAreToldApart
<1>1. IdentityInit => PeopleAreToldApart
  BY DEF IdentityInit, PeopleAreToldApart, NobodyReviewsTheirOwn, NobodyIsTakenForAnother,
         PeopleAreRecognised
<1>2. IdentityTypeOK /\ PeopleAreToldApart /\ [IdentityNext]_identityVars
        => PeopleAreToldApart'
  <2> SUFFICES ASSUME IdentityTypeOK, PeopleAreToldApart, [IdentityNext]_identityVars
               PROVE  PeopleAreToldApart'
    OBVIOUS
  <2> USE DEF PeopleAreToldApart, NobodyReviewsTheirOwn, NobodyIsTakenForAnother,
              PeopleAreRecognised, IdentityTypeOK
  <2>1. CASE \E creator \in Creators : CreateRequest(creator)
    BY <2>1 DEF CreateRequest
  <2>2. CASE \E creator \in Creators : CreateReview(creator)
    BY <2>2 DEF CreateReview
  <2>3. CASE ValidateRequestedBy
    BY <2>3, PeopleHaveTheirNames DEF ValidateRequestedBy
  <2>4. CASE ValidateReviewedBy
    BY <2>4, PeopleHaveTheirNames DEF ValidateReviewedBy
  <2>5. CASE ReviewMalformedRequest
    BY <2>5 DEF ReviewMalformedRequest
  \* People with one user name are one person, and one person has one name.
  <2>6. CASE ValidateReviewerAndRequesterDiffer
    BY <2>6, PeopleHaveTheirNames DEF ValidateReviewerAndRequesterDiffer, SameUser
  <2>7. CASE UNCHANGED identityVars
    BY <2>7 DEF identityVars
  <2> QED
    BY <2>1, <2>2, <2>3, <2>4, <2>5, <2>6, <2>7 DEF IdentityNext
<1> QED
  BY <1>1, <1>2, IdentityTypes, PTL DEF IdentitySpec

(* No person's request is approved by a review of their own, for any people *)
(* with any roles, accounts and session names.                              *)
THEOREM NoOneReviewsTheirOwn == IdentitySpec => []NobodyReviewsTheirOwn
<1>1. PeopleAreToldApart => NobodyReviewsTheirOwn
  BY DEF PeopleAreToldApart
<1> QED
  BY <1>1, ToldApart, PTL

(* Two people are never taken for one.                                      *)
THEOREM NoOneIsTakenForAnother == IdentitySpec => []NobodyIsTakenForAnother
<1>1. PeopleAreToldApart => NobodyIsTakenForAnother
  BY DEF PeopleAreToldApart
<1> QED
  BY <1>1, ToldApart, PTL

(* No object of a person becomes Malformed.                                 *)
THEOREM EveryoneIsRecognised == IdentitySpec => []PeopleAreRecognised
<1>1. PeopleAreToldApart => PeopleAreRecognised
  BY DEF PeopleAreToldApart
<1> QED
  BY <1>1, ToldApart, PTL

(* An annotation that stands for nobody is never parsed as somebody's.      *)
LEMMA OthersAreNotIdentified ==
    ASSUME NEW creator \in Creators, creator.person = Nobody
    PROVE  ~Identified(creator.annotation)
<1>1. creator.person # Nobody \/ creator \in Others
  <2>1. CASE creator \in GdsUsers
    BY <2>1, PeopleAssumption DEF GdsUsers, Creator, PeopleAssumption
  <2>2. CASE creator \in EntraUsers
    BY <2>2, PeopleAssumption DEF EntraUsers, Creator, PeopleAssumption
  <2> QED
    BY <2>1, <2>2 DEF Creators
<1>2. PICK arn \in OtherAnnotations \cup {NoAnnotation} : creator = Creator(Nobody, arn)
  BY <1>1 DEF Others
<1>3. creator.annotation = arn
  BY <1>2 DEF Creator
<1>4. CASE arn = NoAnnotation
  BY <1>3, <1>4 DEF Identified, NoAnnotation
<1>5. CASE arn \in OtherAnnotations
  <2>1. CASE ~IsAssumedRole(arn) \/ Len(arn.resource) # 3
    BY <1>3, <2>1 DEF Identified, ParseUserIdentityFromARN
  <2>2. CASE ~EndsIn(arn.resource[2], GdsRoles) /\ ~Mentions(arn.resource[3], MailWords)
    <3>1. /\ ParseGdsUsersARN(arn.resource[2], arn.resource[3]) = NoIdentity
          /\ ParseEntraIDArn(arn.resource[2], arn.resource[3]) = NoIdentity
      BY <2>2 DEF ParseGdsUsersARN, ParseEntraIDArn
    <3> QED
      BY <1>3, <3>1 DEF Identified, ParseUserIdentityFromARN
  <2> QED
    BY <1>5, <2>1, <2>2, OthersAssumption DEF OthersAssumption
<1> QED
  BY <1>2, <1>4, <1>5

(* A request that is compared with, or waits for it, is a person's.         *)
ComparedInv ==
    /\ requestState \in {"Pending", "Approved"} => requester.person # Nobody
    /\ reviewState \in {"Conflict", "Approved"} => requestState \in {"Pending", "Approved"}
    /\ OnlyPeopleAreCompared

(* Only reviews and requests of people are compared: everything else is     *)
(* Malformed before it comes to that.                                       *)
THEOREM OthersAreNeverCompared == IdentitySpec => []OnlyPeopleAreCompared
<1>1. IdentityInit => ComparedInv
  BY DEF IdentityInit, ComparedInv, OnlyPeopleAreCompared
<1>2. IdentityTypeOK /\ ComparedInv /\ [IdentityNext]_identityVars => ComparedInv'
  <2> SUFFICES ASSUME IdentityTypeOK, ComparedInv, [IdentityNext]_identityVars
               PROVE  ComparedInv'
    OBVIOUS
  <2> USE DEF ComparedInv, OnlyPeopleAreCompared, IdentityTypeOK
  <2>1. CASE \E creator \in Creators : CreateRequest(creator)
    BY <2>1 DEF CreateRequest
  <2>2. CASE \E creator \in Creators : CreateReview(creator)
    BY <2>2 DEF CreateReview
  <2>3. CASE ValidateRequestedBy
    BY <2>3, OthersAreNotIdentified DEF ValidateRequestedBy
  <2>4. CASE ValidateReviewedBy
    BY <2>4 DEF ValidateReviewedBy
  <2>5. CASE ReviewMalformedRequest
    BY <2>5 DEF ReviewMalformedRequest
  <2>6. CASE ValidateReviewerAndRequesterDiffer
    BY <2>6, OthersAreNotIdentified DEF ValidateReviewerAndRequesterDiffer
  <2>7. CASE UNCHANGED identityVars
    BY <2>7 DEF identityVars
  <2> QED
    BY <2>1, <2>2, <2>3, <2>4, <2>5, <2>6, <2>7 DEF IdentityNext
<1>3. ComparedInv => OnlyPeopleAreCompared
  BY DEF ComparedInv
<1> QED
  BY <1>1, <1>2, <1>3, IdentityTypes, PTL DEF IdentitySpec
=============================================================================
