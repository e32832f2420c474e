SPECIFICATION IdentitySpec
CONSTANTS
    Words <- McWords
    MailWords <- McMailWords
    RoleWords <- McRoleWords
    AccountIds <- McAccountIds
    GdsPeople <- McGdsPeople
    GdsSessions <- McGdsSessions
    EntraPeople <- McEntraPeople
    EntraRoles <- McEntraRoles
    OtherAnnotations <- McOtherAnnotations
INVARIANTS IdentityTypeOK NobodyReviewsTheirOwn NobodyIsTakenForAnother PeopleAreRecognised OnlyPeopleAreCompared
CHECK_DEADLOCK FALSE
