---------------------------- MODULE MCUserIdentity ----------------------------
(* An instance of UserIdentity for TLC: a GDS user whose name ends in the   *)
(* name of a role and one whose name is the rest of it, sessions named like *)
(* a role, like a person and like an address, and the ARNs that are no      *)
(* person's.                                                                *)
EXTENDS UserIdentity

McGdsPeople == {<<"joe">>, <<"joe", "developer">>}
McGdsSessions == {<<"joe">>, <<"ann@dsit.gov.uk">>}
McEntraPeople == {<<"ann@dsit.gov.uk">>, <<"joe@digital.cabinet", "office.gov.uk">>}
McEntraRoles == {<<"developer">>, <<"joe", "ReadOnlyRole">>}
McMailWords == {"ann@dsit.gov.uk", "joe@digital.cabinet"}
McRoleWords == {"role", "roles"}
McWords ==
    GdsRoles \cup McMailWords \cup McRoleWords
        \cup {"assumed", "joe", "office.gov.uk", "ReadOnlyRole", "user", "foo", "bar"}
McAccountIds == {"123456789012", "2109876543210"}

Arn(service, account, resource) ==
    [present |-> TRUE, pieces |-> <<"arn", "aws", service, "", account>>,
     resource |-> resource]

McOtherAnnotations ==
    {Arn("sts", "123456789012", <<<<"user">>, <<"ann@dsit.gov.uk">>>>),
     Arn("sts", "123456789012", <<<<"assumed", "role">>, <<"foo">>, <<"bar">>>>),
     Arn("sts", "123456789012", <<<<"assumed", "roles">>, <<"readonly">>, <<"bar">>>>),
     Arn("sts", "123456789012", <<<<"assumed", "role">>, <<"joe", "developer">>>>),
     Arn("sts", "123456789012",
         <<<<"assumed", "role">>, <<"path">>, <<"joe", "developer">>, <<"joe">>>>),
     Arn("ec2", "123456789012", <<<<"assumed", "role">>, <<"joe", "readonly">>, <<"bar">>>>),
     Arn("sts", "123456789", <<<<"assumed", "role">>, <<"joe", "readonly">>, <<"bar">>>>),
     [present |-> TRUE, pieces |-> <<"wibble">>, resource |-> <<>>]}
=============================================================================
