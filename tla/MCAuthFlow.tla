----------------------------- MODULE MCAuthFlow -----------------------------
(***************************************************************************)
(* Small instances of AuthFlow: the users, claims and configurations that  *)
(* the configurations of TLC choose from.                                  *)
(***************************************************************************)
EXTENDS Simulator, TLC

\* String relations over the strings of the instances.
MCHasSubstring(s, sub) == sub \in {s, ""}
MCHasPrefix(s, prefix) == prefix \in {s, ""}
MCCompiles(p) == TRUE
MCMatchString(p, s) == p = s
MCSprint(v) == v[1]

\* Calls are interchangeable, and so are databases, and flows.
ReplaySymmetry == Permutations(Calls) \cup Permutations(Databases)
FlowSymmetry == Permutations(Flows)

Str(s) == JString(s)
Yes == JBool(TRUE)
No == JBool(FALSE)

\* What the provider signs.
Alice == [sub |-> Str("alice"), email |-> Str("a@x"), email_verified |-> Yes]
Bob == [sub |-> Str("bob"), email |-> Str("b@x"), email_verified |-> No,
        groups |-> JArray(<<Str("staff"), JNumber(1)>>)]
Anon == [email |-> Str("c@x"), email_verified |-> Yes]

\* What userinfo answers: agreeing, with another email, with no usable subject and
\* no groups, with no groups, with the groups that the id_token lacks, claiming a
\* verified email or denying one, or carrying the plugin's own link claim.
SameAlice == [sub |-> Str("alice"), email |-> Str("a@x")]
OtherMail == [sub |-> Str("alice"), email |-> Str("z@x"),
              groups |-> JArray(<<Str("staff")>>)]
LinkClaim == [sub |-> Str("alice"), silo_link_by_email |-> Yes]
NullSub == [sub |-> JNull, groups |-> JArray(<<>>)]
NoGroups == [groups |-> JArray(<<>>)]
Staff == [groups |-> JArray(<<Str("staff")>>)]
Unverified == [email_verified |-> No]
Verified == [sub |-> Str("bob"), email_verified |-> Yes,
             groups |-> JArray(<<Str("staff")>>)]

InGroup(g) == [claim_path |-> <<"groups">>, operator |-> "contains", value |-> Str(g)]

\* One configuration per provider. The strict one requires a verified email,
\* filters on a group, maps a role and links by email.
Strict(p) ==
    [provider |-> p, email_verified_required |-> TRUE, link_by_email |-> TRUE,
     claim_filters |-> <<InGroup("staff")>>,
     claim_role_mapping |-> <<[claim_path |-> <<"sub">>, operator |-> "equals",
                               value |-> Str("alice"), role |-> "admin"]>>]
Open(p) ==
    [provider |-> p, email_verified_required |-> FALSE, link_by_email |-> FALSE,
     claim_filters |-> <<>>, claim_role_mapping |-> <<>>]

OneConfig == {Open("idp1")}
StrictConfig == {Strict("idp1")}
TwoConfigs == {Strict("idp1"), Open("idp2")}

\* A third one, of the first provider after its secret was rotated.
Rotated == {Strict("idp1"), Open("idp2"), Strict("idp1-rotated")}

MCRegistration(p) == IF p = "idp1-rotated" THEN "idp1" ELSE p

OneUser == {Alice}
AllUsers == {Alice, Bob, Anon}

NoneAnswers == {NoUserInfo}
SomeAnswers == {NoUserInfo, NullSub, NoGroups, Staff, Verified, Unverified}
AllUserInfos == {NoUserInfo, SameAlice, OtherMail, LinkClaim, NullSub, Verified}

NothingDropped == {{}}
StampOptional == {{}, {"issued_at"}}
=============================================================================
