---------------------------- MODULE MCLifecycle -----------------------------
(***************************************************************************)
(* Small instances of Lifecycle.                                           *)
(***************************************************************************)
EXTENDS Lifecycle, TLC

MCHasSubstring(s, sub) == sub \in {s, ""}
MCHasPrefix(s, prefix) == prefix \in {s, ""}
MCCompiles(p) == p # "("
MCMatchString(p, s) == p = s
MCSprint(v) == v[1]

\* Configures are interchangeable, and so are PATCHes.
OpSymmetry == Permutations(Configures) \cup Permutations(Patches)

Rule(operator, value) ==
    [claim_path |-> <<"groups">>, operator |-> operator, value |-> value]

\* An install with nothing but its database, one with a provider and a filter,
\* and one whose filter does not compile.
Legacy ==
    [issuer_url |-> "https://a", client_id |-> "id", client_secret |-> "s1",
     scopes |-> "", link_by_email |-> TRUE,
     claim_filters |-> <<Rule("regex", JString("^staff"))>>]
Uncompilable == [claim_filters |-> <<Rule("regex", JString("("))>>]
HostEntries == {<<>>, Legacy, Uncompilable}

\* Bodies the admin page may send: another provider with linking on, and the
\* email gate off with the secret left alone, which a linking config refuses.
ProviderBody ==
    [issuer_url |-> "https://b", client_id |-> "id", client_secret |-> "s2",
     link_by_email |-> TRUE]
GateBody == [email_verified_required |-> FALSE, client_secret |-> ""]
AdminBodies == {ProviderBody, GateBody}
=============================================================================
