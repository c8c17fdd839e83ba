------------------------------ MODULE Simulator -----------------------------
(***************************************************************************)
(* The claim simulator of internal/admin, and what it promises an operator *)
(* about the logins of module AuthFlow: the admin page shows its verdict   *)
(* before any user has met the rules.                                      *)
(***************************************************************************)
EXTENDS AuthFlow

\* The request's rules, where it has any, are tried in place of the live ones.
Override(body, field, live) == IF field \in DOMAIN body THEN body[field] ELSE live

HandleSimulateClaims(live, body, claims) ==
    LET trace == TraceFilters(claims, Override(body, "filters", live.claim_filters))
        required == Override(body, "email_verified_required", live.email_verified_required)
        rule == TraceRole(claims, Override(body, "role_mapping", live.claim_role_mapping))
        id == DeriveIdentity(claims)
    IN  [allowed |-> trace.pass /\ (required => EmailVerified(claims)) /\ id.subject # "",
         trace |-> trace.match, role |-> rule.role, identity |-> id]

\* The page sends the rules it shows, saved or not.
PageBody(k) ==
    [filters |-> k.claim_filters, role_mapping |-> k.claim_role_mapping,
     email_verified_required |-> k.email_verified_required]

-----------------------------------------------------------------------------

\* The claims a login of c is judged by, and whether userinfo has left alone what
\* the login takes from the id_token and the simulator from the merged claims.
Judged(c, ui) == IF ui = NoUserInfo THEN token[c].claims ELSE Merge(token[c].claims, ui)

SignedPartKept(c, ui) ==
    \A key \in {"sub", "email_verified"} :
        Lookup(Judged(c, ui), key) = Lookup(token[c].claims, key)

\* What the simulator says of claims, under the live rules or as a preview of
\* rules that are not live yet, a login under those rules does with them: it is
\* let in or not as foretold, with the role and the identity foretold. Userinfo
\* that answers with another sub or email_verified is the exception.
SimulatorForetells ==
    [][\A c \in Calls, ui \in UserInfos :
          FinishLogin(c, ui) /\ SignedPartKept(c, ui) =>
              LET here == HandleSimulateClaims(cfg[c], <<>>, Judged(c, ui))
                  preview == HandleSimulateClaims(cfgPtr, PageBody(cfg[c]), Judged(c, ui))
              IN  /\ preview = here
                  /\ here.allowed <=> reason'[c] = "success"
                  /\ here.allowed => /\ identity'[c].role = here.role
                                     /\ identity'[c].subject = here.identity.subject
                                     /\ identity'[c].email = here.identity.email]_vars

=============================================================================
