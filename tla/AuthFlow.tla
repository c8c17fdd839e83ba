------------------------------ MODULE AuthFlow ------------------------------
(***************************************************************************)
(* The login path of the plugin: InitAuthorize and ExchangeCode of         *)
(* internal/auth and the one-time nonce table of internal/store, run       *)
(* beside the pointers of cmd/silo-plugin-oidc-login (module Pointers)     *)
(* through which a login sees the configuration, provider and store.       *)
(*                                                                         *)
(* An ExchangeCode call is a process. It runs in the steps between its     *)
(* accesses to what it shares with others: the pointers, the clock,        *)
(* the nonce table, the identity provider. Any number of calls, of         *)
(* reconfigurations and of restarts of the plugin interleave with it. The  *)
(* host is free to present any code, state and redirect URI with any       *)
(* provider_state it was given, and to lose fields of it.                  *)
(***************************************************************************)
EXTENDS Claims, Pointers

CONSTANTS
    Flows,       \* one per InitAuthorize: its nonce and its PKCE verifier
    Codes,       \* authorization codes
    Calls,       \* ExchangeCode RPCs
    Providers,   \* issuer, client, secret and scopes of a provider
    Registration(_), \* of a provider, its issuer and client: what its codes are for
    Configs,     \* the configurations applyConfig may be given
    Databases,   \* the databases a Configure may name; a store is one of them
    States,      \* values of the state parameter; "" from older host builds
    Redirects,   \* values of redirect_uri
    IdClaims,    \* claim sets the provider signs
    UserInfos,   \* userinfo answers: claim sets, or NoUserInfo
    NoUserInfo,  \* userinfo failed, or could not be decoded, as with a numeric sub
    Drops,       \* sets of provider_state fields a host may fail to return
    IdPChecks,   \* what the provider compares at its token endpoint
    stateTTL,    \* how long a provider_state stays valid
    Skew,        \* the database's clock minus the plugin's
    MaxClock,    \* bound of the model
    None         \* no flow, no code, no row, no time

ProviderStateFields == {"nonce", "state", "redirect_uri", "issued_at"}

\* The decisions of internal/audit, and replay-check-failed, which has none.
Reasons == {"rate-limited", "not-configured", "invalid-provider-state", "state-expired",
            "state-mismatch", "redirect-uri-mismatch", "replay-detected",
            "replay-check-failed", "exchange-failed", "verify-failed", "nonce-mismatch",
            "missing-subject", "subject-mismatch", "email-unverified",
            "claim-filter-rejected", "success"}

ASSUME ConstantsAssumption ==
    /\ stateTTL \in Nat
    /\ Skew \in Int
    /\ MaxClock \in Nat
    /\ None \notin Int /\ None \notin Reasons
    /\ NoProvider \notin Providers
    /\ NoStore \notin Databases
    /\ Drops \subseteq SUBSET ProviderStateFields
    /\ IdPChecks \subseteq {"code_verifier", "redirect_uri"}
    /\ \A k \in Configs : k.provider \in Providers \cup {NoProvider}

VARIABLES
    clock,      \* the plugin's wall clock
    flow,       \* what InitAuthorize put in each flow's provider_state
    code,       \* the provider's record of each code
    redeemed,   \* the codes it has given tokens for
    authNonce,  \* expires_at of each flow's row of auth_nonce, by database
    pc,         \* where each call is
    req,        \* its request
    cfg, prov,  \* the configuration and the provider it read
    expires,    \* the expiry it computed for its nonce row
    st,         \* the store it consumes its nonce in
    token,      \* the id_token it was given
    reason,     \* the decision it returned
    identity,   \* the identity it returned
    consumed    \* when its INSERT into auth_nonce committed

outside == <<clock, flow, code, redeemed>>
global == <<outside, pointers, authNonce>>
kept == <<req, st, consumed>>
locals == <<cfg, prov, expires, token>>
snapshot == <<kept, locals>>
result == <<reason, identity>>
vars == <<global, pc, snapshot, result>>

DBClock == clock + Skew

Accepted(c) == reason[c] = "success"

Issued(f) == flow[f] # None

\* The last moment at which the stale-state check lets a flow's callback by.
WindowEnd(f) == flow[f].issued_at + stateTTL

-----------------------------------------------------------------------------

Init ==
    /\ clock = 0
    /\ PointersInit
    /\ flow = [f \in Flows |-> None]
    /\ code = [k \in Codes |-> None]
    /\ redeemed = {}
    /\ authNonce = [db \in Databases |-> [f \in Flows |-> None]]
    /\ pc = [c \in Calls |-> "idle"]
    /\ req = [c \in Calls |-> None]
    /\ cfg = [c \in Calls |-> ZeroConfig]
    /\ prov = [c \in Calls |-> NoProvider]
    /\ expires = [c \in Calls |-> None]
    /\ st = [c \in Calls |-> NoStore]
    /\ token = [c \in Calls |-> None]
    /\ reason = [c \in Calls |-> None]
    /\ identity = [c \in Calls |-> None]
    /\ consumed = [c \in Calls |-> None]

-----------------------------------------------------------------------------
(* The plugin process around the logins. *)

\* A step of a Configure or of a PATCH: any of them apply at the same time.
Reconfigure(a) ==
    /\ \/ \E k \in Configs : \E p \in {k.provider, NoProvider} : StoreConfig(a, k, p)
       \/ StoreProvider(a)
       \/ \E db \in Databases : StoreStore(a, db)
    /\ UNCHANGED <<outside, authNonce, pc, snapshot, result>>

\* The process dies with its calls and its pointers. The databases, the
\* provider, and the provider_states the host holds survive.
Restart ==
    /\ LosePointers
    /\ pc' = [c \in Calls |-> IF pc[c] = "idle" THEN "idle" ELSE "done"]
    /\ cfg' = [c \in Calls |-> IF Accepted(c) THEN cfg[c] ELSE ZeroConfig]
    /\ prov' = [c \in Calls |-> IF Accepted(c) THEN prov[c] ELSE NoProvider]
    /\ expires' = [c \in Calls |-> None]
    /\ token' = [c \in Calls |-> None]
    /\ UNCHANGED <<outside, authNonce, kept, result>>

Tick ==
    /\ clock < MaxClock
    /\ clock' = clock + 1
    /\ UNCHANGED <<pointers, flow, code, redeemed, authNonce, pc, snapshot, result>>

-----------------------------------------------------------------------------
(* InitAuthorize: a fresh nonce and verifier, bound by the authorize URL   *)
(* to the provider and kept, with the rest, in provider_state.             *)

\* Mutant: no check that a provider is configured.
InitAuthorizeUnconfigured(f, state, redirect) ==
    /\ ~Issued(f)
    /\ flow' = [flow EXCEPT ![f] = [provider |-> provPtr, state |-> state,
                                    redirect_uri |-> redirect, issued_at |-> clock]]
    /\ UNCHANGED <<clock, pointers, code, redeemed, authNonce, pc, snapshot, result>>

InitAuthorize(f, state, redirect) ==
    /\ provPtr # NoProvider
    /\ ~Issued(f)
    /\ flow' = [flow EXCEPT ![f] = [provider |-> provPtr, state |-> state,
                                    redirect_uri |-> redirect, issued_at |-> clock]]
    /\ UNCHANGED <<clock, pointers, code, redeemed, authNonce, pc, snapshot, result>>

\* The user signs in at the provider, perhaps more than once with one URL.
IdPAuthorize(k, f, claims) ==
    /\ code[k] = None
    /\ Issued(f)
    /\ code' = [code EXCEPT ![k] = [flow |-> f, provider |-> flow[f].provider,
                                    redirect_uri |-> flow[f].redirect_uri,
                                    claims |-> claims]]
    /\ UNCHANGED <<clock, pointers, flow, redeemed, authNonce, pc, snapshot, result>>

-----------------------------------------------------------------------------
(* ExchangeCode *)

Goto(c, label) == pc' = [pc EXCEPT ![c] = label]

Continue(c, label) == Goto(c, label) /\ UNCHANGED result

\* Return a status to the host, and the call's variables with it. Every decision
\* but replay-check-failed is also written to the audit log.
Deny(c, r) ==
    /\ Goto(c, "done")
    /\ reason' = [reason EXCEPT ![c] = r]
    /\ cfg' = [cfg EXCEPT ![c] = ZeroConfig]
    /\ prov' = [prov EXCEPT ![c] = NoProvider]
    /\ expires' = [expires EXCEPT ![c] = None]
    /\ token' = [token EXCEPT ![c] = None]
    /\ UNCHANGED identity

\* The limiter's verdict is an input here; module RateLimit computes it.
ExchangeCode(c, r, allowed) ==
    /\ pc[c] = "idle"
    /\ req' = [req EXCEPT ![c] = r]
    /\ \/ ~allowed /\ Deny(c, "rate-limited")
       \/ /\ allowed
          /\ cfg' = [cfg EXCEPT ![c] = cfgPtr]
          /\ Continue(c, "provider")
          /\ UNCHANGED <<prov, expires, token>>
    /\ UNCHANGED <<global, st, consumed>>

ReadProvider(c) ==
    /\ pc[c] = "provider"
    /\ \/ provPtr = NoProvider /\ Deny(c, "not-configured")
       \/ /\ provPtr # NoProvider
          /\ prov' = [prov EXCEPT ![c] = provPtr]
          /\ Continue(c, "check")
          /\ UNCHANGED <<cfg, expires, token>>
    /\ UNCHANGED <<global, kept>>

\* provider_state's field, the empty string when the host lost it.
Expected(c, field) ==
    IF field \in req[c].dropped THEN "" ELSE flow[req[c].flow][field]

Stale(c) ==
    /\ "issued_at" \notin req[c].dropped
    /\ clock > WindowEnd(req[c].flow)

\* The checks of the request, in the code's order, by the decision that a
\* failure of each is reported as.
RequestChecks ==
    <<"invalid-provider-state", "state-expired", "state-mismatch", "redirect-uri-mismatch">>

Fails(c, check) ==
    \/ check = "invalid-provider-state" /\ "nonce" \in req[c].dropped
    \/ check = "state-expired" /\ Stale(c)
    \/ check = "state-mismatch" /\ Expected(c, "state") \notin {"", req[c].state}
    \/ check = "redirect-uri-mismatch"
       /\ Expected(c, "redirect_uri") \notin {"", req[c].redirect_uri}

CheckRequest(c) ==
    /\ pc[c] = "check"
    /\ \/ /\ \A i \in DOMAIN RequestChecks : ~Fails(c, RequestChecks[i])
          /\ Continue(c, "stamp")
          /\ UNCHANGED locals
       \/ \E i \in DOMAIN RequestChecks :
             /\ Fails(c, RequestChecks[i])
             /\ \A j \in 1..(i - 1) : ~Fails(c, RequestChecks[j])
             /\ Deny(c, RequestChecks[i])
    /\ UNCHANGED <<global, kept>>

\* time.Now().Add(stateTTL), evaluated before consumeNonce is called.
StampExpiry(c) ==
    /\ pc[c] = "stamp"
    /\ expires' = [expires EXCEPT ![c] = clock + stateTTL]
    /\ Continue(c, "load")
    /\ UNCHANGED <<global, kept, cfg, prov, token>>

\* consumeNonce loads the store; without one the whole guard is skipped.
LoadStore(c) ==
    /\ pc[c] = "load"
    /\ st' = [st EXCEPT ![c] = storePtr]
    /\ Continue(c, IF storePtr = NoStore THEN "token" ELSE "prune")
    /\ UNCHANGED <<global, req, consumed, locals>>

\* The call's row of auth_nonce, in the database of its store.
Row(c) == authNonce[st[c]][req[c].flow]

\* Mutant: expires_at <= NOW().
ExpiredEarly(row) == row # None /\ row <= DBClock

Expired(row) == row # None /\ row < DBClock

\* ConsumeNonce's DELETE, whose failure is ignored.
PruneNonces(c) ==
    /\ pc[c] = "prune"
    /\ Continue(c, "insert")
    /\ \/ authNonce' = [authNonce EXCEPT ![st[c]] =
                            [f \in Flows |-> IF Expired(@[f]) THEN None ELSE @[f]]]
       \/ UNCHANGED authNonce
    /\ UNCHANGED <<outside, pointers, snapshot>>

\* The INSERT takes effect: the row of the call's nonce was not there.
CommitNonce(c) ==
    /\ Row(c) = None
    /\ authNonce' = [authNonce EXCEPT ![st[c]][req[c].flow] = expires[c]]
    /\ consumed' = [consumed EXCEPT ![c] = clock]

\* The INSERT fails, or is committed and its answer lost.
ReplayCheckFailed(c) == Deny(c, "replay-check-failed")

\* Mutant: an INSERT whose answer was lost is tried again by the same call.
InsertNonceRetried(c) ==
    /\ pc[c] = "insert"
    /\ \/ CommitNonce(c) /\ Continue(c, "token") /\ UNCHANGED locals
       \/ CommitNonce(c) /\ Deny(c, "replay-detected")
       \/ /\ Row(c) # None
          /\ Deny(c, "replay-detected")
          /\ UNCHANGED <<authNonce, consumed>>
    /\ UNCHANGED <<outside, pointers, req, st>>

InsertNonce(c) ==
    /\ pc[c] = "insert"
    /\ \/ CommitNonce(c) /\ Continue(c, "token") /\ UNCHANGED locals
       \/ CommitNonce(c) /\ ReplayCheckFailed(c)
       \/ ReplayCheckFailed(c) /\ UNCHANGED <<authNonce, consumed>>
       \/ /\ Row(c) # None
          /\ Deny(c, "replay-detected")
          /\ UNCHANGED <<authNonce, consumed>>
    /\ UNCHANGED <<outside, pointers, req, st>>

-----------------------------------------------------------------------------
(* The token endpoint of the call's provider: a code for the call's client, *)
(* under whatever secret and scopes, used once, and whatever else the       *)
(* provider compares. A secret it does not accept is an exchange-failed.    *)

Redeemable(c) ==
    LET k == code[req[c].code]
    IN  /\ k # None
        /\ req[c].code \notin redeemed
        /\ Registration(k.provider) = Registration(prov[c])
        /\ "code_verifier" \in IdPChecks => k.flow = req[c].flow
        /\ "redirect_uri" \in IdPChecks => k.redirect_uri = req[c].redirect_uri

Redeem(c) == redeemed' = redeemed \cup {req[c].code}

\* Mutant: the tokens of a code are kept, and given to whoever presents it again.
TokenExchangeCached(c) ==
    /\ pc[c] = "token"
    /\ \/ /\ Redeemable(c) \/ req[c].code \in redeemed
          /\ Redeem(c)
          /\ token' = [token EXCEPT ![c] = [nonce |-> code[req[c].code].flow,
                                            claims |-> code[req[c].code].claims]]
          /\ Continue(c, "verify")
          /\ UNCHANGED <<cfg, prov, expires>>
       \/ Deny(c, "exchange-failed") /\ UNCHANGED redeemed
    /\ UNCHANGED <<clock, flow, code, pointers, authNonce, kept>>

TokenExchange(c) ==
    /\ pc[c] = "token"
    /\ \/ /\ Redeemable(c)
          /\ Redeem(c)
          /\ token' = [token EXCEPT ![c] = [nonce |-> code[req[c].code].flow,
                                            claims |-> code[req[c].code].claims]]
          /\ Continue(c, "verify")
          /\ UNCHANGED <<cfg, prov, expires>>
       \/ /\ (Redeemable(c) /\ Redeem(c)) \/ UNCHANGED redeemed
          /\ Deny(c, "exchange-failed")
    /\ UNCHANGED <<clock, flow, code, pointers, authNonce, kept>>

Subject(claims) == AsString(Lookup(claims, "sub"))

\* Mutant: the nonce of the id_token is not compared.
VerifyIDTokenAnyNonce(c) ==
    /\ pc[c] = "verify"
    /\ \/ Deny(c, "verify-failed")
       \/ /\ Subject(token[c].claims) = ""
          /\ Deny(c, "missing-subject")
       \/ /\ Subject(token[c].claims) # ""
          /\ Continue(c, "userinfo")
          /\ UNCHANGED locals
    /\ UNCHANGED <<global, kept>>

\* The id_token is absent or fails verification, carries another flow's nonce,
\* or has no subject.
VerifyIDToken(c) ==
    /\ pc[c] = "verify"
    /\ \/ Deny(c, "verify-failed")
       \/ /\ token[c].nonce # req[c].flow
          /\ Deny(c, "nonce-mismatch")
       \/ /\ token[c].nonce = req[c].flow
          /\ Subject(token[c].claims) = ""
          /\ Deny(c, "missing-subject")
       \/ /\ token[c].nonce = req[c].flow
          /\ Subject(token[c].claims) # ""
          /\ Continue(c, "userinfo")
          /\ UNCHANGED locals
    /\ UNCHANGED <<global, kept>>

\* The id_token's claims with the userinfo's over them.
Merge(claims, ui) ==
    [key \in DOMAIN claims \cup DOMAIN ui |->
        IF key \in DOMAIN ui THEN ui[key] ELSE claims[key]]

\* What the host finds under silo_link_by_email. A claim of that name in the
\* merged claims stays where the code sets none.
Linked(c, merged) ==
    LET signed == token[c].claims
    IN  \/ /\ cfg[c].link_by_email
           /\ EmailVerified(signed)
           /\ AsString(Lookup(signed, "email")) # ""
        \/ Lookup(merged, "silo_link_by_email") = JBool(TRUE)

Accept(c, merged) ==
    /\ Goto(c, "done")
    /\ reason' = [reason EXCEPT ![c] = "success"]
    /\ identity' = [identity EXCEPT ![c] =
                        [subject |-> DeriveIdentity(merged).subject,
                         email   |-> DeriveIdentity(merged).email,
                         role    |-> ResolveRole(merged, cfg[c].claim_role_mapping),
                         link    |-> Linked(c, merged)]]
    /\ expires' = [expires EXCEPT ![c] = None]
    /\ token' = [token EXCEPT ![c] = None]
    /\ UNCHANGED <<cfg, prov>>

\* ReasonSubjectMismatch: userinfo names a subject that is not the id_token's.
SubjectMismatch(c, ui) == Subject(ui) \notin {"", Subject(token[c].claims)}

EmailGate(c) == cfg[c].email_verified_required => EmailVerified(token[c].claims)

\* Mutant: the email gate reads the merged claims.
DecideMerged(c, merged) ==
    LET gate == cfg[c].email_verified_required => EmailVerified(merged)
    IN  \/ ~gate /\ Deny(c, "email-unverified")
        \/ /\ gate
           /\ ~EvaluateFilters(merged, cfg[c].claim_filters)
           /\ Deny(c, "claim-filter-rejected")
        \/ /\ gate
           /\ EvaluateFilters(merged, cfg[c].claim_filters)
           /\ Accept(c, merged)

Decide(c, merged) ==
    \/ ~EmailGate(c) /\ Deny(c, "email-unverified")
    \/ /\ EmailGate(c)
       /\ ~EvaluateFilters(merged, cfg[c].claim_filters)
       /\ Deny(c, "claim-filter-rejected")
    \/ /\ EmailGate(c)
       /\ EvaluateFilters(merged, cfg[c].claim_filters)
       /\ Accept(c, merged)

FinishLogin(c, ui) ==
    /\ pc[c] = "userinfo"
    /\ \/ /\ ui = NoUserInfo
          /\ Decide(c, token[c].claims)
       \/ /\ ui # NoUserInfo
          /\ SubjectMismatch(c, ui)
          /\ Deny(c, "subject-mismatch")
       \/ /\ ui # NoUserInfo
          /\ ~SubjectMismatch(c, ui)
          /\ Decide(c, Merge(token[c].claims, ui))
    /\ UNCHANGED <<global, kept>>

-----------------------------------------------------------------------------

Requests == [flow : {f \in Flows : Issued(f)}, code : Codes, state : States,
             redirect_uri : Redirects, dropped : Drops]

CallStep(c) ==
    \/ ReadProvider(c)
    \/ CheckRequest(c)
    \/ StampExpiry(c)
    \/ LoadStore(c)
    \/ PruneNonces(c)
    \/ InsertNonce(c)
    \/ TokenExchange(c)
    \/ VerifyIDToken(c)
    \/ \E ui \in UserInfos : FinishLogin(c, ui)

Next ==
    \/ \E a \in Appliers : Reconfigure(a)
    \/ Restart
    \/ Tick
    \/ \E f \in Flows, state \in States, redirect \in Redirects :
            InitAuthorize(f, state, redirect)
    \/ \E k \in Codes, f \in Flows, claims \in IdClaims : IdPAuthorize(k, f, claims)
    \/ \E c \in Calls : \E r \in Requests, allowed \in BOOLEAN : ExchangeCode(c, r, allowed)
    \/ \E c \in Calls : CallStep(c)

Spec == Init /\ [][Next]_vars

-----------------------------------------------------------------------------
(* Correctness *)

Labels == {"idle", "provider", "check", "stamp", "load", "prune", "insert", "token",
           "verify", "userinfo", "done"}

ProviderState ==
    [provider : Providers, state : States, redirect_uri : Redirects, issued_at : Nat]

Code == [flow : Flows, provider : Providers, redirect_uri : Redirects,
         claims : IdClaims]

Request == [flow : Flows, code : Codes, state : States,
            redirect_uri : Redirects, dropped : Drops]

PointersType ==
    /\ cfgPtr \in Configs \cup {ZeroConfig}
    /\ provPtr \in Providers \cup {NoProvider}
    /\ storePtr \in Databases \cup {NoStore}
    /\ applying \in [Appliers -> [step : {"idle", "provider", "store"},
                                  prov : Providers \cup {NoProvider}]]

TablesType ==
    /\ clock \in Nat
    /\ flow \in [Flows -> ProviderState \cup {None}]
    /\ code \in [Codes -> Code \cup {None}]
    /\ redeemed \subseteq Codes
    /\ authNonce \in [Databases -> [Flows -> Int \cup {None}]]

CallsType ==
    /\ pc \in [Calls -> Labels]
    /\ req \in [Calls -> Request \cup {None}]
    /\ \A c \in Calls : pc[c] # "idle" => req[c] \in Request
    /\ cfg \in [Calls -> Configs \cup {ZeroConfig}]
    /\ prov \in [Calls -> Providers \cup {NoProvider}]
    /\ expires \in [Calls -> Int \cup {None}]
    /\ st \in [Calls -> Databases \cup {NoStore}]
    /\ token \in [Calls -> [nonce : Flows, claims : IdClaims] \cup {None}]
    /\ reason \in [Calls -> Reasons \cup {None}]
    /\ DOMAIN identity = Calls
    /\ consumed \in [Calls -> Nat \cup {None}]

\* Type invariant of the pointers, tables and calls of the login path.
TypeOK == PointersType /\ TablesType /\ CallsType

Consumed(c) == consumed[c] # None

\* The two calls meet at one row of auth_nonce.
SameNonce(c, d) == req[c].flow = req[d].flow /\ st[c] = st[d]

\* Within the window in which a callback of the flow passes the stale-state
\* check, read on the database's clock, at most one call consumes the flow's
\* nonce in a database: pruning, overlapping calls and reconfigurations, lost
\* answers, restarts and a database_url that changes and changes back included.
AtMostOnceInWindow ==
    \A c, d \in Calls :
        /\ c # d
        /\ Consumed(c) /\ Consumed(d)
        /\ SameNonce(c, d)
        => \/ consumed[c] + Skew > WindowEnd(req[c].flow)
           \/ consumed[d] + Skew > WindowEnd(req[d].flow)

\* A login refused as a replay was preceded by another call that consumed the
\* same nonce in the same database: the guard turns away no first use.
ReplayVerdictSound ==
    \A c \in Calls :
        reason[c] = "replay-detected" =>
            \E d \in Calls \ {c} : Consumed(d) /\ SameNonce(c, d)

\* The login of c is the one its provider_state was issued for.
LoginIsBound(c) ==
    LET f == flow[req[c].flow]
        k == code[req[c].code]
    IN  /\ req[c].code \in redeemed
        /\ k # None
        /\ k.flow = req[c].flow
        /\ Registration(k.provider) = Registration(prov[c])
        /\ Registration(f.provider) = Registration(prov[c])
        /\ Expected(c, "state") \in {"", req[c].state}
        /\ Expected(c, "redirect_uri") \in {"", req[c].redirect_uri}
        /\ identity[c].subject \in {"", Subject(k.claims)}

\* An accepted login is the one its provider_state was issued for: the code it
\* redeemed was issued, for that flow, to the client of the provider it read and of
\* the one the flow was started with; the callback's state and redirect_uri are the flow's unless the
\* host lost them; and no other user's subject is returned.
AcceptedLoginIsBound == \A c \in Calls : Accepted(c) => LoginIsBound(c)

\* The email gate follows what the provider signed, whatever userinfo says and
\* whatever configuration comes meanwhile: a login accepted under
\* email_verified_required was signed as verified, and one refused for its email
\* was not. server.go asks for that; docs/setup-debug-flows.md describes a gate on
\* the merged claims, which userinfo could open or close.
EmailGateIsSigned ==
    \A c \in Calls :
        LET verified == EmailVerified(code[req[c].code].claims)
        IN  /\ Accepted(c) /\ cfg[c].email_verified_required => verified
            /\ reason[c] = "email-unverified" => ~verified

\* The login path as its host sees it: the issuer and client each flow was started
\* with, what each code was signed for, and what each accepted call was granted.
Started == [f \in Flows |-> IF Issued(f) THEN Registration(flow[f].provider) ELSE None]

Signed ==
    [k \in Codes |->
        IF code[k] = None THEN None
        ELSE [flow |-> code[k].flow, client |-> Registration(code[k].provider),
              subject |-> Subject(code[k].claims)]]

Granted ==
    [c \in Calls |->
        IF ~Accepted(c) THEN None
        ELSE [code |-> req[c].code, flow |-> req[c].flow,
              client |-> Registration(prov[c]), subject |-> identity[c].subject]]

\* None stands for nothing started, signed or granted.
ASSUME NoneAssumption ==
    /\ None \notin {Registration(p) : p \in Providers}
    /\ None \notin [flow : Flows, client : {Registration(p) : p \in Providers},
                   subject : {Subject(k) : k \in IdClaims}]

Service == INSTANCE LoginService WITH started <- Started, signed <- Signed, granted <- Granted

\* ExchangeCode implements LoginService: a step of the login path grants nothing,
\* or grants one call a login on a signed code of the flow and the client that
\* call used, and never two calls one code, however they overlap.
ImplementsLoginService == Service!ServiceSpec

-----------------------------------------------------------------------------
(* Why they hold: the inductive invariants behind the proofs. *)

\* A flow was issued in the past, and a call presents an issued flow.
PresentedFlowIssued ==
    /\ \A f \in Flows : Issued(f) => flow[f].issued_at <= clock
    /\ \A c \in Calls : pc[c] # "idle" => Issued(req[c].flow)

\* The expiry a call stamps lies at or after the end of its flow's window.
StampCoversWindow ==
    \A c \in Calls : pc[c] \in {"load", "prune", "insert"} =>
        expires[c] # None /\ expires[c] >= WindowEnd(req[c].flow)

\* So does every row, and every row is some call's.
RowCoversWindow ==
    \A db \in Databases, f \in Flows : authNonce[db][f] # None =>
        /\ Issued(f)
        /\ authNonce[db][f] >= WindowEnd(f)
        /\ \E d \in Calls : Consumed(d) /\ req[d].flow = f /\ st[d] = db

\* A row is not pruned before its flow's window has passed.
RowKept ==
    \A c \in Calls : Consumed(c) /\ DBClock <= WindowEnd(req[c].flow) => Row(c) # None

\* A call consumes its nonce once, in a store it loaded, and decides at its end.
CallPhases ==
    \A c \in Calls :
        /\ Consumed(c) => pc[c] \in {"token", "verify", "userinfo", "done"}
        /\ Consumed(c) \/ pc[c] \in {"prune", "insert"} => st[c] \in Databases
        /\ reason[c] # None => pc[c] = "done"

ReplayInv ==
    /\ PresentedFlowIssued
    /\ StampCoversWindow
    /\ RowCoversWindow
    /\ RowKept
    /\ CallPhases
    /\ AtMostOnceInWindow
    /\ ReplayVerdictSound

\* A code belongs to the provider of its flow.
CodeOfFlow ==
    \A k \in Codes : code[k] # None =>
        /\ Issued(code[k].flow)
        /\ code[k].provider = flow[code[k].flow].provider

\* A call that is past the check of its request passed it.
RequestChecked(c) ==
    pc[c] \in {"stamp", "load", "prune", "insert", "token", "verify", "userinfo"} =>
        /\ Expected(c, "state") \in {"", req[c].state}
        /\ Expected(c, "redirect_uri") \in {"", req[c].redirect_uri}

\* The token a call holds is the one its code was redeemed for.
TokenOfCode(c) ==
    pc[c] \in {"verify", "userinfo"} =>
        /\ req[c].code \in redeemed
        /\ code[req[c].code] # None
        /\ Registration(code[req[c].code].provider) = Registration(prov[c])
        /\ token[c].nonce = code[req[c].code].flow
        /\ token[c].claims = code[req[c].code].claims
        /\ pc[c] = "userinfo" => token[c].nonce = req[c].flow

DecidedAsSigned(c) ==
    LET verified == EmailVerified(code[req[c].code].claims)
    IN  /\ Accepted(c) => LoginIsBound(c)
        /\ Accepted(c) /\ cfg[c].email_verified_required => verified
        /\ reason[c] = "email-unverified" => code[req[c].code] # None /\ ~verified

BindingInv ==
    /\ CodeOfFlow
    /\ \A c \in Calls : RequestChecked(c) /\ TokenOfCode(c) /\ DecidedAsSigned(c)

-----------------------------------------------------------------------------
(* What comments of the code say, and the code does not do. *)

\* What store.go says of the nonce table: every call after the first with one
\* nonce is rejected.
ConsumedOnce ==
    \A c, d \in Calls :
        c # d /\ Consumed(c) /\ Consumed(d) => ~SameNonce(c, d)

\* What main.go says of the pointers: a login is judged by the configuration
\* its provider was built from.
GatesMatchProvider ==
    \A c \in Calls : Accepted(c) => cfg[c].provider = prov[c]

\* What server.go says of linking: it is offered only for the email the
\* provider signed as verified, and that is the email the host receives.
LinkedEmailIsSigned ==
    \A c \in Calls : Accepted(c) /\ identity[c].link =>
        LET signed == code[req[c].code].claims
        IN  /\ EmailVerified(signed)
            /\ identity[c].email = AsString(Lookup(signed, "email"))

\* What server.go says of the subject: it is pinned to the id_token's.
SubjectPinned ==
    \A c \in Calls :
        Accepted(c) => identity[c].subject = Subject(code[req[c].code].claims)

=============================================================================
