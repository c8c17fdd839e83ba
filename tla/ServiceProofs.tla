---------------------------- MODULE ServiceProofs ----------------------------
(***************************************************************************)
(* The login path implements LoginService: for any number of flows, codes, *)
(* calls, reconfigurations and restarts, a step grants nothing, or grants  *)
(* one call one login on a signed code that no other call was granted. And *)
(* it decides as the claim simulator has foretold, for any rules.          *)
(***************************************************************************)
EXTENDS BindingProofs, Simulator

\* A call holds its code from the token endpoint's answer on.
Holds(c) == pc[c] \in {"verify", "userinfo"} \/ Accepted(c)

\* No two calls hold one code.
OneHolder ==
    \A c, d \in Calls : c # d /\ Holds(c) /\ Holds(d) => req[c].code # req[d].code

\* The call takes a code the provider has given no tokens for yet.
TakesCode(c) == pc[c] = "token" /\ req[c].code \notin redeemed

\* A step of call c, seen from the service.
CallStepShape(c) ==
    /\ UNCHANGED <<flow, code, req>>
    /\ \A d \in Calls \ {c} : NotStepOf(d)
    /\ pc[c] \notin {"idle", "done"}
    /\ pc'[c] \in {"verify", "userinfo"} => TakesCode(c) \/ pc[c] = "verify"
    /\ reason'[c] = "success" => pc[c] = "userinfo"

\* The ways a step of a call ends: it moves on, is denied, or is accepted.
LEMMA ContinueHasShape ==
  ASSUME TypeOK, ReplayInv, NEW c \in Calls, NEW label, Continue(c, label),
         pc[c] \notin {"idle", "done"}, UNCHANGED <<flow, code, req>>,
         \A d \in Calls \ {c} : cfg'[d] = cfg[d] /\ prov'[d] = prov[d] /\ token'[d] = token[d],
         label \in {"verify", "userinfo"} => TakesCode(c) \/ pc[c] = "verify"
  PROVE  CallStepShape(c)
<1>1. pc'[c] = label /\ reason' = reason /\ \A d \in Calls \ {c} : NotStepOf(d)
  BY ContinueAlone DEF TypeOK
<1>2. reason[c] # "success"
  BY NoneIsNoReason DEF ReplayInv, CallPhases
<1> QED
  BY <1>1, <1>2 DEF CallStepShape

LEMMA DenyHasShape ==
  ASSUME TypeOK, NEW c \in Calls, NEW r, Deny(c, r), r # "success",
         pc[c] \notin {"idle", "done"}, UNCHANGED <<flow, code, req>>
  PROVE  CallStepShape(c)
<1>1. pc'[c] = "done" /\ reason'[c] = r /\ \A d \in Calls \ {c} : NotStepOf(d)
  BY DenyAlone DEF TypeOK
<1> QED
  BY <1>1 DEF CallStepShape

LEMMA AcceptHasShape ==
  ASSUME TypeOK, NEW c \in Calls, NEW merged, Accept(c, merged),
         pc[c] = "userinfo", UNCHANGED <<flow, code, req>>
  PROVE  CallStepShape(c)
<1>1. pc'[c] = "done" /\ \A d \in Calls \ {c} : NotStepOf(d)
  BY DEF Accept, Goto, NotStepOf, TypeOK, CallsType
<1> QED
  BY <1>1 DEF CallStepShape

LEMMA CallStepHasShape ==
  ASSUME TypeOK, ReplayInv, NEW c \in Calls, CallStep(c)
  PROVE  CallStepShape(c)
<1> USE DEF global, outside, kept, locals, snapshot
<1>1. CASE ReadProvider(c)
  <2>1. pc[c] = "provider" /\ UNCHANGED <<flow, code, req>>
    BY <1>1 DEF ReadProvider
  <2>2. \/ Deny(c, "not-configured")
        \/ prov' = [prov EXCEPT ![c] = provPtr] /\ Continue(c, "check") /\ UNCHANGED <<cfg, token>>
    BY <1>1 DEF ReadProvider
  <2> QED
    BY <2>1, <2>2, DenyHasShape, ContinueHasShape DEF TypeOK, CallsType
<1>2. CASE CheckRequest(c)
  <2>1. pc[c] = "check" /\ UNCHANGED <<flow, code, req>>
    BY <1>2 DEF CheckRequest
  <2>2. \/ Continue(c, "stamp") /\ UNCHANGED locals
        \/ \E i \in DOMAIN RequestChecks : Deny(c, RequestChecks[i])
    BY <1>2, Zenon DEF CheckRequest
  <2>3. \A i \in DOMAIN RequestChecks : RequestChecks[i] # "success"
    BY DEF RequestChecks
  <2> QED
    BY <2>1, <2>2, <2>3, DenyHasShape, ContinueHasShape
<1>3. CASE StampExpiry(c)
  BY <1>3, ContinueHasShape DEF StampExpiry
<1>4. CASE LoadStore(c)
  BY <1>4, ContinueHasShape DEF LoadStore
<1>5. CASE PruneNonces(c)
  BY <1>5, ContinueHasShape DEF PruneNonces
<1>6. CASE InsertNonce(c)
  <2>1. pc[c] = "insert" /\ UNCHANGED <<flow, code, req>>
    BY <1>6 DEF InsertNonce
  <2>2. \/ Continue(c, "token") /\ UNCHANGED locals
        \/ \E r \in {"replay-check-failed", "replay-detected"} : Deny(c, r)
    BY <1>6 DEF InsertNonce, ReplayCheckFailed
  <2> QED
    BY <2>1, <2>2, DenyHasShape, ContinueHasShape
<1>7. CASE TokenExchange(c)
  <2>1. pc[c] = "token" /\ UNCHANGED <<flow, code, req>>
    BY <1>7 DEF TokenExchange
  <2>2. \/ /\ Redeemable(c) /\ Continue(c, "verify") /\ UNCHANGED <<cfg, prov>>
           /\ \A d \in Calls \ {c} : token'[d] = token[d]
        \/ Deny(c, "exchange-failed")
    BY <1>7 DEF TokenExchange, TypeOK, CallsType
  <2>3. Redeemable(c) => TakesCode(c)
    BY <2>1 DEF Redeemable, TakesCode
  <2> QED
    BY <2>1, <2>2, <2>3, DenyHasShape, ContinueHasShape
<1>8. CASE VerifyIDToken(c)
  <2>1. pc[c] = "verify" /\ UNCHANGED <<flow, code, req>>
    BY <1>8 DEF VerifyIDToken
  <2>2. \/ \E r \in {"verify-failed", "nonce-mismatch", "missing-subject"} : Deny(c, r)
        \/ Continue(c, "userinfo") /\ UNCHANGED locals
    BY <1>8, Zenon DEF VerifyIDToken
  <2> QED
    BY <2>1, <2>2, DenyHasShape, ContinueHasShape
<1>9. ASSUME NEW ui \in UserInfos, FinishLogin(c, ui) PROVE CallStepShape(c)
  <2>1. pc[c] = "userinfo" /\ UNCHANGED <<flow, code, req>>
    BY <1>9 DEF FinishLogin
  <2>2. \/ \E r \in {"subject-mismatch", "email-unverified", "claim-filter-rejected"} : Deny(c, r)
        \/ Accept(c, token[c].claims)
        \/ Accept(c, Merge(token[c].claims, ui))
    BY <1>9, Zenon DEF FinishLogin, Decide
  <2> QED
    BY <2>1, <2>2, DenyHasShape, AcceptHasShape
<1> QED
  BY <1>1, <1>2, <1>3, <1>4, <1>5, <1>6, <1>7, <1>8, <1>9 DEF CallStep

\* The host's call arrives: it may be turned away, and touches no other.
LEMMA ArrivalHasShape ==
  ASSUME TypeOK, ReplayInv, NEW c \in Calls, NEW r \in Requests, NEW allowed \in BOOLEAN,
         ExchangeCode(c, r, allowed)
  PROVE  /\ UNCHANGED <<flow, code>>
         /\ \A d \in Calls \ {c} : NotStepOf(d)
         /\ reason[c] # "success" /\ reason'[c] # "success"
         /\ pc'[c] \notin {"verify", "userinfo"}
<1>1. pc[c] = "idle" /\ \A d \in Calls \ {c} : req'[d] = req[d]
  BY DEF ExchangeCode, TypeOK, CallsType
<1>2. reason[c] = None
  BY <1>1 DEF ReplayInv, CallPhases
<1>3. UNCHANGED <<flow, code>>
  BY DEF ExchangeCode, global, outside
<1>4. CASE Deny(c, "rate-limited")
  BY <1>1, <1>2, <1>3, <1>4, DenyAlone, NoneIsNoReason DEF TypeOK
<1>5. CASE /\ cfg' = [cfg EXCEPT ![c] = cfgPtr]
           /\ Continue(c, "provider")
           /\ UNCHANGED <<prov, expires, token>>
  BY <1>1, <1>2, <1>3, <1>5, ContinueAlone, NoneIsNoReason DEF TypeOK, CallsType
<1> QED
  BY <1>4, <1>5 DEF ExchangeCode

\* Reconfigurations, restarts, time and the provider's sign-ins are steps of no
\* call.
LEMMA OutsideIsNoCall ==
  ASSUME TypeOK,
         \/ \E a \in Appliers : Reconfigure(a)
         \/ Restart
         \/ Tick
         \/ \E f \in Flows, state \in States, redirect \in Redirects :
                InitAuthorize(f, state, redirect)
         \/ \E k \in Codes, f \in Flows, claims \in IdClaims : IdPAuthorize(k, f, claims)
         \/ UNCHANGED vars,
         NEW c \in Calls
  PROVE  NotStepOf(c)
<1>1. CASE Restart
  BY <1>1 DEF Restart, NotStepOf, TypeOK, CallsType, kept, result
<1>2. CASE UNCHANGED <<pc, snapshot, result>>
  BY <1>2 DEF NotStepOf, snapshot, kept, locals, result
<1> QED
  BY <1>1, <1>2 DEF Reconfigure, Tick, InitAuthorize, IdPAuthorize, vars

-----------------------------------------------------------------------------
(* No two calls hold one code *)

LEMMA OneHolderStep ==
  ASSUME TypeOK, ReplayInv, BindingInv, OneHolder, [Next]_vars
  PROVE  OneHolder'
<1>1. \A d \in Calls : NotStepOf(d) /\ Holds(d)' => Holds(d) /\ req'[d] = req[d]
  BY DEF NotStepOf, Holds, Accepted
<1>2. \A d \in Calls : Holds(d) => req[d].code \in redeemed
  BY DEF BindingInv, TokenOfCode, DecidedAsSigned, LoginIsBound, Holds
<1>3. ASSUME \A d \in Calls : NotStepOf(d) PROVE OneHolder'
  BY <1>1, <1>3 DEF OneHolder
<1>4. ASSUME NEW c \in Calls, \A d \in Calls \ {c} : NotStepOf(d),
             Holds(c)' => req'[c] = req[c] /\ (Holds(c) \/ TakesCode(c))
      PROVE  OneHolder'
  <2>1. ASSUME NEW d \in Calls, d # c, Holds(c)', Holds(d)'
        PROVE  req'[c].code # req'[d].code
    BY <1>1, <1>2, <1>4, <2>1 DEF OneHolder, TakesCode
  <2>2. ASSUME NEW a \in Calls, NEW b \in Calls, a # b, a # c, b # c, Holds(a)', Holds(b)'
        PROVE  req'[a].code # req'[b].code
    BY <1>1, <1>4, <2>2 DEF OneHolder
  <2> QED
    BY <2>1, <2>2 DEF OneHolder
<1>5. ASSUME NEW c \in Calls, CallStep(c) PROVE OneHolder'
  <2>1. CallStepShape(c)
    BY <1>5, CallStepHasShape
  <2>2. Holds(c)' => Holds(c) \/ TakesCode(c)
    BY <2>1 DEF CallStepShape, Holds, Accepted
  <2> QED
    BY <1>4, <2>1, <2>2 DEF CallStepShape
<1>6. ASSUME NEW c \in Calls, NEW r \in Requests, NEW allowed \in BOOLEAN,
             ExchangeCode(c, r, allowed)
      PROVE  OneHolder'
  <2>1. ~Holds(c)'
    BY <1>6, ArrivalHasShape DEF Holds, Accepted
  <2> QED
    BY <1>4, <1>6, <2>1, ArrivalHasShape
<1> QED
  BY <1>3, <1>5, <1>6, OutsideIsNoCall DEF Next

LEMMA OneHolderInvariant == Spec => []OneHolder
<1>1. Init => OneHolder
  BY NoneIsNoReason DEF Init, OneHolder, Holds, Accepted
<1>2. TypeOK /\ ReplayInv /\ BindingInv /\ OneHolder /\ [Next]_vars => OneHolder'
  BY OneHolderStep
<1> QED
  BY <1>1, <1>2, TypeCorrect, ReplayInvariant, BindingInvariant, PTL DEF Spec

-----------------------------------------------------------------------------
(* Every step is one of the service *)

\* Steps that decide no login, and start and sign none, are invisible.
LEMMA InvisibleStep ==
  ASSUME UNCHANGED <<flow, code>>,
         \A c \in Calls : \/ NotStepOf(c)
                          \/ reason[c] # "success" /\ reason'[c] # "success"
  PROVE  UNCHANGED Service!service
<1>1. Started' = Started
  BY DEF Started, Issued
<1>2. Signed' = Signed
  BY DEF Signed
<1>3. Granted' = Granted
  <2>1. ASSUME NEW c \in Calls
        PROVE  /\ Accepted(c)' <=> Accepted(c)
               /\ Accepted(c) => req'[c] = req[c] /\ prov'[c] = prov[c]
                                   /\ identity'[c] = identity[c]
    BY <2>1 DEF NotStepOf, Accepted
  <2> QED
    BY <2>1 DEF Granted, Accepted
<1> QED
  BY <1>1, <1>2, <1>3 DEF Service!service

\* A flow of InitAuthorize is a login started with the live provider.
LEMMA InitAuthorizeBegins ==
  ASSUME TypeOK, NEW f \in Flows, NEW state \in States, NEW redirect \in Redirects,
         InitAuthorize(f, state, redirect)
  PROVE  Service!ServiceNext
<1>1. /\ ~Issued(f)
      /\ \A g \in Flows : g # f => flow'[g] = flow[g]
      /\ UNCHANGED <<code, reason, req, prov, identity>>
  BY DEF InitAuthorize, TypeOK, TablesType, snapshot, kept, locals, result
<1>2. Started' = [Started EXCEPT ![f] = Started'[f]]
  BY <1>1 DEF Started, Issued
<1>3. Started[f] = None
  BY <1>1 DEF Started, Issued
<1>4. UNCHANGED <<Signed, Granted>>
  BY <1>1 DEF Signed, Granted, Accepted
<1>5. Service!Begin(f, Started'[f])
  BY <1>2, <1>3, <1>4 DEF Service!Begin
<1> QED
  BY <1>5 DEF Service!ServiceNext

\* A code of the provider is signed for a login that was started.
LEMMA IdPAuthorizeSigns ==
  ASSUME TypeOK, NEW k \in Codes, NEW f \in Flows, NEW claims \in IdClaims,
         IdPAuthorize(k, f, claims)
  PROVE  Service!ServiceNext
<1>1. /\ code[k] = None /\ Issued(f)
      /\ code' = [code EXCEPT ![k] = [flow |-> f, provider |-> flow[f].provider,
                                      redirect_uri |-> flow[f].redirect_uri,
                                      claims |-> claims]]
      /\ UNCHANGED <<flow, reason, req, prov, identity>>
  BY DEF IdPAuthorize, snapshot, kept, locals, result
<1>2. UNCHANGED <<Started, Granted>>
  BY <1>1 DEF Started, Issued, Granted, Accepted
<1>3. CASE code'[k] = None
  <2>1. Signed' = Signed
    BY <1>1, <1>3 DEF Signed, TypeOK, TablesType
  <2> QED
    BY <1>2, <2>1 DEF Service!ServiceNext, Service!service
<1>4. CASE code'[k] # None
  <2> DEFINE s == [flow |-> f, client |-> Registration(flow[f].provider), subject |-> Subject(claims)]
  <2>1. flow[f].provider \in Providers
    BY <1>1 DEF TypeOK, TablesType, Issued, ProviderState
  <2>2. s # None /\ Started[f] = Registration(flow[f].provider) /\ Started[f] # None
    BY <1>1, <2>1, NoneAssumption DEF Started, Issued
  <2>3. Signed[k] = None /\ Signed'[k] = s
    BY <1>1, <1>4 DEF Signed, TypeOK, TablesType
  <2>4. Signed' = [Signed EXCEPT ![k] = s]
    BY <1>1, <2>3 DEF Signed, TypeOK, TablesType
  <2>5. Service!Sign(k, f, Signed'[k].subject)
    BY <1>2, <2>2, <2>3, <2>4 DEF Service!Sign
  <2> QED
    BY <2>2, <2>3, <2>5 DEF Service!ServiceNext
<1> QED
  BY <1>3, <1>4

\* An accepted call is granted the login of its code, which is still unused.
LEMMA AcceptanceGrants ==
  ASSUME TypeOK, ReplayInv, BindingInv, BindingInv', OneHolder, NEW c \in Calls,
         CallStep(c), reason'[c] = "success"
  PROVE  Service!ServiceNext
<1>1. CallStepShape(c) /\ pc[c] = "userinfo"
  BY CallStepHasShape DEF CallStepShape
<1>2. ~Accepted(c) /\ req[c] \in Request /\ req[c].code \in Codes
  BY <1>1, NoneIsNoReason
     DEF ReplayInv, CallPhases, Accepted, TypeOK, CallsType, Request
<1> DEFINE k == req[c].code
<1>3. /\ UNCHANGED <<flow, code, req>> /\ Accepted(c)'
      /\ code[k] # None
      /\ code[k].flow = req[c].flow
      /\ Registration(code[k].provider) = Registration(prov'[c])
      /\ identity'[c].subject \in {"", Subject(code[k].claims)}
  BY <1>1 DEF CallStepShape, BindingInv, DecidedAsSigned, LoginIsBound, Accepted
<1>4. UNCHANGED <<Started, Signed>>
  BY <1>3 DEF Started, Issued, Signed
<1>5. Signed[k] = [flow |-> code[k].flow, client |-> Registration(code[k].provider),
                   subject |-> Subject(code[k].claims)]
  BY <1>2, <1>3 DEF Signed
<1>a. /\ Signed[k].flow = req[c].flow
      /\ Signed[k].client = Registration(prov'[c])
      /\ Signed[k].subject = Subject(code[k].claims)
  <2>1. \A a, b, s : LET r == [flow |-> a, client |-> b, subject |-> s]
                     IN  r.flow = a /\ r.client = b /\ r.subject = s
    OBVIOUS
  <2>2. code[k].flow = req[c].flow /\ Registration(code[k].provider) = Registration(prov'[c])
    BY <1>3
  <2> QED
    BY <1>5, <2>1, <2>2
<1>6. Signed[k] # None
  <2>1. code[k] \in Code
    BY <1>2, <1>3 DEF TypeOK, TablesType
  <2> QED
    BY <1>5, <2>1, NoneAssumption DEF Code
<1>7. Granted[c] = None
  BY <1>2 DEF Granted, Accepted
<1>8. Service!Unused(k)
  <2> SUFFICES ASSUME NEW d \in Calls, Granted[d] # None PROVE Granted[d].code # k
    BY DEF Service!Unused
  <2>1. Accepted(d) /\ d # c /\ Granted[d].code = req[d].code
    BY <1>7 DEF Granted, Accepted
  <2> QED
    BY <1>1, <2>1 DEF OneHolder, Holds
<1>9. \A d \in Calls : d # c => Granted'[d] = Granted[d]
  BY <1>1 DEF CallStepShape, NotStepOf, Granted, Accepted
<1>10. Granted'[c] = [code |-> k, flow |-> Signed[k].flow, client |-> Signed[k].client,
                      subject |-> identity'[c].subject]
  BY <1>3, <1>a DEF Granted, Accepted
<1>11. Granted' = [Granted EXCEPT ![c] = Granted'[c]]
  BY <1>9 DEF Granted, Accepted
<1>12. identity'[c].subject \in {"", Signed[k].subject}
  BY <1>3, <1>a
<1>13. Service!Grant(c, k)
  BY <1>4, <1>6, <1>7, <1>8, <1>10, <1>11, <1>12 DEF Service!Grant
<1> QED
  BY <1>2, <1>13 DEF Service!ServiceNext

LEMMA ServiceStep ==
  ASSUME TypeOK, ReplayInv, BindingInv, OneHolder, [Next]_vars
  PROVE  [Service!ServiceNext]_(Service!service)
<1>1. BindingInv'
  BY BindingStep
<1>2. ASSUME NEW c \in Calls, CallStep(c) PROVE [Service!ServiceNext]_(Service!service)
  <2>1. CASE reason'[c] = "success"
    BY <1>1, <1>2, <2>1, AcceptanceGrants
  <2>2. CASE reason'[c] # "success"
    <3>1. CallStepShape(c)
      BY <1>2, CallStepHasShape
    <3>2. reason[c] # "success"
      BY <3>1, NoneIsNoReason DEF CallStepShape, ReplayInv, CallPhases
    <3> QED
      BY <2>2, <3>1, <3>2, InvisibleStep DEF CallStepShape
  <2> QED
    BY <2>1, <2>2
<1>3. ASSUME NEW c \in Calls, NEW r \in Requests, NEW allowed \in BOOLEAN,
             ExchangeCode(c, r, allowed)
      PROVE  UNCHANGED Service!service
  BY <1>3, ArrivalHasShape, InvisibleStep
<1>4. CASE (\E a \in Appliers : Reconfigure(a)) \/ Restart \/ Tick \/ UNCHANGED vars
  <2>1. UNCHANGED <<flow, code>>
    BY <1>4 DEF Reconfigure, Restart, Tick, vars, global, outside
  <2> QED
    BY <1>4, <2>1, OutsideIsNoCall, InvisibleStep
<1> QED
  BY <1>2, <1>3, <1>4, InitAuthorizeBegins, IdPAuthorizeSigns DEF Next

\* ExchangeCode keeps the promise of LoginService to its host: each call is
\* granted one login at most, on a code signed for the flow and the provider it
\* used, and no code is granted twice.
THEOREM LoginServiceIsKept == Spec => ImplementsLoginService
<1>1. Init => Service!ServiceInit
  BY NoneIsNoReason
     DEF Init, Service!ServiceInit, Started, Signed, Granted, Issued, Accepted
<1>2. TypeOK /\ ReplayInv /\ BindingInv /\ OneHolder /\ [Next]_vars
        => [Service!ServiceNext]_(Service!service)
  BY ServiceStep
<1> QED
  BY <1>1, <1>2, TypeCorrect, ReplayInvariant, BindingInvariant, OneHolderInvariant, PTL
     DEF Spec, ImplementsLoginService, Service!ServiceSpec

-----------------------------------------------------------------------------
(* The claim simulator *)

\* A call asks userinfo only about a subject the id_token names.
SubjectKnown ==
    \A c \in Calls : pc[c] = "userinfo" => Subject(token[c].claims) # ""

LEMMA SubjectKnownStep ==
  ASSUME TypeOK, ReplayInv, SubjectKnown, [Next]_vars
  PROVE  SubjectKnown'
<1>1. ASSUME NEW c \in Calls, NotStepOf(c), pc'[c] = "userinfo"
      PROVE  Subject(token'[c].claims) # ""
  BY <1>1 DEF NotStepOf, SubjectKnown
<1>2. ASSUME NEW c \in Calls, CallStep(c) PROVE SubjectKnown'
  <2>1. \A d \in Calls \ {c} : NotStepOf(d)
    BY <1>2, CallStepHasShape DEF CallStepShape
  <2>2. ASSUME pc'[c] = "userinfo" PROVE Subject(token'[c].claims) # ""
    <3>1. pc[c] \in {"token", "verify"}
      BY <1>2, <2>2, CallStepHasShape DEF CallStepShape, TakesCode
    <3>2. VerifyIDToken(c) \/ TokenExchange(c)
      BY <1>2, <3>1
         DEF CallStep, ReadProvider, CheckRequest, StampExpiry, LoadStore, PruneNonces,
             InsertNonce, FinishLogin
    <3>3. CASE TokenExchange(c)
      BY <2>2, <3>3 DEF TokenExchange, Continue, Deny, Goto, TypeOK, CallsType
    <3>4. CASE VerifyIDToken(c)
      <4>1. \/ \E r \in {"verify-failed", "nonce-mismatch", "missing-subject"} : Deny(c, r)
            \/ Subject(token[c].claims) # "" /\ UNCHANGED locals
        BY <3>4, Zenon DEF VerifyIDToken
      <4>2. \A r : ~Deny(c, r)
        BY <2>2 DEF Deny, Goto, TypeOK, CallsType
      <4> QED
        BY <4>1, <4>2 DEF locals
    <3> QED
      BY <3>2, <3>3, <3>4
  <2> QED
    BY <1>1, <2>1, <2>2 DEF SubjectKnown
<1>3. ASSUME NEW c \in Calls, NEW r \in Requests, NEW allowed \in BOOLEAN,
             ExchangeCode(c, r, allowed)
      PROVE  SubjectKnown'
  BY <1>1, <1>3, ArrivalHasShape DEF SubjectKnown
<1>4. ASSUME \A c \in Calls : NotStepOf(c) PROVE SubjectKnown'
  BY <1>1, <1>4 DEF SubjectKnown
<1> QED
  BY <1>2, <1>3, <1>4, OutsideIsNoCall DEF Next

LEMMA SubjectKnownInvariant == Spec => []SubjectKnown
<1>1. Init => SubjectKnown
  BY DEF Init, SubjectKnown
<1>2. TypeOK /\ ReplayInv /\ SubjectKnown /\ [Next]_vars => SubjectKnown'
  BY SubjectKnownStep
<1> QED
  BY <1>1, <1>2, TypeCorrect, ReplayInvariant, PTL DEF Spec

\* A body without rules leaves the live ones, and one with all of them leaves none.
LEMMA PreviewIsHere ==
  ASSUME NEW k, NEW live, NEW claims
  PROVE  /\ HandleSimulateClaims(live, PageBody(k), claims) =
              HandleSimulateClaims(k, <<>>, claims)
         /\ HandleSimulateClaims(k, <<>>, claims).allowed <=>
              /\ EvaluateFilters(claims, k.claim_filters)
              /\ k.email_verified_required => EmailVerified(claims)
              /\ DeriveIdentity(claims).subject # ""
         /\ HandleSimulateClaims(k, <<>>, claims).role =
              ResolveRole(claims, k.claim_role_mapping)
         /\ HandleSimulateClaims(k, <<>>, claims).identity = DeriveIdentity(claims)
<1>1. \A own : \A field \in {"filters", "role_mapping", "email_verified_required"} :
        Override(<<>>, field, own) = own
  BY DEF Override
<1>2. /\ Override(PageBody(k), "filters", live.claim_filters) = k.claim_filters
      /\ Override(PageBody(k), "role_mapping", live.claim_role_mapping) = k.claim_role_mapping
      /\ Override(PageBody(k), "email_verified_required", live.email_verified_required)
           = k.email_verified_required
  BY DEF Override, PageBody
<1>3. /\ Override(<<>>, "filters", k.claim_filters) = k.claim_filters
      /\ Override(<<>>, "role_mapping", k.claim_role_mapping) = k.claim_role_mapping
      /\ Override(<<>>, "email_verified_required", k.email_verified_required)
           = k.email_verified_required
  BY <1>1
<1>4. TraceFilters(claims, k.claim_filters).pass <=> EvaluateFilters(claims, k.claim_filters)
  BY DEF TraceFilters, EvaluateFilters
<1>5. HandleSimulateClaims(live, PageBody(k), claims) = HandleSimulateClaims(k, <<>>, claims)
  BY <1>2, <1>3 DEF HandleSimulateClaims
<1>6. HandleSimulateClaims(k, <<>>, claims).allowed <=>
        /\ TraceFilters(claims, k.claim_filters).pass
        /\ k.email_verified_required => EmailVerified(claims)
        /\ DeriveIdentity(claims).subject # ""
  BY <1>3 DEF HandleSimulateClaims
<1>7. /\ HandleSimulateClaims(k, <<>>, claims).role = ResolveRole(claims, k.claim_role_mapping)
      /\ HandleSimulateClaims(k, <<>>, claims).identity = DeriveIdentity(claims)
  BY <1>3 DEF HandleSimulateClaims, ResolveRole
<1> QED
  BY <1>4, <1>5, <1>6, <1>7

\* A login decides as foretold.
LEMMA ForetoldStep ==
  ASSUME TypeOK, SubjectKnown, NEW c \in Calls, NEW ui \in UserInfos,
         FinishLogin(c, ui), SignedPartKept(c, ui)
  PROVE  LET here == HandleSimulateClaims(cfg[c], <<>>, Judged(c, ui))
         IN  /\ here.allowed <=> reason'[c] = "success"
             /\ here.allowed => /\ identity'[c].role = here.role
                                /\ identity'[c].subject = here.identity.subject
                                /\ identity'[c].email = here.identity.email
<1> DEFINE claims == Judged(c, ui)
<1>1. Subject(token[c].claims) # ""
  BY DEF FinishLogin, SubjectKnown
<1>2. /\ DeriveIdentity(claims).subject = Subject(token[c].claims)
      /\ EmailVerified(claims) <=> EmailVerified(token[c].claims)
  BY DEF SignedPartKept, DeriveIdentity, Subject, EmailVerified
<1>3. Decide(c, claims)
  <2>1. CASE ui = NoUserInfo
    BY <2>1, Zenon DEF FinishLogin, Judged
  <2>2. CASE ui # NoUserInfo
    <3>1. ~SubjectMismatch(c, ui)
      <4>1. CASE "sub" \in DOMAIN ui
        <5>1. Lookup(Merge(token[c].claims, ui), "sub") = Lookup(ui, "sub")
          BY <4>1 DEF Lookup, Merge
        <5>2. Lookup(ui, "sub") = Lookup(token[c].claims, "sub")
          BY <2>2, <5>1 DEF SignedPartKept, Judged
        <5> QED
          BY <5>2 DEF SubjectMismatch, Subject
      <4>2. CASE "sub" \notin DOMAIN ui
        BY <4>2 DEF SubjectMismatch, Subject, Lookup, AsString, IsKind, JNull
      <4> QED
        BY <4>1, <4>2
    <3> QED
      BY <2>2, <3>1, Zenon DEF FinishLogin, Judged
  <2> QED
    BY <2>1, <2>2
<1>4. EmailGate(c) <=> (cfg[c].email_verified_required => EmailVerified(claims))
  BY <1>2 DEF EmailGate
<1> DEFINE here == HandleSimulateClaims(cfg[c], <<>>, claims)
<1>5. /\ here.allowed <=> EvaluateFilters(claims, cfg[c].claim_filters) /\ EmailGate(c)
      /\ here.role = ResolveRole(claims, cfg[c].claim_role_mapping)
      /\ here.identity = DeriveIdentity(claims)
  BY <1>1, <1>2, <1>4, PreviewIsHere
<1> HIDE DEF here, claims
<1>6. CASE \E r \in {"email-unverified", "claim-filter-rejected"} :
             Deny(c, r) /\ ~(EvaluateFilters(claims, cfg[c].claim_filters) /\ EmailGate(c))
  <2>1. reason'[c] # "success"
    BY <1>6 DEF Deny, TypeOK, CallsType
  <2> QED
    BY <1>5, <1>6, <2>1 DEF here, claims
<1>7. CASE EmailGate(c) /\ EvaluateFilters(claims, cfg[c].claim_filters) /\ Accept(c, claims)
  <2>1. reason'[c] = "success"
    BY <1>7 DEF Accept, TypeOK, CallsType
  <2>2. /\ identity'[c].subject = DeriveIdentity(claims).subject
        /\ identity'[c].email = DeriveIdentity(claims).email
        /\ identity'[c].role = ResolveRole(claims, cfg[c].claim_role_mapping)
    BY <1>7 DEF Accept, TypeOK, CallsType
  <2> QED
    BY <1>5, <1>7, <2>1, <2>2 DEF here, claims
<1> QED
  BY <1>3, <1>6, <1>7, Zenon DEF Decide

\* What the simulator shows an operator, under the live rules or as a preview of
\* others, is what a login under those rules then does.
THEOREM SimulatorIsRight == Spec => SimulatorForetells
<1>1. TypeOK /\ SubjectKnown =>
        \A c \in Calls, ui \in UserInfos :
          FinishLogin(c, ui) /\ SignedPartKept(c, ui) =>
              LET here == HandleSimulateClaims(cfg[c], <<>>, Judged(c, ui))
                  preview == HandleSimulateClaims(cfgPtr, PageBody(cfg[c]), Judged(c, ui))
              IN  /\ preview = here
                  /\ here.allowed <=> reason'[c] = "success"
                  /\ here.allowed => /\ identity'[c].role = here.role
                                     /\ identity'[c].subject = here.identity.subject
                                     /\ identity'[c].email = here.identity.email
  <2> SUFFICES ASSUME TypeOK, SubjectKnown, NEW c \in Calls, NEW ui \in UserInfos,
                      FinishLogin(c, ui), SignedPartKept(c, ui)
               PROVE  LET here == HandleSimulateClaims(cfg[c], <<>>, Judged(c, ui))
                          preview == HandleSimulateClaims(cfgPtr, PageBody(cfg[c]), Judged(c, ui))
                      IN  /\ preview = here
                          /\ here.allowed <=> reason'[c] = "success"
                          /\ here.allowed =>
                                 /\ identity'[c].role = here.role
                                 /\ identity'[c].subject = here.identity.subject
                                 /\ identity'[c].email = here.identity.email
    BY Zenon
  <2>1. HandleSimulateClaims(cfgPtr, PageBody(cfg[c]), Judged(c, ui))
          = HandleSimulateClaims(cfg[c], <<>>, Judged(c, ui))
    <3>1. \A k, own, claims : HandleSimulateClaims(own, PageBody(k), claims)
                                = HandleSimulateClaims(k, <<>>, claims)
      BY PreviewIsHere
    <3> QED
      BY <3>1
  <2> QED
    BY <2>1, ForetoldStep
<1> QED
  BY <1>1, TypeCorrect, SubjectKnownInvariant, PTL DEF SimulatorForetells

=============================================================================
