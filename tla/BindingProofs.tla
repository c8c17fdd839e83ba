---------------------------- MODULE BindingProofs ----------------------------
(***************************************************************************)
(* An accepted login is the one its provider_state was issued for, with    *)
(* any host, any mix-up of codes and flows, and a provider that compares   *)
(* neither the PKCE verifier nor the redirect URI.                         *)
(***************************************************************************)
EXTENDS AuthFlowProofs

\* What is issued stays as it is, and what is redeemed stays redeemed.
IssuedIsKept ==
    /\ \A f \in Flows : Issued(f) => flow'[f] = flow[f]
    /\ \A k \in Codes : code[k] # None => code'[k] = code[k]
    /\ redeemed \subseteq redeemed'

\* The step is not one of call c, though it may end c.
NotStepOf(c) ==
    /\ req'[c] = req[c] /\ reason'[c] = reason[c] /\ identity'[c] = identity[c]
    /\ Accepted(c) => cfg'[c] = cfg[c] /\ prov'[c] = prov[c]
    /\ \/ pc'[c] \in {"idle", "done"}
       \/ pc'[c] = pc[c] /\ prov'[c] = prov[c] /\ token'[c] = token[c]

\* A call that returns a decision, or moves on, touches no other call.
LEMMA DenyAlone ==
  ASSUME CallsType, NEW c \in Calls, NEW r, Deny(c, r),
         \A d \in Calls \ {c} : req'[d] = req[d]
  PROVE  pc'[c] = "done" /\ reason'[c] = r /\ \A d \in Calls \ {c} : NotStepOf(d)
  BY DEF CallsType, Deny, Goto, NotStepOf

LEMMA ContinueAlone ==
  ASSUME CallsType, NEW c \in Calls, NEW label, Continue(c, label),
         \A d \in Calls \ {c} : /\ req'[d] = req[d] /\ cfg'[d] = cfg[d]
                                /\ prov'[d] = prov[d] /\ token'[d] = token[d]
  PROVE  pc'[c] = label /\ reason' = reason /\ \A d \in Calls \ {c} : NotStepOf(d)
  BY DEF CallsType, Continue, Goto, NotStepOf, result

CallInv(c) == RequestChecked(c) /\ TokenOfCode(c) /\ DecidedAsSigned(c)

LEMMA OtherCalls ==
  ASSUME TypeOK, ReplayInv, BindingInv, NEW c \in Calls, IssuedIsKept, NotStepOf(c)
  PROVE  CallInv(c)'
<1>1. pc[c] # "idle" => /\ req[c] \in Request /\ req[c].flow \in Flows /\ req[c].code \in Codes
                        /\ flow'[req[c].flow] = flow[req[c].flow]
  BY DEF TypeOK, CallsType, ReplayInv, PresentedFlowIssued, IssuedIsKept, Request
<1>2. RequestChecked(c)'
  BY <1>1 DEF BindingInv, RequestChecked, NotStepOf, Expected
<1>3. TokenOfCode(c)'
  BY <1>1 DEF BindingInv, TokenOfCode, NotStepOf, IssuedIsKept
<1>4. DecidedAsSigned(c)'
  <2>1. reason[c] \in {"success", "email-unverified"} => pc[c] = "done"
    BY NoneIsNoReason DEF ReplayInv, CallPhases
  <2>2. CASE reason[c] = "success"
    <3>1. LoginIsBound(c) /\ (cfg[c].email_verified_required => EmailVerified(code[req[c].code].claims))
      BY <2>2 DEF Accepted, BindingInv, DecidedAsSigned
    <3>2. code'[req[c].code] = code[req[c].code]
      BY <1>1, <2>1, <2>2, <3>1 DEF LoginIsBound, IssuedIsKept
    <3>3. LoginIsBound(c)'
      BY <1>1, <2>1, <2>2, <3>1, <3>2 DEF LoginIsBound, Accepted, NotStepOf, IssuedIsKept, Expected
    <3> QED
      BY <2>2, <3>1, <3>2, <3>3 DEF Accepted, NotStepOf, DecidedAsSigned
  <2>3. CASE reason[c] = "email-unverified"
    <3>1. code[req[c].code] # None /\ ~EmailVerified(code[req[c].code].claims)
      BY <2>3 DEF BindingInv, DecidedAsSigned
    <3>2. code'[req[c].code] = code[req[c].code]
      BY <1>1, <2>1, <2>3, <3>1 DEF IssuedIsKept
    <3> QED
      BY <2>3, <3>1, <3>2 DEF Accepted, NotStepOf, DecidedAsSigned
  <2> QED
    BY <2>2, <2>3 DEF Accepted, NotStepOf, DecidedAsSigned
<1> QED
  BY <1>2, <1>3, <1>4 DEF CallInv

\* A step of call c before its decision: it keeps the request, and moves on.
OwnStep(c) ==
    /\ UNCHANGED <<flow, code, req>>
    /\ redeemed \subseteq redeemed'
    /\ reason'[c] \notin {"success", "email-unverified"}
    /\ \A d \in Calls \ {c} : NotStepOf(d)

LEMMA OwnStepKeepsOthers ==
  ASSUME TypeOK, ReplayInv, BindingInv, NEW c \in Calls, OwnStep(c),
         RequestChecked(c)', TokenOfCode(c)'
  PROVE  BindingInv'
<1>1. IssuedIsKept
  BY DEF OwnStep, IssuedIsKept
<1>2. \A d \in Calls \ {c} : CallInv(d)'
  BY <1>1, OtherCalls DEF OwnStep
<1>3. DecidedAsSigned(c)'
  BY DEF OwnStep, DecidedAsSigned, Accepted
<1>4. CodeOfFlow'
  BY DEF OwnStep, BindingInv, CodeOfFlow, Issued
<1> QED
  BY <1>2, <1>3, <1>4 DEF BindingInv, CallInv

\* The subject of merged claims is the id_token's when userinfo names it or
\* none at all, or it is empty.
LEMMA MergedSubject ==
  ASSUME NEW c \in Calls, NEW ui \in UserInfos, ~SubjectMismatch(c, ui)
  PROVE  DeriveIdentity(Merge(token[c].claims, ui)).subject \in {"", Subject(token[c].claims)}
<1> DEFINE claims == token[c].claims
<1>1. CASE "sub" \in DOMAIN ui
  BY <1>1 DEF SubjectMismatch, Subject, DeriveIdentity, Merge, Lookup
<1>2. CASE "sub" \notin DOMAIN ui /\ "sub" \in DOMAIN claims
  BY <1>2 DEF Subject, DeriveIdentity, Merge, Lookup
<1>3. CASE "sub" \notin DOMAIN ui /\ "sub" \notin DOMAIN claims
  BY <1>3 DEF Subject, DeriveIdentity, Merge, Lookup
<1> QED
  BY <1>1, <1>2, <1>3

LEMMA BindingInit == Init => BindingInv
<1> SUFFICES ASSUME Init
             PROVE  BindingInv
  OBVIOUS
<1>1. \A c \in Calls : pc[c] = "idle" /\ reason[c] = None
  BY DEF Init
<1>2. \A k \in Codes : code[k] = None
  BY DEF Init
<1> QED
  BY <1>1, <1>2, NoneIsNoReason DEF BindingInv, CodeOfFlow, RequestChecked, TokenOfCode,
         DecidedAsSigned, Accepted

LEMMA BindingStep == TypeOK /\ ReplayInv /\ BindingInv /\ [Next]_vars => BindingInv'
<1> SUFFICES ASSUME TypeOK, ReplayInv, BindingInv, [Next]_vars
             PROVE  BindingInv'
  OBVIOUS
<1> DEFINE Environment == \A c \in Calls : NotStepOf(c)
<1>0. ASSUME Environment, IssuedIsKept, CodeOfFlow'
      PROVE  BindingInv'
  BY <1>0, OtherCalls DEF BindingInv, CallInv
<1>1. ASSUME NEW a \in Appliers, Reconfigure(a)
      PROVE  BindingInv'
  <2>1. Environment /\ IssuedIsKept /\ CodeOfFlow'
    BY <1>1 DEF Reconfigure, NotStepOf, IssuedIsKept, BindingInv, CodeOfFlow, Issued,
                outside, kept, locals, snapshot, result
  <2> QED
    BY <1>0, <2>1
<1>4. CASE Restart
  <2>1. Environment
    BY <1>4 DEF Restart, NotStepOf, TypeOK, CallsType, kept, result
  <2>2. IssuedIsKept /\ CodeOfFlow'
    BY <1>4 DEF Restart, IssuedIsKept, BindingInv, CodeOfFlow, Issued, outside
  <2> QED
    BY <1>0, <2>1, <2>2
<1>5. CASE Tick
  <2>1. Environment /\ IssuedIsKept /\ CodeOfFlow'
    BY <1>5 DEF Tick, NotStepOf, IssuedIsKept, BindingInv, CodeOfFlow, Issued, kept, locals, snapshot, result
  <2> QED
    BY <1>0, <2>1
<1>6. ASSUME NEW f \in Flows, NEW state \in States, NEW redirect \in Redirects,
             InitAuthorize(f, state, redirect)
      PROVE  BindingInv'
  <2>1. Environment /\ IssuedIsKept
    BY <1>6 DEF InitAuthorize, NotStepOf, IssuedIsKept, TypeOK, TablesType, CallsType, kept, locals, snapshot, result
  <2>2. \A k \in Codes : code[k] # None => code[k].flow \in Flows
    BY DEF TypeOK, TablesType, Code
  <2>3. CodeOfFlow'
    BY <1>6, <2>1, <2>2 DEF InitAuthorize, IssuedIsKept, BindingInv, CodeOfFlow, Issued
  <2> QED
    BY <1>0, <2>1, <2>3
<1>7. ASSUME NEW k \in Codes, NEW f \in Flows, NEW claims \in IdClaims,
             IdPAuthorize(k, f, claims)
      PROVE  BindingInv'
  <2>1. Environment /\ IssuedIsKept
    BY <1>7 DEF IdPAuthorize, NotStepOf, IssuedIsKept, TypeOK, TablesType, CallsType, kept, locals, snapshot, result
  <2>2. CodeOfFlow'
    BY <1>7 DEF IdPAuthorize, BindingInv, CodeOfFlow, Issued, TypeOK, TablesType
  <2> QED
    BY <1>0, <2>1, <2>2
<1>8. ASSUME NEW c \in Calls, NEW r \in Requests, NEW allowed \in BOOLEAN,
             ExchangeCode(c, r, allowed)
      PROVE  BindingInv'
  <2>1. /\ pc'[c] \in {"provider", "done"} /\ reason'[c] \notin {"success", "email-unverified"}
        /\ \A d \in Calls \ {c} : NotStepOf(d)
    <3>1. \A d \in Calls \ {c} : req'[d] = req[d]
      BY <1>8 DEF ExchangeCode, TypeOK, CallsType
    <3>2. reason[c] = None
      BY <1>8 DEF ExchangeCode, ReplayInv, CallPhases
    <3>3. CASE Deny(c, "rate-limited")
      BY <3>1, <3>3, DenyAlone DEF TypeOK
    <3>4. CASE /\ cfg' = [cfg EXCEPT ![c] = cfgPtr]
               /\ Continue(c, "provider")
               /\ UNCHANGED <<prov, expires, token>>
      BY <3>1, <3>2, <3>4, ContinueAlone, NoneIsNoReason DEF TypeOK, CallsType
    <3> QED
      BY <1>8, <3>3, <3>4 DEF ExchangeCode
  <2>2. IssuedIsKept /\ CodeOfFlow'
    BY <1>8 DEF ExchangeCode, IssuedIsKept, BindingInv, CodeOfFlow, Issued, global, outside
  <2>3. CallInv(c)'
    BY <2>1 DEF CallInv, RequestChecked, TokenOfCode, DecidedAsSigned, Accepted
  <2> QED
    BY <2>1, <2>2, <2>3, OtherCalls DEF BindingInv, CallInv
<1>9. ASSUME NEW c \in Calls, CallStep(c)
      PROVE  BindingInv'
  <2>0. pc[c] # "idle" => reason[c] \notin {"success", "email-unverified"} \/ pc[c] = "done"
    BY NoneIsNoReason DEF ReplayInv, CallPhases
  <2>1. CASE ReadProvider(c)
    <3>1. UNCHANGED <<flow, code, redeemed, req>> /\ pc[c] = "provider"
      BY <2>1 DEF ReadProvider, global, outside, kept
    <3>2. CASE Deny(c, "not-configured")
      <4>1. OwnStep(c) /\ pc'[c] = "done"
        BY <3>1, <3>2, DenyAlone DEF OwnStep, TypeOK
      <4> QED
        BY <4>1, OwnStepKeepsOthers DEF RequestChecked, TokenOfCode
    <3>3. CASE /\ prov' = [prov EXCEPT ![c] = provPtr]
               /\ Continue(c, "check")
               /\ UNCHANGED <<cfg, expires, token>>
      <4>1. OwnStep(c) /\ pc'[c] = "check"
        BY <2>0, <3>1, <3>3, ContinueAlone DEF OwnStep, TypeOK, CallsType
      <4> QED
        BY <4>1, OwnStepKeepsOthers DEF RequestChecked, TokenOfCode
    <3> QED
      BY <2>1, <3>2, <3>3 DEF ReadProvider
  <2>2. CASE CheckRequest(c)
    <3>1. UNCHANGED <<flow, code, redeemed, req>> /\ pc[c] = "check"
      BY <2>2 DEF CheckRequest, global, outside, kept
    <3>2. ASSUME NEW i \in DOMAIN RequestChecks, Deny(c, RequestChecks[i])
          PROVE  BindingInv'
      <4>1. OwnStep(c) /\ pc'[c] = "done"
        BY <3>1, <3>2, DenyAlone DEF OwnStep, TypeOK, RequestChecks
      <4> QED
        BY <4>1, OwnStepKeepsOthers DEF RequestChecked, TokenOfCode
    <3>3. CASE /\ \A i \in DOMAIN RequestChecks : ~Fails(c, RequestChecks[i])
               /\ Continue(c, "stamp")
               /\ UNCHANGED locals
      <4>1. OwnStep(c) /\ pc'[c] = "stamp"
        BY <2>0, <3>1, <3>3, ContinueAlone DEF OwnStep, TypeOK, locals
      <4>2. ~Fails(c, "state-mismatch") /\ ~Fails(c, "redirect-uri-mismatch")
        BY <3>3 DEF RequestChecks
      <4>3. RequestChecked(c)'
        BY <3>1, <4>2 DEF RequestChecked, Fails, Expected
      <4> QED
        BY <4>1, <4>3, OwnStepKeepsOthers DEF TokenOfCode
    <3> QED
      BY <2>2, <3>2, <3>3 DEF CheckRequest
  <2>3. CASE StampExpiry(c)
    <3>1. OwnStep(c) /\ pc[c] = "stamp" /\ pc'[c] = "load"
      BY <2>0, <2>3, ContinueAlone DEF StampExpiry, OwnStep, TypeOK, global, outside, kept
    <3> QED
      BY <3>1, OwnStepKeepsOthers DEF OwnStep, BindingInv, RequestChecked, TokenOfCode, Expected
  <2>9. CASE LoadStore(c)
    <3>1. OwnStep(c) /\ pc[c] = "load" /\ pc'[c] \in {"token", "prune"}
      BY <2>0, <2>9, ContinueAlone DEF LoadStore, OwnStep, TypeOK, global, outside, locals
    <3> QED
      BY <3>1, OwnStepKeepsOthers DEF OwnStep, BindingInv, RequestChecked, TokenOfCode, Expected
  <2>4. CASE PruneNonces(c)
    <3>1. OwnStep(c) /\ pc[c] = "prune" /\ pc'[c] = "insert"
      BY <2>0, <2>4, ContinueAlone DEF PruneNonces, OwnStep, TypeOK, outside, kept, locals, snapshot
    <3> QED
      BY <3>1, OwnStepKeepsOthers DEF OwnStep, BindingInv, RequestChecked, TokenOfCode, Expected
  <2>5. CASE InsertNonce(c)
    <3>1. UNCHANGED <<flow, code, redeemed, req>> /\ pc[c] = "insert"
      BY <2>5 DEF InsertNonce, outside
    <3>2. CASE \E r \in {"replay-check-failed", "replay-detected"} : Deny(c, r)
      <4>1. OwnStep(c) /\ pc'[c] = "done"
        BY <3>1, <3>2, DenyAlone DEF OwnStep, TypeOK
      <4> QED
        BY <4>1, OwnStepKeepsOthers DEF RequestChecked, TokenOfCode
    <3>3. CASE Continue(c, "token") /\ UNCHANGED locals
      <4>1. OwnStep(c) /\ pc'[c] = "token"
        BY <2>0, <3>1, <3>3, ContinueAlone DEF OwnStep, TypeOK, locals
      <4> QED
        BY <3>1, <4>1, OwnStepKeepsOthers
           DEF OwnStep, BindingInv, RequestChecked, TokenOfCode, Expected
    <3> QED
      BY <2>5, <3>2, <3>3 DEF InsertNonce, ReplayCheckFailed
  <2>6. CASE TokenExchange(c)
    <3>1. UNCHANGED <<flow, code, req>> /\ redeemed \subseteq redeemed' /\ pc[c] = "token"
      BY <2>6 DEF TokenExchange, Redeem, kept
    <3>2. CASE Deny(c, "exchange-failed")
      <4>1. OwnStep(c) /\ pc'[c] = "done"
        BY <3>1, <3>2, DenyAlone DEF OwnStep, TypeOK
      <4> QED
        BY <4>1, OwnStepKeepsOthers DEF RequestChecked, TokenOfCode
    <3>3. CASE /\ Redeemable(c)
               /\ Redeem(c)
               /\ token' = [token EXCEPT ![c] = [nonce |-> code[req[c].code].flow,
                                                 claims |-> code[req[c].code].claims]]
               /\ Continue(c, "verify")
               /\ UNCHANGED <<cfg, prov, expires>>
      <4>1. OwnStep(c) /\ pc'[c] = "verify"
        BY <2>0, <3>1, <3>3, ContinueAlone DEF OwnStep, TypeOK, CallsType
      <4>2. TokenOfCode(c)'
        BY <3>1, <3>3, <4>1 DEF Redeemable, Redeem, TokenOfCode, TypeOK, CallsType
      <4>3. RequestChecked(c)'
        BY <3>1, <4>1 DEF OwnStep, BindingInv, RequestChecked, Expected
      <4> QED
        BY <4>1, <4>2, <4>3, OwnStepKeepsOthers
    <3> QED
      BY <2>6, <3>2, <3>3 DEF TokenExchange
  <2>7. CASE VerifyIDToken(c)
    <3>1. \/ \E r \in {"verify-failed", "nonce-mismatch", "missing-subject"} : Deny(c, r)
          \/ Continue(c, "userinfo") /\ (UNCHANGED locals) /\ token[c].nonce = req[c].flow
      BY <2>7, Zenon DEF VerifyIDToken
    <3>2. pc[c] = "verify" /\ UNCHANGED <<flow, code, redeemed, req>>
      BY <2>7 DEF VerifyIDToken, global, outside, kept
    <3>3. CASE \E r \in {"verify-failed", "nonce-mismatch", "missing-subject"} : Deny(c, r)
      <4>1. OwnStep(c) /\ pc'[c] = "done"
        BY <3>2, <3>3, DenyAlone DEF OwnStep, TypeOK
      <4> QED
        BY <4>1, OwnStepKeepsOthers DEF RequestChecked, TokenOfCode
    <3>4. CASE Continue(c, "userinfo") /\ (UNCHANGED locals) /\ token[c].nonce = req[c].flow
      <4>1. OwnStep(c) /\ pc'[c] = "userinfo"
        BY <2>0, <3>2, <3>4, ContinueAlone DEF OwnStep, TypeOK, locals
      <4>2. RequestChecked(c)'
        BY <3>2, <4>1 DEF OwnStep, BindingInv, RequestChecked, Expected
      <4>3. TokenOfCode(c)'
        BY <3>2, <3>4, <4>1 DEF BindingInv, TokenOfCode, locals
      <4> QED
        BY <4>1, <4>2, <4>3, OwnStepKeepsOthers
    <3> QED
      BY <3>1, <3>3, <3>4
  <2>8. ASSUME NEW ui \in UserInfos, FinishLogin(c, ui)
        PROVE  BindingInv'
    <3>1. pc[c] = "userinfo" /\ UNCHANGED <<flow, code, redeemed, req>>
      BY <2>8 DEF FinishLogin, global, outside, kept
    <3>2. CASE \E r \in {"subject-mismatch", "claim-filter-rejected"} : Deny(c, r)
      <4>1. OwnStep(c) /\ pc'[c] = "done"
        BY <3>1, <3>2, DenyAlone DEF OwnStep, TypeOK
      <4> QED
        BY <4>1, OwnStepKeepsOthers DEF RequestChecked, TokenOfCode
    <3>7. CASE ~EmailGate(c) /\ Deny(c, "email-unverified")
      <4>1. /\ pc'[c] = "done" /\ reason'[c] = "email-unverified"
            /\ \A d \in Calls \ {c} : NotStepOf(d)
        BY <3>1, <3>7, DenyAlone DEF TypeOK
      <4>2. IssuedIsKept /\ CodeOfFlow'
        BY <3>1 DEF IssuedIsKept, BindingInv, CodeOfFlow, Issued
      <4>3. code[req[c].code] # None /\ ~EmailVerified(code[req[c].code].claims)
        BY <3>1, <3>7 DEF EmailGate, BindingInv, TokenOfCode
      <4>4. CallInv(c)'
        BY <3>1, <4>1, <4>3 DEF CallInv, RequestChecked, TokenOfCode, DecidedAsSigned, Accepted
      <4> QED
        BY <4>1, <4>2, <4>4, OtherCalls DEF BindingInv, CallInv
    <3>3. ASSUME reason'[c] = "success", EmailGate(c), pc'[c] = "done",
                 UNCHANGED <<cfg, prov>>,
                 identity'[c].subject \in {"", Subject(token[c].claims)},
                 \A d \in Calls \ {c} : NotStepOf(d)
          PROVE  BindingInv'
      <4>2. IssuedIsKept /\ CodeOfFlow'
        BY <3>1 DEF IssuedIsKept, BindingInv, CodeOfFlow, Issued
      <4>3. /\ req[c].code \in redeemed /\ code[req[c].code] # None
            /\ Registration(code[req[c].code].provider) = Registration(prov[c])
            /\ code[req[c].code].flow = req[c].flow
            /\ token[c].claims = code[req[c].code].claims
            /\ Registration(flow[req[c].flow].provider) = Registration(prov[c])
        BY <3>1 DEF BindingInv, TokenOfCode, CodeOfFlow, TypeOK, CallsType, Request
      <4>4. LoginIsBound(c)'
        BY <3>1, <3>3, <4>3 DEF BindingInv, RequestChecked, LoginIsBound, Expected
      <4>5. (cfg[c].email_verified_required => EmailVerified(code[req[c].code].claims))'
        BY <3>1, <3>3, <4>3 DEF EmailGate
      <4>6. CallInv(c)'
        BY <3>3, <4>4, <4>5 DEF CallInv, RequestChecked, TokenOfCode, DecidedAsSigned
      <4> QED
        BY <3>3, <4>2, <4>6, OtherCalls DEF BindingInv, CallInv
    <3>4. CASE ui = NoUserInfo
      <4>1. Decide(c, token[c].claims)
        BY <2>8, <3>4, Zenon DEF FinishLogin
      <4>2. CASE EmailGate(c) /\ Accept(c, token[c].claims)
        <5>1. identity'[c].subject = DeriveIdentity(token[c].claims).subject
          BY <4>2 DEF Accept, TypeOK, CallsType
        <5>2. identity'[c].subject = Subject(token[c].claims)
          BY <5>1 DEF DeriveIdentity, Subject
        <5>3. /\ reason'[c] = "success" /\ pc'[c] = "done" /\ UNCHANGED <<cfg, prov>>
              /\ \A d \in Calls \ {c} : NotStepOf(d)
          BY <3>1, <4>2 DEF Accept, Goto, NotStepOf, TypeOK, CallsType
        <5> QED
          BY <3>3, <4>2, <5>2, <5>3
      <4> QED
        BY <3>2, <3>7, <4>1, <4>2, Zenon DEF Decide
    <3>5. CASE ui # NoUserInfo /\ SubjectMismatch(c, ui)
      BY <2>8, <3>2, <3>5, Zenon DEF FinishLogin
    <3>6. CASE ui # NoUserInfo /\ ~SubjectMismatch(c, ui)
      <4>1. Decide(c, Merge(token[c].claims, ui))
        BY <2>8, <3>6, Zenon DEF FinishLogin
      <4>2. CASE EmailGate(c) /\ Accept(c, Merge(token[c].claims, ui))
        <5>1. identity'[c].subject = DeriveIdentity(Merge(token[c].claims, ui)).subject
          BY <4>2 DEF Accept, TypeOK, CallsType
        <5>2. DeriveIdentity(Merge(token[c].claims, ui)).subject \in {"", Subject(token[c].claims)}
          BY <3>6, MergedSubject
        <5>3. identity'[c].subject \in {"", Subject(token[c].claims)}
          BY <5>1, <5>2
        <5>4. /\ reason'[c] = "success" /\ pc'[c] = "done" /\ UNCHANGED <<cfg, prov>>
              /\ \A d \in Calls \ {c} : NotStepOf(d)
          BY <3>1, <4>2 DEF Accept, Goto, NotStepOf, TypeOK, CallsType
        <5> QED
          BY <3>3, <4>2, <5>3, <5>4
      <4> QED
        BY <3>2, <3>7, <4>1, <4>2, Zenon DEF Decide
    <3> QED
      BY <3>4, <3>5, <3>6
  <2> QED
    BY <1>9, <2>1, <2>2, <2>3, <2>4, <2>5, <2>6, <2>7, <2>8, <2>9 DEF CallStep
<1>10. CASE UNCHANGED vars
  <2>1. Environment /\ IssuedIsKept /\ CodeOfFlow'
    BY <1>10 DEF vars, NotStepOf, IssuedIsKept, BindingInv, CodeOfFlow, Issued, global, outside,
                kept, locals, snapshot, result
  <2> QED
    BY <1>0, <2>1
<1> QED
  BY <1>1, <1>4, <1>5, <1>6, <1>7, <1>8, <1>9, <1>10 DEF Next


LEMMA BindingInvariant == Spec => []BindingInv
<1>1. TypeOK /\ ReplayInv /\ BindingInv /\ [Next]_vars => BindingInv'
  BY BindingStep
<1> QED
  BY <1>1, BindingInit, TypeCorrect, ReplayInvariant, PTL DEF Spec

\* An accepted login redeemed a code of its own flow and of its provider's issuer and
\* client, came back with its own state and redirect URI, and returns no other
\* user's subject.
THEOREM LoginsAreBound == Spec => []AcceptedLoginIsBound
<1>1. BindingInv => AcceptedLoginIsBound
  BY DEF BindingInv, DecidedAsSigned, AcceptedLoginIsBound
<1> QED
  BY <1>1, BindingInvariant, PTL

\* Under email_verified_required no userinfo answer stands in for the provider's
\* signature on email_verified, or takes it back: who is accepted was signed as
\* verified, and who is refused for the email was not.
THEOREM EmailsAreVerified == Spec => []EmailGateIsSigned
<1>1. BindingInv => EmailGateIsSigned
  BY DEF BindingInv, DecidedAsSigned, EmailGateIsSigned
<1> QED
  BY <1>1, BindingInvariant, PTL

=============================================================================
