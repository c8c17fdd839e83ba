--------------------------- MODULE AuthFlowProofs ---------------------------
(***************************************************************************)
(* What AuthFlow guarantees for any set of flows, codes, calls, providers, *)
(* configurations and claims, and for any clock, TTL and clock skew.       *)
(***************************************************************************)
EXTENDS AuthFlow, TLAPS

LEMMA DenyKeepsType ==
  ASSUME CallsType, NEW c \in Calls, NEW r \in Reasons, Deny(c, r),
         req[c]' \in Request, \A d \in Calls \ {c} : req'[d] = req[d],
         req' \in [Calls -> Request \cup {None}],
         st' = st, consumed' \in [Calls -> Nat \cup {None}]
  PROVE  CallsType'
  BY DEF CallsType, Deny, Goto, Labels

\* A call moves on, with what it keeps in its variables still of their types.
LEMMA ContinueKeepsType ==
  ASSUME CallsType, NEW c \in Calls, NEW label \in Labels, Continue(c, label),
         req[c]' \in Request, \A d \in Calls \ {c} : req'[d] = req[d],
         req' \in [Calls -> Request \cup {None}],
         cfg' \in [Calls -> Configs \cup {ZeroConfig}],
         prov' \in [Calls -> Providers \cup {NoProvider}],
         expires' \in [Calls -> Int \cup {None}],
         st' \in [Calls -> Databases \cup {NoStore}],
         token' \in [Calls -> [nonce : Flows, claims : IdClaims] \cup {None}],
         consumed' \in [Calls -> Nat \cup {None}]
  PROVE  CallsType'
  BY DEF CallsType, Continue, Goto, result

LEMMA TypeInit == Init => TypeOK
<1> SUFFICES ASSUME Init PROVE TypeOK
  OBVIOUS
<1>1. PointersType /\ TablesType
  BY ConstantsAssumption DEF Init, PointersInit, Idle, At, PointersType, TablesType
<1>2. \A c \in Calls : pc[c] = "idle"
  BY DEF Init
<1>3. CallsType
  BY <1>2, ConstantsAssumption DEF Init, CallsType, Labels
<1> QED
  BY <1>1, <1>3 DEF TypeOK

\* A step that is not a call's own leaves the calls alone.
LEMMA EnvironmentKeepsType ==
  ASSUME TypeOK, UNCHANGED <<pc, snapshot, result>>
  PROVE  CallsType'
  BY DEF TypeOK, CallsType, kept, locals, snapshot, result

LEMMA CallStepKeepsType ==
  ASSUME TypeOK, NEW c \in Calls, CallStep(c)
  PROVE  TypeOK'
<1> USE DEF TypeOK
<1>0. pc[c] # "idle" => req[c] \in Request /\ req[c].flow \in Flows /\ req[c].code \in Codes
  BY DEF CallsType, Request
<1>1. CASE ReadProvider(c)
  <2>1. PointersType' /\ TablesType'
    BY <1>1 DEF ReadProvider, global, outside, pointers, PointersType, TablesType
  <2>2. CASE Deny(c, "not-configured")
    BY <1>0, <1>1, <2>1, <2>2, DenyKeepsType DEF ReadProvider, kept, CallsType, Reasons
  <2>3. CASE /\ prov' = [prov EXCEPT ![c] = provPtr]
             /\ Continue(c, "check")
             /\ UNCHANGED <<cfg, expires, token>>
    BY <1>0, <1>1, <2>1, <2>3, ContinueKeepsType
       DEF ReadProvider, kept, CallsType, PointersType, Labels
  <2> QED
    BY <1>1, <2>2, <2>3 DEF ReadProvider
<1>2. CASE CheckRequest(c)
  <2>1. PointersType' /\ TablesType'
    BY <1>2 DEF CheckRequest, global, outside, pointers, PointersType, TablesType
  <2>2. ASSUME NEW i \in DOMAIN RequestChecks, Deny(c, RequestChecks[i])
        PROVE  CallsType'
    BY <1>0, <1>2, <2>2, DenyKeepsType
       DEF CheckRequest, RequestChecks, kept, CallsType, Reasons
  <2>3. CASE Continue(c, "stamp") /\ UNCHANGED locals
    BY <1>0, <1>2, <2>1, <2>3, ContinueKeepsType DEF CheckRequest, kept, locals, CallsType, Labels
  <2> QED
    BY <1>2, <2>1, <2>2, <2>3 DEF CheckRequest
<1>3. CASE StampExpiry(c)
  BY <1>0, <1>3, ContinueKeepsType, ConstantsAssumption
     DEF StampExpiry, global, outside, pointers, kept, PointersType, TablesType, CallsType, Labels
<1>4. CASE LoadStore(c)
  BY <1>0, <1>4, ContinueKeepsType
     DEF LoadStore, global, outside, pointers, locals, PointersType, TablesType, CallsType, Labels
<1>5. CASE PruneNonces(c)
  <2>1. PointersType' /\ TablesType'
    BY <1>5 DEF PruneNonces, outside, pointers, PointersType, TablesType
  <2> QED
    BY <1>0, <1>5, <2>1, ContinueKeepsType
       DEF PruneNonces, kept, locals, snapshot, CallsType, Labels
<1>6. CASE InsertNonce(c)
  <2>1. PointersType' /\ consumed' \in [Calls -> Nat \cup {None}]
    BY <1>6 DEF InsertNonce, CommitNonce, outside, pointers, PointersType, TablesType, CallsType
  <2>2. TablesType'
    BY <1>6 DEF InsertNonce, CommitNonce, outside, TablesType, CallsType
  <2>3. CASE \E r \in {"replay-check-failed", "replay-detected"} : Deny(c, r)
    BY <1>0, <1>6, <2>1, <2>2, <2>3, DenyKeepsType DEF InsertNonce, CallsType, Reasons
  <2>4. CASE Continue(c, "token") /\ UNCHANGED locals
    BY <1>0, <1>6, <2>1, <2>2, <2>4, ContinueKeepsType DEF InsertNonce, locals, CallsType, Labels
  <2> QED
    BY <1>6, <2>1, <2>2, <2>3, <2>4 DEF InsertNonce, ReplayCheckFailed
<1>7. CASE TokenExchange(c)
  <2>1. PointersType' /\ TablesType'
    BY <1>0, <1>7 DEF TokenExchange, Redeem, pointers, PointersType, TablesType
  <2>2. CASE Deny(c, "exchange-failed")
    BY <1>0, <1>7, <2>1, <2>2, DenyKeepsType DEF TokenExchange, kept, CallsType, Reasons
  <2>3. CASE Redeemable(c) /\ Continue(c, "verify")
    <3>1. code[req[c].code] \in Code
      BY <1>0, <1>7, <2>3 DEF TokenExchange, Redeemable, TablesType
    <3>2. \/ Deny(c, "exchange-failed")
          \/ /\ token' \in [Calls -> [nonce : Flows, claims : IdClaims] \cup {None}]
             /\ UNCHANGED <<cfg, prov, expires>>
      BY <1>7, <3>1 DEF TokenExchange, Code, CallsType
    <3>3. ASSUME token' \in [Calls -> [nonce : Flows, claims : IdClaims] \cup {None}],
                 UNCHANGED <<cfg, prov, expires>>
          PROVE  CallsType'
      BY <1>0, <1>7, <2>3, <3>3, ContinueKeepsType DEF TokenExchange, kept, CallsType, Labels
    <3> QED
      BY <2>1, <2>2, <3>2, <3>3
  <2> QED
    BY <1>7, <2>1, <2>2, <2>3 DEF TokenExchange
<1>8. CASE VerifyIDToken(c)
  <2>1. PointersType' /\ TablesType'
    BY <1>8 DEF VerifyIDToken, global, outside, pointers, PointersType, TablesType
  <2>2. \/ \E r \in {"verify-failed", "nonce-mismatch", "missing-subject"} : Deny(c, r)
        \/ Continue(c, "userinfo") /\ UNCHANGED locals
    BY <1>8, Zenon DEF VerifyIDToken
  <2>3. CASE \E r \in {"verify-failed", "nonce-mismatch", "missing-subject"} : Deny(c, r)
    BY <1>0, <1>8, <2>1, <2>3, DenyKeepsType DEF VerifyIDToken, kept, CallsType, Reasons
  <2>4. CASE Continue(c, "userinfo") /\ UNCHANGED locals
    BY <1>0, <1>8, <2>1, <2>4, ContinueKeepsType DEF VerifyIDToken, kept, locals, CallsType, Labels
  <2> QED
    BY <2>1, <2>2, <2>3, <2>4
<1>9. ASSUME NEW ui \in UserInfos, FinishLogin(c, ui)
      PROVE  TypeOK'
  <2>1. PointersType' /\ TablesType'
    BY <1>9 DEF FinishLogin, global, outside, pointers, PointersType, TablesType
  <2>2. pc[c] = "userinfo" /\ UNCHANGED kept
    BY <1>9 DEF FinishLogin
  <2>3. CASE \E r \in {"subject-mismatch", "email-unverified", "claim-filter-rejected"} : Deny(c, r)
    BY <1>0, <2>1, <2>2, <2>3, DenyKeepsType DEF kept, CallsType, Reasons
  <2>4. ASSUME NEW merged, Accept(c, merged)
        PROVE  CallsType'
    BY <2>2, <2>4 DEF Accept, Goto, kept, CallsType, Labels, Reasons
  <2>5. ASSUME NEW merged, Decide(c, merged)
        PROVE  TypeOK'
    BY <2>1, <2>3, <2>4, <2>5, Zenon DEF Decide
  <2> QED
    BY <1>9, <2>3, <2>5, Zenon DEF FinishLogin
<1> QED
  BY <1>1, <1>2, <1>3, <1>4, <1>5, <1>6, <1>7, <1>8, <1>9 DEF CallStep

LEMMA TypeStep == TypeOK /\ [Next]_vars => TypeOK'
<1> SUFFICES ASSUME TypeOK, [Next]_vars
             PROVE  TypeOK'
  OBVIOUS
<1>1. ASSUME NEW a \in Appliers, Reconfigure(a)
      PROVE  TypeOK'
  <2>1. CallsType' /\ TablesType'
    BY <1>1, EnvironmentKeepsType DEF Reconfigure, TypeOK, outside, TablesType
  <2> USE DEF TypeOK, PointersType, Idle, At
  <2>2. ASSUME NEW k \in Configs, NEW p \in {k.provider, NoProvider}, StoreConfig(a, k, p)
        PROVE  PointersType'
    BY <2>2, ConstantsAssumption DEF StoreConfig
  <2>3. CASE StoreProvider(a)
    BY <2>1, <2>3 DEF StoreProvider
  <2>4. ASSUME NEW db \in Databases, StoreStore(a, db)
        PROVE  PointersType'
    BY <2>4 DEF StoreStore
  <2> QED
    BY <1>1, <2>1, <2>2, <2>3, <2>4 DEF Reconfigure
<1>2. CASE Restart
  <2>1. PointersType' /\ TablesType'
    BY <1>2 DEF Restart, LosePointers, Idle, At, outside, TypeOK, PointersType, TablesType
  <2>2. CallsType'
    BY <1>2 DEF Restart, kept, result, TypeOK, CallsType, Labels
  <2> QED
    BY <2>1, <2>2 DEF TypeOK
<1>3. CASE Tick
  BY <1>3, EnvironmentKeepsType DEF Tick, pointers, TypeOK, PointersType, TablesType
<1>4. ASSUME NEW f \in Flows, NEW state \in States, NEW redirect \in Redirects,
             InitAuthorize(f, state, redirect)
      PROVE  TypeOK'
  BY <1>4, EnvironmentKeepsType
     DEF InitAuthorize, ProviderState, pointers, TypeOK, PointersType, TablesType
<1>5. ASSUME NEW k \in Codes, NEW f \in Flows, NEW claims \in IdClaims,
             IdPAuthorize(k, f, claims)
      PROVE  TypeOK'
  BY <1>5, EnvironmentKeepsType
     DEF IdPAuthorize, Issued, Code, ProviderState, pointers, TypeOK, PointersType, TablesType
<1>6. ASSUME NEW c \in Calls, NEW r \in Requests, NEW allowed \in BOOLEAN,
             ExchangeCode(c, r, allowed)
      PROVE  TypeOK'
  <2> USE DEF TypeOK
  <2>1. r \in Request
    BY DEF Requests, Request
  <2>2. PointersType' /\ TablesType'
    BY <1>6 DEF ExchangeCode, global, outside, pointers, PointersType, TablesType
  <2>3. req'[c] \in Request /\ req' \in [Calls -> Request \cup {None}]
        /\ \A d \in Calls \ {c} : req'[d] = req[d]
    BY <1>6, <2>1 DEF ExchangeCode, CallsType
  <2>4. CASE Deny(c, "rate-limited")
    BY <1>6, <2>2, <2>3, <2>4, DenyKeepsType DEF ExchangeCode, CallsType, Reasons
  <2>5. CASE cfg' = [cfg EXCEPT ![c] = cfgPtr] /\ Continue(c, "provider")
             /\ UNCHANGED <<prov, expires, token>>
    BY <1>6, <2>2, <2>3, <2>5, ContinueKeepsType DEF ExchangeCode, CallsType, PointersType, Labels
  <2> QED
    BY <1>6, <2>4, <2>5 DEF ExchangeCode
<1>7. ASSUME NEW c \in Calls, CallStep(c)
      PROVE  TypeOK'
  BY <1>7, CallStepKeepsType
<1>8. CASE UNCHANGED vars
  BY <1>8, EnvironmentKeepsType
     DEF vars, global, outside, pointers, TypeOK, PointersType, TablesType
<1> QED
  BY <1>1, <1>2, <1>3, <1>4, <1>5, <1>6, <1>7, <1>8 DEF Next

\* Every step of the login path, the pointers' and the provider's included,
\* keeps the type of the pointers, the tables and the calls.
THEOREM TypeCorrect == Spec => []TypeOK
  BY TypeInit, TypeStep, PTL DEF Spec

-----------------------------------------------------------------------------

LEMMA NoneIsNoReason == None \notin {"replay-detected", "success", "email-unverified"}
  BY ConstantsAssumption DEF Reasons

\* A step of a call that leaves the nonce table alone and does not decide
\* that the call is a replay.
QuietStep(c) ==
    /\ UNCHANGED <<clock, flow, authNonce, req, st, consumed>>
    /\ pc[c] \notin {"idle", "done"}
    /\ pc'[c] \in {"check", "stamp", "verify", "userinfo", "done"}
    /\ pc[c] \in {"token", "verify", "userinfo"} => pc'[c] \notin {"check", "stamp"}
    /\ reason'[c] # "replay-detected"
    /\ reason'[c] # None => pc'[c] = "done"
    /\ \A d \in Calls \ {c} :
          pc'[d] = pc[d] /\ expires'[d] = expires[d] /\ reason'[d] = reason[d]

LEMMA QuietStepKeepsReplayInv ==
  ASSUME TypeOK, ReplayInv, NEW c \in Calls, QuietStep(c)
  PROVE  ReplayInv'
<1>1. PresentedFlowIssued' /\ StampCoversWindow'
  BY DEF QuietStep, TypeOK, CallsType, ReplayInv, PresentedFlowIssued, StampCoversWindow, Issued, WindowEnd
<1>2. RowCoversWindow' /\ RowKept' /\ AtMostOnceInWindow'
  BY DEF QuietStep, ReplayInv, RowCoversWindow, RowKept, AtMostOnceInWindow, Issued, WindowEnd,
         Consumed, SameNonce, Row, DBClock
<1>3. CallPhases'
  BY DEF QuietStep, TypeOK, CallsType, Labels, ReplayInv, CallPhases, Consumed
<1>4. ReplayVerdictSound'
  BY DEF QuietStep, ReplayInv, ReplayVerdictSound, Consumed, SameNonce
<1> QED
  BY <1>1, <1>2, <1>3, <1>4 DEF ReplayInv

LEMMA ReplayInit == Init => ReplayInv
<1> SUFFICES ASSUME Init
             PROVE  ReplayInv
  OBVIOUS
<1>1. \A c \in Calls : pc[c] = "idle" /\ consumed[c] = None /\ reason[c] = None
  BY DEF Init
<1>2. \A f \in Flows : flow[f] = None /\ \A db \in Databases : authNonce[db][f] = None
  BY DEF Init
<1>3. ReplayVerdictSound
  BY <1>1, NoneIsNoReason DEF ReplayVerdictSound
<1> QED
  BY <1>1, <1>2, <1>3 DEF ReplayInv, PresentedFlowIssued, StampCoversWindow, RowCoversWindow,
         RowKept, CallPhases, AtMostOnceInWindow, Consumed, Issued

\* The inductive step: what the steps of the login path do to the nonce table.
LEMMA ReplayStep == TypeOK /\ ReplayInv /\ [Next]_vars => ReplayInv'
<1> SUFFICES ASSUME TypeOK, ReplayInv, [Next]_vars
             PROVE  ReplayInv'
  OBVIOUS
<1> USE ConstantsAssumption DEF TypeOK, TablesType, CallsType, ReplayInv,
        PresentedFlowIssued, StampCoversWindow, RowCoversWindow, RowKept, CallPhases, AtMostOnceInWindow, ReplayVerdictSound,
        Consumed, SameNonce, Row, Issued, WindowEnd, DBClock, Goto, Continue, Deny,
        ProviderState, Request
<1>0. /\ \A c \in Calls : pc[c] # "idle" => req[c].flow \in Flows /\ Issued(req[c].flow)
      /\ \A c \in Calls : Consumed(c) => pc[c] # "idle" /\ st[c] \in Databases
      /\ \A f \in Flows : Issued(f) => WindowEnd(f) \in Int
      /\ \A c \in Calls : Consumed(c) => consumed[c] \in Int
  OBVIOUS
<1>1. ASSUME NEW a \in Appliers, Reconfigure(a)
      PROVE  ReplayInv'
  BY <1>1 DEF Reconfigure, outside, kept, locals, snapshot, result
<1>4. CASE Restart
  <2>1. /\ \A c \in Calls : pc'[c] = IF pc[c] = "idle" THEN "idle" ELSE "done"
        /\ UNCHANGED <<clock, flow, authNonce, req, st, consumed, reason>>
    BY <1>4 DEF Restart, outside, kept, result
  <2>2. PresentedFlowIssued' /\ StampCoversWindow' /\ CallPhases'
    BY <2>1
  <2>3. RowCoversWindow' /\ RowKept' /\ AtMostOnceInWindow' /\ ReplayVerdictSound'
    BY <2>1
  <2> QED
    BY <2>2, <2>3
<1>5. CASE Tick
  BY <1>5 DEF Tick, kept, locals, snapshot, result
<1>6. ASSUME NEW f \in Flows, NEW state \in States, NEW redirect \in Redirects,
             InitAuthorize(f, state, redirect)
      PROVE  ReplayInv'
  <2>1. \A g \in Flows : Issued(g) => flow'[g] = flow[g]
    BY <1>6 DEF InitAuthorize
  <2>2. PresentedFlowIssued'
    BY <1>6, <2>1 DEF InitAuthorize, kept, locals, snapshot
  <2>3. StampCoversWindow' /\ RowCoversWindow'
    BY <1>6, <2>1 DEF InitAuthorize, kept, locals, snapshot
  <2>4. RowKept'
    BY <1>6, <2>1 DEF InitAuthorize, kept, locals, snapshot
  <2>5. CallPhases' /\ ReplayVerdictSound'
    BY <1>6 DEF InitAuthorize, kept, locals, snapshot, result
  <2>6. AtMostOnceInWindow'
    <3>1. \A c \in Calls : Consumed(c) => flow'[req[c].flow] = flow[req[c].flow]
      BY <1>0, <2>1
    <3> QED
      BY <1>6, <3>1 DEF InitAuthorize, kept, locals, snapshot
  <2> QED
    BY <2>2, <2>3, <2>4, <2>5, <2>6
<1>7. ASSUME NEW k \in Codes, NEW f \in Flows, NEW claims \in IdClaims,
             IdPAuthorize(k, f, claims)
      PROVE  ReplayInv'
  BY <1>7 DEF IdPAuthorize, kept, locals, snapshot, result
<1>8. ASSUME NEW c \in Calls, NEW r \in Requests, NEW allowed \in BOOLEAN,
             ExchangeCode(c, r, allowed)
      PROVE  ReplayInv'
  <2>0. ~Consumed(c) /\ reason[c] = None
    BY <1>8 DEF ExchangeCode
  <2>1. /\ pc'[c] \in {"provider", "done"}
        /\ \A d \in Calls \ {c} : /\ pc'[d] = pc[d] /\ req'[d] = req[d]
                                  /\ expires'[d] = expires[d] /\ reason'[d] = reason[d]
        /\ reason'[c] # "replay-detected"
        /\ reason'[c] # None => pc'[c] = "done"
    BY <1>8, <2>0, NoneIsNoReason DEF ExchangeCode, result
  <2>2. Issued(req'[c].flow)
    BY <1>8 DEF ExchangeCode, Requests
  <2>3. UNCHANGED <<global, st, consumed>>
    BY <1>8 DEF ExchangeCode
  <2>9. UNCHANGED <<clock, flow, authNonce, st, consumed>>
    BY <2>3 DEF global, outside
  <2>4. PresentedFlowIssued' /\ StampCoversWindow' /\ CallPhases'
    <3>1. PresentedFlowIssued'
      BY <2>1, <2>2, <2>9
    <3>2. StampCoversWindow'
      BY <2>1, <2>9
    <3>3. CallPhases'
      BY <2>0, <2>1, <2>9
    <3> QED
      BY <3>1, <3>2, <3>3
  <2>5. \A d \in Calls : Consumed(d) => req'[d] = req[d]
    BY <2>0, <2>1
  <2>8. RowCoversWindow' /\ RowKept'
    <3>1. RowCoversWindow'
      BY <2>5, <2>9
    <3>2. RowKept'
      BY <2>5, <2>9
    <3> QED
      BY <3>1, <3>2
  <2>6. AtMostOnceInWindow'
    <3>1. ASSUME NEW d \in Calls, NEW e \in Calls, d # e,
                 Consumed(d)', Consumed(e)', SameNonce(d, e)'
          PROVE  \/ (consumed[d] + Skew > WindowEnd(req[d].flow))'
                 \/ (consumed[e] + Skew > WindowEnd(req[e].flow))'
      <4>1. Consumed(d) /\ Consumed(e)
        BY <2>9, <3>1
      <4>2. req'[d] = req[d] /\ req'[e] = req[e]
        BY <2>5, <4>1
      <4> QED
        BY <2>9, <3>1, <4>1, <4>2
    <3> HIDE DEF TypeOK, ReplayInv, Consumed, SameNonce, WindowEnd
    <3> QED
      BY <3>1
  <2>7. ReplayVerdictSound'
    <3> SUFFICES ASSUME NEW e \in Calls, reason'[e] = "replay-detected"
                 PROVE  \E d \in Calls \ {e} : /\ consumed'[d] # None
                                            /\ req'[e].flow = req'[d].flow /\ st'[e] = st'[d]
      OBVIOUS
    <3>1. e # c /\ reason[e] = "replay-detected"
      BY <2>1
    <3>2. PICK d \in Calls \ {e} : Consumed(d) /\ SameNonce(e, d)
      BY <3>1
    <3> QED
      BY <2>1, <2>5, <2>9, <3>1, <3>2
  <2> QED
    BY <2>4, <2>6, <2>7, <2>8
<1>9. ASSUME NEW c \in Calls, CallStep(c)
      PROVE  ReplayInv'
  <2>1. CASE ReadProvider(c)
    <3>1. QuietStep(c)
      BY <2>1, NoneIsNoReason DEF ReadProvider, QuietStep, global, outside, kept, result
    <3> QED
      BY <3>1, QuietStepKeepsReplayInv
  <2>2. CASE CheckRequest(c)
    <3>1. QuietStep(c)
      BY <2>2, NoneIsNoReason
         DEF CheckRequest, RequestChecks, QuietStep, global, outside, kept, locals, result
    <3> QED
      BY <3>1, QuietStepKeepsReplayInv
  <2>3. CASE StampExpiry(c)
    BY <2>3 DEF StampExpiry, global, outside, kept, result
  <2>9. CASE LoadStore(c)
    <3>0. pc[c] = "load" /\ ~Consumed(c) /\ reason[c] = None /\ req[c].flow \in Flows
      BY <1>0, <2>9 DEF LoadStore
    <3>1. /\ pc'[c] \in {"prune", "token"}
          /\ pc'[c] = "prune" => st'[c] \in Databases
          /\ \A d \in Calls \ {c} : pc'[d] = pc[d] /\ st'[d] = st[d]
          /\ UNCHANGED <<clock, flow, authNonce, req, expires, consumed, reason>>
      BY <2>9 DEF LoadStore, PointersType, global, outside, locals, result
    <3>5. \A d \in Calls : Consumed(d) => st'[d] = st[d]
      BY <3>0, <3>1
    <3>2. PresentedFlowIssued' /\ StampCoversWindow' /\ CallPhases'
      BY <3>0, <3>1
    <3>3. RowCoversWindow' /\ RowKept' /\ AtMostOnceInWindow'
      BY <1>0, <3>1, <3>5
    <3>4. ReplayVerdictSound'
      <4> SUFFICES ASSUME NEW e \in Calls, reason'[e] = "replay-detected"
                   PROVE  \E d \in Calls \ {e} : /\ consumed'[d] # None
                                              /\ req'[e].flow = req'[d].flow /\ st'[e] = st'[d]
        OBVIOUS
      <4>1. e # c /\ reason[e] = "replay-detected"
        BY <3>0, <3>1, NoneIsNoReason
      <4>2. PICK d \in Calls \ {e} : Consumed(d) /\ SameNonce(e, d)
        BY <4>1
      <4> QED
        BY <3>1, <4>1, <4>2, <3>5
    <3> QED
      BY <3>2, <3>3, <3>4
  <2>4. CASE PruneNonces(c)
    <3>1. \A db \in Databases, f \in Flows :
             \/ authNonce'[db][f] = authNonce[db][f]
             \/ /\ authNonce'[db][f] = None
                /\ authNonce[db][f] # None /\ authNonce[db][f] < DBClock
      <4>1. CASE authNonce' = [authNonce EXCEPT ![st[c]] =
                                 [f \in Flows |-> IF Expired(@[f]) THEN None ELSE @[f]]]
        <5>1. ASSUME NEW db \in Databases, NEW f \in Flows, db = st[c]
              PROVE  authNonce'[db][f] = IF Expired(authNonce[db][f]) THEN None ELSE authNonce[db][f]
          BY <4>1, <5>1
        <5>2. ASSUME NEW db \in Databases, db # st[c]
              PROVE  authNonce'[db] = authNonce[db]
          BY <4>1, <5>2
        <5> QED
          BY <5>1, <5>2 DEF Expired
      <4> QED
        BY <2>4, <4>1 DEF PruneNonces
    <3>2. /\ pc[c] = "prune" /\ ~Consumed(c)
          /\ pc'[c] = "insert" /\ \A d \in Calls \ {c} : pc'[d] = pc[d]
          /\ UNCHANGED <<clock, flow, req, st, expires, consumed, reason>>
      BY <2>4 DEF PruneNonces, outside, kept, locals, snapshot, result
    <3>6. PresentedFlowIssued' /\ StampCoversWindow' /\ CallPhases'
      BY <3>2
    <3>3. AtMostOnceInWindow' /\ ReplayVerdictSound'
      BY <3>2
    <3>4. RowCoversWindow'
      BY <3>1, <3>2
    <3>5. RowKept'
      <4> SUFFICES ASSUME NEW d \in Calls, Consumed(d), DBClock <= WindowEnd(req[d].flow)
                   PROVE  Row(d)' # None
        BY <3>2
      <4>1. st[d] \in Databases /\ req[d].flow \in Flows
        OBVIOUS
      <4>2. Row(d) # None /\ Row(d) >= WindowEnd(req[d].flow)
        BY <4>1
      <4> QED
        BY <3>1, <3>2, <4>1, <4>2
    <3> QED
      BY <3>3, <3>4, <3>5, <3>6
  <2>5. CASE InsertNonce(c)
    <3>1. /\ pc[c] = "insert" /\ ~Consumed(c) /\ reason[c] = None
          /\ req[c] \in Request /\ req[c].flow \in Flows /\ Issued(req[c].flow)
          /\ st[c] \in Databases
          /\ UNCHANGED <<clock, flow, req, st>>
          /\ \A d \in Calls \ {c} : pc'[d] = pc[d] /\ expires'[d] = expires[d]
          /\ pc'[c] \in {"token", "done"}
      BY <2>5 DEF InsertNonce, ReplayCheckFailed, outside, locals, result
    <3>2. CASE CommitNonce(c) /\ reason'[c] # "replay-detected"
      <4>1. /\ Row(c) = None
            /\ authNonce' = [authNonce EXCEPT ![st[c]][req[c].flow] = expires[c]]
            /\ consumed' = [consumed EXCEPT ![c] = clock]
            /\ expires[c] # None /\ expires[c] >= WindowEnd(req[c].flow)
        BY <3>1, <3>2 DEF CommitNonce
      <4>2. Consumed(c)' /\ \A d \in Calls \ {c} : consumed'[d] = consumed[d]
        BY <4>1
      <4>3. PresentedFlowIssued' /\ StampCoversWindow'
        BY <3>1
      <4>4. RowCoversWindow'
        BY <3>1, <4>1, <4>2
      <4>5. RowKept'
        BY <3>1, <4>1, <4>2
      <4>6. CallPhases'
        BY <2>5, <3>1, <4>2 DEF InsertNonce, ReplayCheckFailed, result
      <4>7. ASSUME NEW d \in Calls \ {c}, Consumed(d), SameNonce(c, d)
            PROVE  clock + Skew > WindowEnd(req[c].flow)
        BY <1>0, <3>1, <4>1, <4>7
      <4>8. AtMostOnceInWindow'
        <5>1. consumed'[c] = clock /\ UNCHANGED <<flow, req, st>>
          BY <3>1, <4>1
        <5>2. ASSUME NEW d \in Calls \ {c}, NEW e \in Calls \ {c}, d # e,
                     Consumed(d)', Consumed(e)', SameNonce(d, e)'
              PROVE  \/ (consumed[d] + Skew > WindowEnd(req[d].flow))'
                     \/ (consumed[e] + Skew > WindowEnd(req[e].flow))'
          BY <4>2, <5>1, <5>2
        <5>3. ASSUME NEW d \in Calls \ {c}, Consumed(d)', SameNonce(c, d)'
              PROVE  (consumed[c] + Skew > WindowEnd(req[c].flow))'
          BY <4>2, <4>7, <5>1, <5>3
        <5>4. ASSUME NEW d \in Calls \ {c}, SameNonce(d, c)'
              PROVE  SameNonce(c, d)'
          BY <5>4
        <5>5. ASSUME NEW d \in Calls, NEW e \in Calls, d # e,
                     Consumed(d)', Consumed(e)', SameNonce(d, e)'
              PROVE  \/ (consumed[d] + Skew > WindowEnd(req[d].flow))'
                     \/ (consumed[e] + Skew > WindowEnd(req[e].flow))'
          <6>1. CASE d = c
            BY <5>3, <5>5, <6>1
          <6>2. CASE e = c
            BY <5>3, <5>4, <5>5, <6>2
          <6>3. CASE d # c /\ e # c
            BY <5>2, <5>5, <6>3
          <6> QED
            BY <6>1, <6>2, <6>3
        <5> QED
          BY <5>5
      <4>9. ReplayVerdictSound'
        <5> SUFFICES ASSUME NEW e \in Calls, reason'[e] = "replay-detected"
                     PROVE  \E d \in Calls \ {e} : /\ consumed'[d] # None
                                            /\ req'[e].flow = req'[d].flow /\ st'[e] = st'[d]
          OBVIOUS
        <5>1. e # c /\ reason[e] = "replay-detected"
          BY <2>5, <3>2 DEF InsertNonce, ReplayCheckFailed, result
        <5>2. PICK d \in Calls \ {e} : Consumed(d) /\ SameNonce(e, d)
          BY <5>1
        <5> QED
          BY <3>1, <4>2, <5>2
      <4> QED
        BY <4>3, <4>4, <4>5, <4>6, <4>8, <4>9
    <3>3. CASE ReplayCheckFailed(c) /\ UNCHANGED <<authNonce, consumed>>
      BY <3>1, <3>3 DEF ReplayCheckFailed
    <3>4. CASE /\ Row(c) # None
               /\ Deny(c, "replay-detected")
               /\ UNCHANGED <<authNonce, consumed>>
      <4>1. PICK d \in Calls : Consumed(d) /\ req[d].flow = req[c].flow /\ st[d] = st[c]
        BY <3>1, <3>4
      <4>2. ReplayVerdictSound'
        BY <3>1, <3>4, <4>1
      <4> QED
        BY <3>1, <3>4, <4>2
    <3> QED
      BY <2>5, <3>1, <3>2, <3>3, <3>4, NoneIsNoReason DEF InsertNonce, ReplayCheckFailed, result
  <2>6. CASE TokenExchange(c)
    <3>1. QuietStep(c)
      BY <2>6, NoneIsNoReason DEF TokenExchange, QuietStep, kept, result
    <3> QED
      BY <3>1, QuietStepKeepsReplayInv
  <2>7. CASE VerifyIDToken(c)
    <3>1. QuietStep(c)
      <4>1. \/ \E r \in {"verify-failed", "nonce-mismatch", "missing-subject"} : Deny(c, r)
            \/ Continue(c, "userinfo") /\ UNCHANGED locals
        BY <2>7, Zenon DEF VerifyIDToken
      <4>2. pc[c] = "verify" /\ UNCHANGED <<global, kept>>
        BY <2>7 DEF VerifyIDToken
      <4> QED
        BY <4>1, <4>2, NoneIsNoReason DEF QuietStep, global, outside, kept, locals, result
    <3> QED
      BY <3>1, QuietStepKeepsReplayInv
  <2>8. ASSUME NEW ui \in UserInfos, FinishLogin(c, ui)
        PROVE  ReplayInv'
    <3>1. QuietStep(c)
      BY <2>8 DEF FinishLogin, Decide, Accept, QuietStep, global, outside, kept
    <3> QED
      BY <3>1, QuietStepKeepsReplayInv
  <2> QED
    BY <1>9, <2>1, <2>2, <2>3, <2>4, <2>5, <2>6, <2>7, <2>8, <2>9 DEF CallStep
<1>10. CASE UNCHANGED vars
  BY <1>10 DEF vars, global, outside, kept, locals, snapshot, result
<1> QED
  BY <1>1, <1>4, <1>5, <1>6, <1>7, <1>8, <1>9, <1>10 DEF Next


LEMMA ReplayInvariant == Spec => []ReplayInv
<1>1. TypeOK /\ ReplayInv /\ [Next]_vars => ReplayInv'
  BY ReplayStep
<1> QED
  BY <1>1, ReplayInit, TypeCorrect, PTL DEF Spec

\* The one-time guard of ExchangeCode holds in the window of every flow, for any
\* number of overlapping calls, reconfigurations and restarts, and for any skew
\* between the plugin's and the database's clock.
THEOREM NonceConsumedOnce == Spec => []AtMostOnceInWindow
<1>1. ReplayInv => AtMostOnceInWindow
  BY DEF ReplayInv
<1> QED
  BY <1>1, ReplayInvariant, PTL

\* No login is refused as a replay unless another call consumed its nonce.
THEOREM ReplaysAreReal == Spec => []ReplayVerdictSound
<1>1. ReplayInv => ReplayVerdictSound
  BY DEF ReplayInv
<1> QED
  BY <1>1, ReplayInvariant, PTL

=============================================================================
