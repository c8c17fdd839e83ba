-------------------------- MODULE DiagnosticsProofs --------------------------
(***************************************************************************)
(* The admin requests of Diagnostics, for any number of requests, issuers, *)
(* reconfigurations, redirects and limiter keys, and any network.          *)
(***************************************************************************)
EXTENDS Diagnostics, TLAPS

Statuses == {None, 200, 400, 403, 404, 405, 429, 500, 503}
Labels == Fetching \cup Limited \cup {"idle", "summary", "summary-provider"}

\* What an application stores next is a provider some configuration named.
ApplyingType ==
    applying \in [Appliers -> [step : {"idle", "provider", "store"},
                               prov : Issuers \cup {NoProvider}]]

\* A request has connected to nothing before its first fetch, its client is one
\* for the issuer it read, and so is every connection.
ReachedFor(r) ==
    /\ pc[r] \notin Fetching => reached[r] = {} /\ ~client[r]
    /\ client[r] => cfg[r] \in Localhosts
    /\ reached[r] \subseteq {"unblocked", "loopback"}
    /\ "loopback" \in reached[r] => cfg[r] \in Localhosts

ReachInv == \A r \in Requests : ReachedFor(r)

-----------------------------------------------------------------------------
(* Types *)

\* What belongs to the requests is typed.
RequestsType ==
    /\ pc \in [Requests -> Labels]
    /\ cfg \in [Requests -> Issuers \cup {NoProvider}]
    /\ client \in [Requests -> BOOLEAN]
    /\ hops \in [Requests -> 0..(MaxHops + 1)]
    /\ reached \in [Requests -> SUBSET Addresses]
    /\ answer \in [Requests -> Statuses]

\* And so is what they share.
SharedType ==
    /\ cfgPtr \in {Config(p) : p \in Issuers \cup {NoProvider}}
    /\ provPtr \in Issuers \cup {NoProvider}
    /\ handler \in BOOLEAN
    /\ tokens \in [Keys -> 0..Burst]
    /\ ApplyingType

LEMMA TypeParts == RequestsType /\ SharedType <=> TypeOK /\ ApplyingType
  BY DEF TypeOK, RequestsType, SharedType, Labels, Statuses

LEMMA AnswerKeepsType ==
  ASSUME RequestsType, NEW r \in Requests, NEW status \in Statuses, Answer(r, status)
  PROVE  RequestsType'
  BY DiagnosticsAssumption DEF RequestsType, Answer, Labels

LEMMA GotoKeepsType ==
  ASSUME RequestsType, NEW r \in Requests, NEW label \in Labels, Goto(r, label),
         cfg' \in [Requests -> Issuers \cup {NoProvider}],
         client' \in [Requests -> BOOLEAN],
         hops' \in [Requests -> 0..(MaxHops + 1)],
         UNCHANGED reached
  PROVE  RequestsType'
<1>1. pc' \in [Requests -> Labels]
  BY DEF RequestsType, Goto
<1>2. answer' \in [Requests -> Statuses]
  BY DEF RequestsType, Goto, Statuses
<1>3. reached' \in [Requests -> SUBSET Addresses]
  BY DEF RequestsType
<1> QED
  BY <1>1, <1>2, <1>3 DEF RequestsType

LEMMA FullBucket == [k \in Keys |-> Burst] \in [Keys -> 0..Burst]
<1>1. Burst \in 0..Burst
  BY DiagnosticsAssumption
<1> QED
  BY <1>1

\* The configuration a nil pointer reads as names no issuer.
LEMMA ZeroNamesNone == ZeroConfig \in {Config(p) : p \in Issuers \cup {NoProvider}}
<1>1. Config(NoProvider) = ZeroConfig
  <2>1. DOMAIN Config(NoProvider) = DOMAIN ZeroConfig
    BY DEF Config, ZeroConfig
  <2>2. \A x \in DOMAIN ZeroConfig : Config(NoProvider)[x] = ZeroConfig[x]
    <3>1. ZeroConfig["provider"] = NoProvider
      BY DEF ZeroConfig
    <3>2. \A x \in DOMAIN ZeroConfig :
            Config(NoProvider)[x] = IF x = "provider" THEN NoProvider ELSE ZeroConfig[x]
      BY DEF Config
    <3> QED
      BY <3>1, <3>2
  <2>3. Config(NoProvider) = [x \in DOMAIN ZeroConfig |-> Config(NoProvider)[x]]
    BY <2>1 DEF Config
  <2>4. ZeroConfig = [x \in DOMAIN ZeroConfig |-> ZeroConfig[x]]
    BY DEF ZeroConfig
  <2> QED
    BY <2>2, <2>3, <2>4
<1> QED
  BY <1>1, Zenon

\* The issuer in the live configuration is one that may be named.
LEMMA LiveIssuer == SharedType => cfgPtr.provider \in Issuers \cup {NoProvider}
  BY DEF SharedType, Config, ZeroConfig

\* The routes that need neither the pointers nor the limiter are found or not.
LEMMA StaticStatus ==
  ASSUME NEW q, q.route \in {"health", "logout", "whoami", "assets", "admin"}
  PROVE  Static(q) \in {200, 404}
<1>1. CASE q.route \in {"health", "logout", "whoami"}
  BY <1>1 DEF Static
<1>2. CASE q.route = "assets"
  BY <1>2 DEF Static
<1>3. CASE q.route = "admin"
  BY <1>3 DEF Static
<1> QED
  BY <1>1, <1>2, <1>3

\* Setting the default method leaves the rest of the request as it is.
LEMMA DefaultMethod ==
  ASSUME NEW q \in Inputs, NEW m
  PROVE  LET d == [q EXCEPT !.method = m]
         IN  /\ d.route = q.route /\ d.role = q.role /\ d.file = q.file /\ d.body = q.body
             /\ RemoteIP(d) = RemoteIP(q)
<1> DEFINE d == [q EXCEPT !.method = m]
<1>1. /\ d.route = q.route /\ d.role = q.role /\ d.file = q.file /\ d.body = q.body
      /\ d.xForwardedFor = q.xForwardedFor /\ d.xRealIP = q.xRealIP
  BY DiagnosticsAssumption
<1>2. RemoteIP(d) = RemoteIP(q)
  BY <1>1 DEF RemoteIP
<1> QED
  BY <1>1, <1>2

\* A request is answered, or handed to a handler that reads the pointers.
LEMMA AdmitShape ==
  ASSUME NEW r \in Requests, NEW q, Admit(r, q),
         q.route \in Limited \cup {"summary"}
  PROVE  \/ \E status \in Statuses : Answer(r, status)
         \/ \E label \in Limited \cup {"summary"} : Goto(r, label) /\ UNCHANGED locals
<1>1. 400 \in Statuses
  BY DEF Statuses
<1> QED
  BY <1>1, Zenon DEF Admit

\* And a token is taken, if any, by an admin, from the key of its own address.
LEMMA HandleShape ==
  ASSUME NEW r \in Requests, NEW q \in Inputs, Handle(r, q)
  PROVE  /\ pc[r] = "idle" /\ UNCHANGED <<pointers, handler>>
         /\ \/ \E status \in Statuses : Answer(r, status)
            \/ \E label \in Limited \cup {"summary"} : Goto(r, label) /\ UNCHANGED locals
         /\ \/ UNCHANGED tokens
            \/ /\ q.role = "admin" /\ tokens[RemoteIP(q)] > 0
               /\ tokens' = [tokens EXCEPT ![RemoteIP(q)] = @ - 1]
<1> DEFINE d == [q EXCEPT !.method = IF @ = "" THEN "GET" ELSE @]
           Handled == \/ \E status \in Statuses : Answer(r, status)
                      \/ \E label \in Limited \cup {"summary"} :
                            Goto(r, label) /\ UNCHANGED locals
           Charged == \/ UNCHANGED tokens
                      \/ /\ q.role = "admin" /\ tokens[RemoteIP(q)] > 0
                         /\ tokens' = [tokens EXCEPT ![RemoteIP(q)] = @ - 1]
<1>1. d.route = q.route /\ d.role = q.role /\ RemoteIP(d) = RemoteIP(q)
  BY DefaultMethod
<1>2. q.route \in {"health", "logout", "whoami", "summary", "discovery", "decode", "simulate",
                   "assets", "admin", "unknown"}
  BY DiagnosticsAssumption DEF Methods
<1>3. {200, 403, 404, 405, 429, 503} \subseteq Statuses
  BY DEF Statuses
<1> HIDE DEF d
<1>4. ASSUME d.route \in Limited, Gate(r, d) PROVE Handled /\ Charged
  <2>1. CASE ~RequireAdmin(d) /\ Answer(r, 403) /\ UNCHANGED tokens
    BY <2>1, <1>3
  <2>2. CASE Answer(r, 429) /\ UNCHANGED tokens
    BY <2>2, <1>3
  <2>3. CASE /\ RequireAdmin(d) /\ tokens[RemoteIP(d)] > 0
             /\ tokens' = [tokens EXCEPT ![RemoteIP(d)] = @ - 1]
             /\ Admit(r, d)
    BY <1>1, <1>4, <2>3, AdmitShape DEF RequireAdmin
  <2> QED
    BY <1>4, <2>1, <2>2, <2>3 DEF Gate
<1>5. ASSUME Dispatch(r, d) PROVE Handled /\ Charged
  <2>1. CASE d.route \in Limited /\ Gate(r, d)
    BY <1>4, <2>1
  <2>2. CASE Answer(r, 404) /\ UNCHANGED tokens
    BY <2>2, <1>3
  <2>3. CASE Answer(r, 405) /\ UNCHANGED tokens
    BY <2>3, <1>3
  <2>4. CASE Answer(r, 403) /\ UNCHANGED tokens
    BY <2>4, <1>3
  <2>5. CASE d.route = "summary" /\ Admit(r, d) /\ UNCHANGED tokens
    BY <2>5, AdmitShape
  <2>6. CASE d.route \notin Limited \cup {"summary", "unknown"} /\ Answer(r, Static(d))
               /\ UNCHANGED tokens
    <3>1. Static(d) \in Statuses
      BY <1>1, <1>2, <1>3, <2>6, StaticStatus DEF Limited
    <3> QED
      BY <2>6, <3>1
  <2> QED
    BY <1>5, <2>1, <2>2, <2>3, <2>4, <2>5, <2>6, Zenon DEF Dispatch
<1>6. Handled /\ Charged
  <2>1. CASE Answer(r, 503) /\ UNCHANGED tokens
    BY <2>1, <1>3
  <2>2. CASE Dispatch(r, d)
    BY <1>5, <2>2
  <2> QED
    BY <2>1, <2>2 DEF Handle, d
<1> QED
  BY <1>6 DEF Handle

LEMMA TypeStep ==
  ASSUME RequestsType, SharedType, [Next]_vars
  PROVE  RequestsType' /\ SharedType'
<1> USE DiagnosticsAssumption
<1>1. ASSUME UNCHANGED <<pc, locals, answer>> PROVE RequestsType'
  BY <1>1 DEF RequestsType, locals
<1>2. ASSUME UNCHANGED <<pointers, handler, tokens>> PROVE SharedType'
  BY <1>2 DEF SharedType, ApplyingType, pointers
<1>3. ASSUME NEW a \in Appliers, Reconfigure(a) PROVE RequestsType' /\ SharedType'
  <2>1. RequestsType' /\ UNCHANGED <<handler, tokens>>
    BY <1>1, <1>3 DEF Reconfigure
  <2>2. ASSUME NEW p \in Issuers \cup {NoProvider}, NEW built \in {p, NoProvider},
               StoreConfig(a, Config(p), built)
        PROVE  SharedType'
    BY <2>1, <2>2 DEF StoreConfig, At, SharedType, ApplyingType
  <2>3. CASE StoreProvider(a)
    <3>1. applying[a].prov \in Issuers \cup {NoProvider}
      BY DEF SharedType, ApplyingType
    <3>2. ApplyingType'
      BY <2>3 DEF StoreProvider, Idle, At, SharedType, ApplyingType
    <3> QED
      BY <2>1, <2>3, <3>1, <3>2 DEF StoreProvider, SharedType
  <2>4. ASSUME NEW store, StoreStore(a, store) PROVE SharedType'
    BY <2>1, <2>4 DEF StoreStore, Idle, At, SharedType, ApplyingType
  <2> QED
    BY <1>3, <2>1, <2>2, <2>3, <2>4 DEF Reconfigure
<1>4. CASE SetHandler
  BY <1>1, <1>4 DEF SetHandler, SharedType, ApplyingType, pointers
<1>5. ASSUME NEW k \in Keys, Refill(k) PROVE RequestsType' /\ SharedType'
  BY <1>1, <1>5 DEF Refill, SharedType, ApplyingType, pointers
<1>6. CASE Restart
  <2>1. RequestsType'
    BY <1>6 DEF Restart, RequestsType, Labels, Statuses
  <2>2. /\ cfgPtr' \in {Config(p) : p \in Issuers \cup {NoProvider}}
        /\ ApplyingType'
    BY <1>6, ZeroNamesNone DEF Restart, LosePointers, ApplyingType, Idle, At
  <2>3. SharedType'
    BY <1>6, <2>2, FullBucket DEF Restart, LosePointers, SharedType
  <2> QED
    BY <2>1, <2>3
<1>7. ASSUME NEW r \in Requests, NEW q \in Inputs, Handle(r, q)
      PROVE  RequestsType' /\ SharedType'
  <2>1. RequestsType'
    <3>1. CASE \E status \in Statuses : Answer(r, status)
      BY <3>1, AnswerKeepsType
    <3>2. CASE \E label \in Limited \cup {"summary"} : Goto(r, label) /\ UNCHANGED locals
      BY <3>2, GotoKeepsType DEF locals, RequestsType, Labels
    <3> QED
      BY <1>7, <3>1, <3>2, HandleShape
  <2>2. tokens' \in [Keys -> 0..Burst]
    BY <1>7, HandleShape DEF SharedType
  <2>3. SharedType'
    BY <1>7, <2>2, HandleShape DEF SharedType, ApplyingType, pointers
  <2> QED
    BY <2>1, <2>3
<1>8. ASSUME NEW r \in Requests, Step(r) \/ Outside(r) PROVE RequestsType' /\ SharedType'
  <2>0. {200, 500} \subseteq Statuses
    BY DEF Statuses
  <2>1. UNCHANGED <<pointers, handler, tokens>>
    BY <1>8
       DEF Step, ReadSummary, FinishSummary, Simulate, Discover, Decode, FetchFailed, Outside,
           Connect, KeysAnswered, DocAnswered, DocNull, DocWithKeys
  <2>2. ASSUME NEW issuer \in Issuers \cup {NoProvider}, NEW label \in Fetching,
               FetchFor(r, issuer, label)
        PROVE  RequestsType'
    <3>1. IssuerAllowsLoopback(issuer) \in BOOLEAN
      BY DEF IssuerAllowsLoopback, IsLocalhost
    <3> QED
      BY <2>2, <3>1, GotoKeepsType DEF FetchFor, RequestsType, Labels
  <2>3. ASSUME Answer(r, 200) \/ Answer(r, 500) PROVE RequestsType'
    BY <2>0, <2>3, AnswerKeepsType
  <2>4. ASSUME ReadSummary(r) PROVE RequestsType'
    BY <2>4, LiveIssuer, GotoKeepsType DEF ReadSummary, RequestsType, Labels
  <2>5. ASSUME Discover(r) PROVE RequestsType'
    BY <2>2, <2>3, <2>5, LiveIssuer DEF Discover, Fetching
  <2>6. ASSUME Decode(r) PROVE RequestsType'
    BY <2>2, <2>3, <2>6 DEF Decode, Fetching, SharedType
  <2>7. ASSUME NEW ip \in Addresses, Connect(r, ip) PROVE RequestsType'
    BY <2>7 DEF Connect, RequestsType
  <2>8. ASSUME NEW uri \in JwksURIs, DocWithKeys(r, uri) PROVE RequestsType'
    <3>1. CASE Goto(r, "fetch-jwks") /\ hops' = [hops EXCEPT ![r] = 0]
                 /\ UNCHANGED <<cfg, client, reached>>
      BY <3>1, GotoKeepsType DEF RequestsType, Labels, Fetching
    <3> QED
      BY <2>3, <2>8, <3>1 DEF DocWithKeys
  <2>9. RequestsType'
    BY <1>8, <2>3, <2>4, <2>5, <2>6, <2>7, <2>8
       DEF Step, FinishSummary, Simulate, FetchFailed, Outside, KeysAnswered, DocAnswered, DocNull
  <2> QED
    BY <1>2, <2>1, <2>9
<1>9. CASE UNCHANGED vars
  BY <1>1, <1>2, <1>9 DEF vars
<1> QED
  BY <1>3, <1>4, <1>5, <1>6, <1>7, <1>8, <1>9 DEF Next

LEMMA TypesInvariant == Spec => [](RequestsType /\ SharedType)
<1>1. Init => RequestsType /\ SharedType
  <2> SUFFICES ASSUME Init PROVE RequestsType /\ SharedType
    OBVIOUS
  <2>1. RequestsType
    BY DiagnosticsAssumption DEF Init, RequestsType, Labels, Statuses
  <2>2. cfgPtr \in {Config(p) : p \in Issuers \cup {NoProvider}} /\ ApplyingType
    BY ZeroNamesNone DEF Init, PointersInit, ApplyingType, Idle, At
  <2> QED
    BY <2>1, <2>2, FullBucket DEF Init, PointersInit, SharedType
<1>2. RequestsType /\ SharedType /\ [Next]_vars => RequestsType' /\ SharedType'
  BY TypeStep
<1> QED
  BY <1>1, <1>2, PTL DEF Spec

\* Type correctness of the requests and of what they share.
THEOREM TypeCorrect == Spec => []TypeOK
<1>1. RequestsType /\ SharedType => TypeOK
  BY TypeParts
<1> QED
  BY <1>1, TypesInvariant, PTL

-----------------------------------------------------------------------------
(* Addresses *)

\* A step of r leaves the fetches of the others alone.
Others(r) ==
    \A s \in Requests : s # r =>
        pc'[s] = pc[s] /\ cfg'[s] = cfg[s] /\ client'[s] = client[s] /\ reached'[s] = reached[s]

LEMMA OthersReach ==
  ASSUME ReachInv, NEW r \in Requests, Others(r), ReachedFor(r)'
  PROVE  ReachInv'
  BY DEF ReachInv, ReachedFor, Others

\* With the answer the request's connections are gone.
LEMMA AnswerReach ==
  ASSUME RequestsType, ReachInv, NEW r \in Requests, NEW status, Answer(r, status)
  PROVE  ReachInv'
<1>1. Others(r)
  BY DEF RequestsType, Answer, Others
<1>2. pc'[r] = "idle" /\ reached'[r] = {} /\ client'[r] = FALSE
  BY DEF RequestsType, Answer
<1> QED
  BY <1>1, <1>2, OthersReach DEF ReachedFor

\* A request that is not fetching yet may read another issuer, and a client for
\* it is built from what was read.
LEMMA ReadReach ==
  ASSUME RequestsType, ReachInv, NEW r \in Requests, NEW label, Goto(r, label),
         pc[r] \notin Fetching, UNCHANGED reached,
         \A s \in Requests : s # r => cfg'[s] = cfg[s] /\ client'[s] = client[s],
         \/ client'[r] = FALSE
         \/ label \in Fetching /\ (client'[r] => cfg'[r] \in Localhosts)
  PROVE  ReachInv'
<1>1. Others(r) /\ pc'[r] = label
  BY DEF RequestsType, Goto, Others
<1>2. reached'[r] = {}
  BY DEF ReachInv, ReachedFor
<1> QED
  BY <1>1, <1>2, OthersReach DEF ReachedFor

\* The dialer's Control lets an unblocked address by, and loopback to a client for
\* localhost.
LEMMA ConnectReach ==
  ASSUME RequestsType, ReachInv, NEW r \in Requests, NEW ip \in Addresses, Connect(r, ip)
  PROVE  ReachInv'
<1>1. Others(r)
  BY DEF RequestsType, Connect, Others
<1>2. /\ pc'[r] = pc[r] /\ pc[r] \in Fetching /\ cfg'[r] = cfg[r] /\ client'[r] = client[r]
      /\ reached'[r] = reached[r] \cup {ip}
  BY DEF RequestsType, Connect
<1>3. ip \in {"unblocked", "loopback"} /\ (ip = "loopback" => client[r])
  BY DiagnosticsAssumption DEF Connect, Control, IsBlockedIP
<1>4. ReachedFor(r)
  BY DEF ReachInv
<1>5. ReachedFor(r)'
  BY <1>2, <1>3, <1>4 DEF ReachedFor
<1> QED
  BY <1>1, <1>5, OthersReach

LEMMA ReachStep ==
  ASSUME RequestsType, SharedType, ReachInv, [Next]_vars
  PROVE  ReachInv'
<1>1. ASSUME UNCHANGED <<pc, locals>> PROVE ReachInv'
  BY <1>1 DEF ReachInv, ReachedFor, locals
<1>2. ASSUME NEW r \in Requests, NEW q \in Inputs, Handle(r, q) PROVE ReachInv'
  <2>1. CASE \E status \in Statuses : Answer(r, status)
    BY <2>1, AnswerReach
  <2>2. ASSUME NEW label \in Limited \cup {"summary"}, Goto(r, label), UNCHANGED locals
        PROVE  ReachInv'
    <3>1. pc[r] = "idle"
      BY <1>2, HandleShape
    <3>2. client[r] = FALSE
      BY <3>1 DEF ReachInv, ReachedFor, Fetching, RequestsType
    <3> QED
      BY <2>2, <3>1, <3>2, ReadReach DEF locals, Fetching
  <2> QED
    BY <1>2, <2>1, <2>2, HandleShape
<1>3. ASSUME NEW r \in Requests, Step(r) \/ Outside(r) PROVE ReachInv'
  <2>1. CASE Answer(r, 200) \/ Answer(r, 500)
    BY <2>1, AnswerReach
  <2>2. CASE ReadSummary(r)
    <3>1. client'[r] = FALSE
      BY <2>2 DEF ReadSummary, ReachInv, ReachedFor, Fetching, RequestsType
    <3> QED
      BY <2>2, <3>1, ReadReach DEF ReadSummary, Fetching, RequestsType
  <2>3. ASSUME NEW issuer, NEW label \in Fetching, FetchFor(r, issuer, label),
               pc[r] \notin Fetching
        PROVE  ReachInv'
    <3>1. client'[r] => cfg'[r] \in Localhosts
      BY <2>3 DEF FetchFor, IssuerAllowsLoopback, IsLocalhost, RequestsType
    <3> QED
      BY <2>3, <3>1, ReadReach DEF FetchFor, RequestsType
  <2>4. CASE Discover(r)
    BY <2>1, <2>3, <2>4 DEF Discover, Fetching
  <2>5. CASE Decode(r)
    BY <2>1, <2>3, <2>5 DEF Decode, Fetching
  <2>6. ASSUME NEW ip \in Addresses, Connect(r, ip) PROVE ReachInv'
    BY <2>6, ConnectReach
  <2>7. ASSUME NEW uri \in JwksURIs, DocWithKeys(r, uri) PROVE ReachInv'
    <3>1. CASE Goto(r, "fetch-jwks") /\ UNCHANGED <<cfg, client, reached>>
      <4>1. Others(r) /\ pc'[r] = "fetch-jwks" /\ pc[r] \in Fetching
        BY <2>7, <3>1
           DEF DocWithKeys, Connected, Goto, Others, RequestsType, Fetching
      <4>2. ReachedFor(r)'
        BY <3>1, <4>1 DEF ReachInv, ReachedFor, Fetching
      <4> QED
        BY <4>1, <4>2, OthersReach
    <3> QED
      BY <2>1, <2>7, <3>1 DEF DocWithKeys
  <2> QED
    BY <1>3, <2>1, <2>2, <2>4, <2>5, <2>6, <2>7
       DEF Step, FinishSummary, Simulate, FetchFailed, Outside, KeysAnswered, DocAnswered, DocNull
<1>4. CASE Restart
  BY <1>4 DEF Restart, ReachInv, ReachedFor, Fetching
<1> QED
  BY <1>1, <1>2, <1>3, <1>4 DEF Next, Reconfigure, SetHandler, Refill, vars

\* A diagnostic connects to unblocked addresses, and to loopback only on behalf of an
\* issuer that is localhost, whatever the network and the configuration do.
THEOREM OnlyAllowedAddresses == Spec => []OnlyAllowedReached
<1>1. Init => ReachInv
  BY DEF Init, ReachInv, ReachedFor
<1>2. RequestsType /\ SharedType /\ ReachInv /\ [Next]_vars => ReachInv'
  BY ReachStep
<1>3. ReachInv => OnlyAllowedReached
  BY DEF ReachInv, ReachedFor, OnlyAllowedReached
<1> QED
  BY <1>1, <1>2, <1>3, TypesInvariant, PTL DEF Spec

-----------------------------------------------------------------------------
(* Tokens *)

\* A request without the admin role costs no key of the limiter a token.
THEOREM OutsidersAreFree == Spec => OutsidersSpendNothing
<1>1. ASSUME SharedType, [Next]_vars, NEW k \in Keys, tokens'[k] < tokens[k]
      PROVE  \E r \in Requests, q \in Inputs :
                q.role = "admin" /\ RemoteIP(q) = k /\ Handle(r, q)
  <2>0. tokens \in [Keys -> 0..Burst] /\ tokens[k] \in 0..Burst
    BY <1>1 DEF SharedType
  <2>1. tokens' # tokens
    BY <1>1, <2>0, DiagnosticsAssumption
  <2>2. ASSUME NEW j \in Keys, Refill(j) PROVE FALSE
    BY <1>1, <2>0, <2>2, DiagnosticsAssumption DEF Refill
  <2>3. CASE Restart
    BY <1>1, <2>0, <2>3, DiagnosticsAssumption DEF Restart
  <2>4. ASSUME NEW r \in Requests, NEW q \in Inputs, Handle(r, q)
        PROVE  q.role = "admin" /\ RemoteIP(q) = k
    <3>1. q.role = "admin" /\ tokens' = [tokens EXCEPT ![RemoteIP(q)] = @ - 1]
      BY <2>1, <2>4, HandleShape
    <3> QED
      BY <1>1, <2>0, <3>1, DiagnosticsAssumption
  <2>5. ASSUME NEW r \in Requests, Step(r) \/ Outside(r) PROVE UNCHANGED tokens
    BY <2>5
       DEF Step, ReadSummary, FinishSummary, Simulate, Discover, Decode, FetchFailed, Outside,
           Connect, KeysAnswered, DocAnswered, DocNull, DocWithKeys
  <2> QED
    BY <1>1, <2>1, <2>2, <2>3, <2>4, <2>5 DEF Next, Reconfigure, SetHandler, vars
<1>2. SharedType /\ [Next]_vars =>
        (\A k \in Keys : tokens'[k] < tokens[k] =>
            \E r \in Requests, q \in Inputs :
                q.role = "admin" /\ RemoteIP(q) = k /\ Handle(r, q))
  BY <1>1, Zenon
<1> QED
  BY <1>2, TypesInvariant, PTL DEF Spec, OutsidersSpendNothing

=============================================================================
