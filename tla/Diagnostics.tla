---------------------------- MODULE Diagnostics -----------------------------
(***************************************************************************)
(* The HTTP side of the plugin: the adapter of internal/httproutes, the    *)
(* router of internal/server and the read-only admin handlers of           *)
(* internal/admin, with the hardened client of internal/oidc that carries  *)
(* their fetches. They run beside the pointers (module Pointers), which    *)
(* change under them. The PATCH is in module Lifecycle, the verdict of the *)
(* claim simulator in module Simulator.                                    *)
(*                                                                         *)
(* A request is a process, on a goroutine of its own. What it fetches from *)
(* is outside: names resolve to any address, to another one every time,    *)
(* and a server redirects, answers anything or never answers. A provider   *)
(* is named by the host of its issuer URL.                                 *)
(***************************************************************************)
EXTENDS Integers, FiniteSets, Sequences, Pointers

CONSTANTS
    Requests,   \* HTTP requests in flight, by the goroutine they run on
    Inputs,     \* what a request may ask: route, file, role, headers and body
    Issuers,    \* hosts of the issuer URLs a configuration may name
    Localhosts, \* the names isLocalhost accepts
    Addresses,  \* the addresses a name may resolve to, by the range they are in
    JwksURIs,   \* jwks_uri values of discovery documents, as parsed URLs
    WebFS,      \* files of the embedded page, as sequences of path segments
    AssetsFS,   \* embedded icons, likewise
    Keys,       \* the limiter's keys
    Burst,      \* the admin limiter's burst
    MaxHops,    \* redirects net/http follows before it gives up
    None        \* no answer

\* The RemoteAddr of every request httptest.NewRequest makes.
RemoteAddr == "192.0.2.1"

Methods == [health |-> "GET", logout |-> "POST", whoami |-> "GET", summary |-> "GET",
            discovery |-> "GET", decode |-> "POST", simulate |-> "POST",
            assets |-> "GET", admin |-> "GET"]

ASSUME DiagnosticsAssumption ==
    /\ NoProvider \notin Issuers
    /\ Addresses \subseteq {"unblocked", "loopback", "private", "link-local",
                            "metadata", "unspecified"}
    /\ Burst \in Nat
    /\ MaxHops \in Nat
    /\ \A q \in Inputs :
          /\ DOMAIN q = {"route", "method", "role", "file", "body", "xForwardedFor", "xRealIP"}
          /\ q.route \in DOMAIN Methods \cup {"unknown"}

VARIABLES
    handler,   \* whether the adapter has a handler
    tokens,    \* whole tokens left in the admin limiter's bucket of each key
    pc,        \* where each request is
    cfg,       \* the issuer it read: its configuration's, or its provider's
    client,    \* whether its client may dial loopback
    hops,      \* redirects followed in its current fetch
    reached,   \* the addresses it has connected to
    answer     \* the status the last one there was answered with

locals == <<cfg, client, hops, reached>>
vars == <<pointers, handler, tokens, pc, locals, answer>>

Init ==
    /\ PointersInit
    /\ handler = FALSE
    /\ tokens = [k \in Keys |-> Burst]
    /\ pc = [r \in Requests |-> "idle"]
    /\ cfg = [r \in Requests |-> NoProvider]
    /\ client = [r \in Requests |-> FALSE]
    /\ hops = [r \in Requests |-> 0]
    /\ reached = [r \in Requests |-> {}]
    /\ answer = [r \in Requests |-> None]

-----------------------------------------------------------------------------
(* The process around the requests *)

Config(p) == [ZeroConfig EXCEPT !.provider = p]

Reconfigure(a) ==
    /\ \/ \E p \in Issuers \cup {NoProvider} : \E built \in {p, NoProvider} :
              StoreConfig(a, Config(p), built)
       \/ StoreProvider(a)
       \/ \E store \in {"store"} : StoreStore(a, store)
    /\ UNCHANGED <<handler, tokens, pc, locals, answer>>

\* A Configure sets the handler once it has published its store.
SetHandler ==
    /\ storePtr # NoStore
    /\ ~handler
    /\ handler' = TRUE
    /\ UNCHANGED <<pointers, tokens, pc, locals, answer>>

\* Mutant: a bucket is filled past its burst.
RefillUncapped(k) ==
    /\ tokens' = [tokens EXCEPT ![k] = @ + 1]
    /\ UNCHANGED <<pointers, handler, pc, locals, answer>>

\* Time passes, and a bucket has another whole token. Module RateLimit has the
\* arithmetic.
Refill(k) ==
    /\ tokens[k] < Burst
    /\ tokens' = [tokens EXCEPT ![k] = @ + 1]
    /\ UNCHANGED <<pointers, handler, pc, locals, answer>>

\* The process dies; the host sees its requests fail.
Restart ==
    /\ LosePointers
    /\ handler' = FALSE
    /\ tokens' = [k \in Keys |-> Burst]
    /\ pc' = [r \in Requests |-> "idle"]
    /\ cfg' = [r \in Requests |-> NoProvider]
    /\ client' = [r \in Requests |-> FALSE]
    /\ hops' = [r \in Requests |-> 0]
    /\ reached' = [r \in Requests |-> {}]
    /\ answer' = [r \in Requests |-> None]

-----------------------------------------------------------------------------
(* Adapter, router and middleware *)

Goto(r, label) ==
    /\ pc' = [pc EXCEPT ![r] = label]
    /\ answer' = [answer EXCEPT ![r] = None]

\* The response goes to the host, and the handler's variables with it.
Answer(r, status) ==
    /\ pc' = [pc EXCEPT ![r] = "idle"]
    /\ answer' = [answer EXCEPT ![r] = status]
    /\ cfg' = [cfg EXCEPT ![r] = NoProvider]
    /\ client' = [client EXCEPT ![r] = FALSE]
    /\ hops' = [hops EXCEPT ![r] = 0]
    /\ reached' = [reached EXCEPT ![r] = {}]

\* No path with dots; the assets of the page's bundle first, then the icons.
HandleAssets(q) ==
    /\ q.file # <<>> /\ \A i \in DOMAIN q.file : q.file[i] # ".."
    /\ <<"assets">> \o q.file \in WebFS \/ q.file \in AssetsFS

\* Every path under /admin that is not under /admin/assets/ is the page.
HandleSPA(q) ==
    (IF Len(q.file) > 1 /\ Head(q.file) = "assets" THEN q.file ELSE <<"index.html">>)
        \in WebFS

RequireAdmin(q) == q.role = "admin"

\* remoteIP: the host's headers, or the address httptest.NewRequest makes up.
RemoteIP(q) ==
    CASE q.xForwardedFor # "" -> q.xForwardedFor
      [] q.xForwardedFor = "" /\ q.xRealIP # "" -> q.xRealIP
      [] OTHER -> RemoteAddr

\* The POSTs refuse a body that is not JSON before they read anything else.
Refused(q) == q.route \in {"decode", "simulate"} /\ q.body # "json"

Admit(r, q) ==
    \/ Refused(q) /\ Answer(r, 400)
    \/ ~Refused(q) /\ Goto(r, q.route) /\ UNCHANGED locals

\* Mutant: the limiter is asked before the role.
GateLimiterFirst(r, q) ==
    LET k == RemoteIP(q)
    IN  \/ tokens[k] = 0 /\ Answer(r, 429) /\ UNCHANGED tokens
        \/ /\ tokens[k] > 0
           /\ tokens' = [tokens EXCEPT ![k] = @ - 1]
           /\ \/ ~RequireAdmin(q) /\ Answer(r, 403)
              \/ RequireAdmin(q) /\ Admit(r, q)

\* requireAdmin, then rateLimit.
Gate(r, q) ==
    LET k == RemoteIP(q)
    IN  \/ ~RequireAdmin(q) /\ Answer(r, 403) /\ UNCHANGED tokens
        \/ RequireAdmin(q) /\ tokens[k] = 0 /\ Answer(r, 429) /\ UNCHANGED tokens
        \/ /\ RequireAdmin(q) /\ tokens[k] > 0
           /\ tokens' = [tokens EXCEPT ![k] = @ - 1]
           /\ Admit(r, q)

\* The status of the handlers that neither wait nor read what others write.
Static(q) ==
    CASE q.route \in {"health", "logout", "whoami"} -> 200
      [] q.route = "assets" -> IF HandleAssets(q) THEN 200 ELSE 404
      [] q.route = "admin" -> IF HandleSPA(q) THEN 200 ELSE 404

Limited == {"discovery", "decode", "simulate"}

\* What chi answers to a path or a method that no route has is external. The
\* route of the PATCH is left to module Lifecycle.
Dispatch(r, q) ==
    \/ q.route \in Limited /\ q.method = Methods[q.route] /\ Gate(r, q)
    \/ /\ \/ q.route = "unknown" /\ Answer(r, 404)
          \/ q.route # "unknown" /\ q.method # Methods[q.route] /\ Answer(r, 405)
          \/ /\ q.route = "summary" /\ q.method = "GET"
             /\ \/ ~RequireAdmin(q) /\ Answer(r, 403)
                \/ RequireAdmin(q) /\ Admit(r, q)
          \/ /\ q.route \notin Limited \cup {"summary", "unknown"}
             /\ q.method = Methods[q.route]
             /\ Answer(r, Static(q))
       /\ UNCHANGED tokens

\* Handle of httproutes. An empty method is a GET.
Handle(r, q) ==
    /\ pc[r] = "idle"
    /\ \/ ~handler /\ Answer(r, 503) /\ UNCHANGED tokens
       \/ handler /\ Dispatch(r, [q EXCEPT !.method = IF @ = "" THEN "GET" ELSE @])
    /\ UNCHANGED <<pointers, handler>>

-----------------------------------------------------------------------------
(* The handlers that read the pointers *)

\* handleConfigSummary reads the configuration, then the provider and the last
\* discovery error: the page is given the states of three moments.
ReadSummary(r) ==
    /\ pc[r] = "summary"
    /\ cfg' = [cfg EXCEPT ![r] = cfgPtr.provider]
    /\ Goto(r, "summary-provider")
    /\ UNCHANGED <<pointers, handler, tokens, client, hops, reached>>

FinishSummary(r) ==
    /\ pc[r] = "summary-provider"
    /\ Answer(r, 200)
    /\ UNCHANGED <<pointers, handler, tokens>>

\* handleSimulateClaims reads the configuration once and computes.
Simulate(r) ==
    /\ pc[r] = "simulate"
    /\ Answer(r, 200)
    /\ UNCHANGED <<pointers, handler, tokens>>

IsLocalhost(host) == host \in Localhosts

IssuerAllowsLoopback(issuer) == IsLocalhost(issuer)

\* A client for the issuer is at work on a fetch.
FetchFor(r, issuer, label) ==
    /\ cfg' = [cfg EXCEPT ![r] = issuer]
    /\ client' = [client EXCEPT ![r] = IssuerAllowsLoopback(issuer)]
    /\ Goto(r, label)
    /\ UNCHANGED <<hops, reached>>

\* handleDiscovery, up to its first fetch.
Discover(r) ==
    /\ pc[r] = "discovery"
    /\ \/ cfgPtr.provider = NoProvider /\ Answer(r, 200)
       \/ cfgPtr.provider # NoProvider /\ FetchFor(r, cfgPtr.provider, "fetch-doc")
    /\ UNCHANGED <<pointers, handler, tokens>>

\* handleDecodeIDToken: no provider, a verdict from keys the verifier has, or a
\* fetch of keys by the client the provider was built with.
Decode(r) ==
    /\ pc[r] = "decode"
    /\ \/ Answer(r, 200)
       \/ provPtr # NoProvider /\ FetchFor(r, provPtr, "fetch-keys")
    /\ UNCHANGED <<pointers, handler, tokens>>

-----------------------------------------------------------------------------
(* A fetch through SecureHTTPClient. The environment has no proxy. *)

\* The other addresses are "unblocked": public ones, and also those of ranges the
\* code does not name, such as carrier-grade NAT and multicast.
IsBlockedIP(ip, allowLoopback) ==
    \/ ip \in {"unspecified", "link-local", "private", "metadata"}
    \/ ip = "loopback" /\ ~allowLoopback

Fetching == {"fetch-doc", "fetch-jwks", "fetch-keys"}

\* Mutant: only the first address of a fetch is checked.
ControlFirst(r, ip) == hops[r] = 0 => ~IsBlockedIP(ip, client[r])

\* The dialer's Control, called with each address about to be connected to.
Control(r, ip) == ~IsBlockedIP(ip, client[r])

\* The first connection of a fetch, or that of a redirect, to a name of the
\* server's choice.
Connect(r, ip) ==
    /\ pc[r] \in Fetching
    /\ hops[r] <= MaxHops
    /\ Control(r, ip)
    /\ reached' = [reached EXCEPT ![r] = @ \cup {ip}]
    /\ hops' = [hops EXCEPT ![r] = @ + 1]
    /\ UNCHANGED <<pointers, handler, tokens, pc, cfg, client, answer>>

Connected(r, labels) == pc[r] \in labels /\ hops[r] > 0

\* Mutant: the client has no timeout of its own, so that only the fetches under
\* handleDiscovery's deadline are sure to end.
FetchFailedByDeadline(r) ==
    /\ pc[r] \in {"fetch-doc", "fetch-jwks"}
    /\ Answer(r, 200)
    /\ UNCHANGED <<pointers, handler, tokens>>

\* The fetch ends with an error: every address was blocked or failed, there were
\* too many redirects, or the time was up, which the 10 seconds of
\* handleDiscovery or the 30 of the client guarantee. The handlers report it in
\* an answer of status 200; without the JWKS the document itself is the answer.
FetchFailed(r) ==
    /\ pc[r] \in Fetching
    /\ Answer(r, 200)
    /\ UNCHANGED <<pointers, handler, tokens>>

\* Whatever came in place of the keys, the document with or without a summary of
\* them, or the verdict on the id_token, is answered.
KeysAnswered(r) ==
    /\ Connected(r, {"fetch-jwks", "fetch-keys"})
    /\ Answer(r, 200)
    /\ UNCHANGED <<pointers, handler, tokens>>

ValidateFetchURL(u) ==
    /\ u.scheme \in {"http", "https"}
    /\ u.host # "" /\ ~u.user
    /\ u.scheme = "http" => IsLocalhost(u.host)

\* An error status, a body that is cut off or does not parse, or a document
\* without a jwks_uri: nothing more is fetched.
DocAnswered(r) ==
    /\ Connected(r, {"fetch-doc"})
    /\ Answer(r, 200)
    /\ UNCHANGED <<pointers, handler, tokens>>

\* The body is null: the write to the nil map panics, and Recoverer answers.
DocNull(r) ==
    /\ Connected(r, {"fetch-doc"})
    /\ Answer(r, 500)
    /\ UNCHANGED <<pointers, handler, tokens>>

\* The document names its JWKS, which the same client fetches unless the URI is
\* refused.
DocWithKeys(r, uri) ==
    /\ Connected(r, {"fetch-doc"})
    /\ \/ ~ValidateFetchURL(uri) /\ Answer(r, 200)
       \/ /\ ValidateFetchURL(uri)
          /\ hops' = [hops EXCEPT ![r] = 0]
          /\ Goto(r, "fetch-jwks")
          /\ UNCHANGED <<cfg, client, reached>>
    /\ UNCHANGED <<pointers, handler, tokens>>

-----------------------------------------------------------------------------

\* What the network does to a request.
Outside(r) ==
    \/ \E ip \in Addresses : Connect(r, ip)
    \/ KeysAnswered(r)
    \/ DocAnswered(r)
    \/ DocNull(r)
    \/ \E uri \in JwksURIs : DocWithKeys(r, uri)

\* The steps a request takes whatever the network does.
Step(r) ==
    \/ ReadSummary(r)
    \/ FinishSummary(r)
    \/ Simulate(r)
    \/ Discover(r)
    \/ Decode(r)
    \/ FetchFailed(r)

Next ==
    \/ \E a \in Appliers : Reconfigure(a)
    \/ SetHandler
    \/ \E k \in Keys : Refill(k)
    \/ Restart
    \/ \E r \in Requests, q \in Inputs : Handle(r, q)
    \/ \E r \in Requests : Step(r) \/ Outside(r)

\* Goroutines are scheduled and deadlines pass. Nothing is asked of the network,
\* of the host or of reconfigurations.
Fairness == \A r \in Requests : WF_vars(Step(r))

Spec == Init /\ [][Next]_vars /\ Fairness

-----------------------------------------------------------------------------
(* Correctness *)

\* Type invariant of the requests and of what they share.
TypeOK ==
    /\ cfgPtr \in {Config(p) : p \in Issuers \cup {NoProvider}}
    /\ provPtr \in Issuers \cup {NoProvider}
    /\ handler \in BOOLEAN
    /\ tokens \in [Keys -> 0..Burst]
    /\ pc \in [Requests -> Fetching \cup Limited \cup {"idle", "summary", "summary-provider"}]
    /\ cfg \in [Requests -> Issuers \cup {NoProvider}]
    /\ client \in [Requests -> BOOLEAN]
    /\ hops \in [Requests -> 0..(MaxHops + 1)]
    /\ reached \in [Requests -> SUBSET Addresses]
    /\ answer \in [Requests -> {None, 200, 400, 403, 404, 405, 429, 500, 503}]

\* A diagnostic never connects to an address of the ranges isBlockedIP names, and to
\* loopback only for an issuer that is localhost, the one it read at its start,
\* whatever names resolve to, wherever servers redirect and whichever configuration
\* comes meanwhile.
OnlyAllowedReached ==
    \A r \in Requests :
        /\ reached[r] \subseteq {"unblocked", "loopback"}
        /\ "loopback" \in reached[r] => cfg[r] \in Localhosts

\* Every request is answered, or dies with the process: a server that never
\* answers, or redirects for ever, holds up no request.
EveryRequestAnswered ==
    \A r \in Requests : pc[r] # "idle" ~> pc[r] = "idle"

\* Users who are no admins, however many requests they send, use up none of the
\* tokens of the diagnostics: only an admin's request takes one, from its own key.
OutsidersSpendNothing ==
    [][\A k \in Keys : tokens'[k] < tokens[k] =>
          \E r \in Requests, q \in Inputs :
              q.role = "admin" /\ RemoteIP(q) = k /\ Handle(r, q)]_vars

\* What server.go says of the discovery panel: any failure is reported with
\* ok=false and status 200.
DiscoveryAnswers200 ==
    [][\A r \in Requests :
          pc[r] \in {"discovery", "fetch-doc", "fetch-jwks"} /\ pc'[r] = "idle" =>
              answer'[r] \in {200, None}]_vars

=============================================================================
