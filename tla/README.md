# A TLA+ model of the OIDC login plugin

This directory specifies, model-checks and proves the behaviour of the OIDC login
plugin for Silo whose source is under `src/`. Paths below are relative to `src/`.

## The system

The plugin is one Go process that the Silo host drives over gRPC. Handlers run on
goroutines of the gRPC server; nothing serialises them.

| Component | State | Operations | Talks to |
| --- | --- | --- | --- |
| Login path, `internal/auth` | none of its own; `provider_state` travels with the host | `InitAuthorize`, `ExchangeCode` | pointers of `main`, limiter, nonce table, provider, audit log |
| Store, `internal/store` | Postgres: `auth_nonce` rows, the one `app_config` row | `ConsumeNonce`, `GetConfig`, `UpdateConfig`, `ImportLegacyConfig`, `Migrate` | database |
| Rate limiter, `internal/ratelimit` | a bucket per key, time of the last sweep, one mutex | `Allow` | its callers |
| Claim engine, `internal/claims` | pure | `EvaluateFilters`, `ResolveRole`, `DeriveIdentity`, ... | login path, simulator |
| Wiring, `cmd/.../main.go` | `cfgPtr`, `provPtr`, `storePtr`, `poolPtr`, `lastProviderErr` | Configure callback, `applyConfig`, `UpdateConfigFn` | all of them |
| Runtime, `internal/runtime` | last config entries | `Configure`, `LoadConfig`, `ValidateConfig` | wiring |
| Admin API, `internal/admin` | none | PATCH config, summary, discovery, decode, simulate | wiring, claim engine |
| Provider, `internal/oidc` | discovered endpoints and keys | `NewProvider`, hardened HTTP client | identity provider |
| HTTP, `internal/httproutes`, `internal/server` | handler pointer | `Handle`, routing, static files | admin API, SPA |
| Admin page, `web/` | form state | load, save, simulate | admin API, host |

What is hard about it:

* replayed and concurrent callbacks against a nonce table that prunes itself, with
  the staleness check made earlier in the call than the prune;
* pointers read one after the other while a reconfiguration stores them one after
  the other, and values kept across network calls;
* Configure and PATCH writing database and pointers without a lock, failing half
  way, losing answers, crashing in between, and closing each other's pools;
* signed claims overridden by unsigned ones before policy reads them;
* a limiter whose callers take the mutex with times out of order;
* fetches to names that resolve anew at every dial, from servers that redirect or
  never answer;
* a Save in two halves, one in the plugin and one in the host, in several tabs.

Correct means: a callback is good for one login, and for the login it was started
for; the policy that is configured is the policy that is applied, to signed
claims; what is live is valid and is what is stored; the limiter enforces its
rate and keeps its promises; a diagnostic reaches no address of the blocked ranges
and always ends; a saved name is the name on the login button. `PROJECT.json` lists
the hazards line by line.

## Modules

| Module | Models | Runs |
| --- | --- | --- |
| `Claims` | the claim engine as operators on tagged JSON values | through `AuthFlow` and `Simulator` |
| `Pointers` | abstract: the order in which a configuration is stored to the atomic pointers | implemented by `Lifecycle`, extended by `AuthFlow` and `Diagnostics` |
| `LoginService` | abstract: what a login may be granted | implemented by `AuthFlow` |
| `AuthFlow` (extends `Claims`, `Pointers`) | `InitAuthorize`, `ExchangeCode`, `ConsumeNonce`, the provider | `replay`, `login`, and four of the findings |
| `Simulator` (extends `AuthFlow`) | `handleSimulateClaims` beside the logins it foretells | `login` |
| `RateLimit` | `Allow`, `sweepLocked` | `rate_limit` |
| `Config` (extends `Claims`) | `LoadConfig`, `ValidateConfig`, the merge of a PATCH body | through `Lifecycle` |
| `Lifecycle` (extends `Config`) | Configure, PATCH, `applyConfig`, `app_config`, pools, crashes | `lifecycle`, `save_race` |
| `Diagnostics` (extends `Pointers`) | the HTTP adapter, the router, the admin gate and limiter, the read-only admin handlers, the hardened client | `diagnostics`, `discovery` |
| `AdminPage` | the admin page's form, its two-step Save and its refetch, in several tabs | `admin_page` |
| `MCAuthFlow`, `MCRateLimit`, `MCLifecycle`, `MCDiagnostics`, `MCAdminPage` | instances | |
| `AuthFlowProofs`, `BindingProofs`, `ServiceProofs` | theorems about `AuthFlow` and `Simulator` | |
| `RateLimitProofs` | theorems about `RateLimit` | |
| `LifecycleProofs`, `CoherenceProofs` | theorems about `Lifecycle` | |
| `DiagnosticsProofs` | theorems about `Diagnostics` | |
| `AdminPageProofs` | theorems about `AdminPage` | |

How they compose. `Lifecycle` takes a reconfiguration apart, with its database, its
discovery and its failures. What the rest of the plugin sees of it are three
pointers, and `Pointers` says in which order they are stored, and nothing more:
`ImplementsPointers` shows that every step of any number of overlapping Configures
and PATCHes, and of a crash, is a step of `Pointers` under the mapping
`LoginView`, `ApplyingView`. `AuthFlow` and `Diagnostics` then run logins and
requests beside `Pointers`, with any number of appliers at once, so what they
show holds beside the real reconfiguration. `AuthFlow` in turn implements
`LoginService`, in which there are no pointers, clocks, tables or steps: logins are
started, codes are signed for them, and a code is granted once, for its own login,
for its own client and with no subject but the signed one.

### Pointers, AuthFlow, Simulator

An application of a configuration stores `cfgPtr`, then `provPtr` (the provider the
configuration names, or nil after a failed discovery), and, when it is a
Configure, `storePtr`. A PATCH needs a store to have come so far; a Configure
does not. `LosePointers` is the death of the process.

An `ExchangeCode` call is a process whose steps lie between its accesses to what
it shares: `ExchangeCode` (limiter verdict, load of `cfgPtr`), `ReadProvider`,
`CheckRequest` (the four checks of the request in the code's order), `StampExpiry`
(`time.Now().Add(stateTTL)`), `LoadStore` (`consumeNonce` finds the live store, or
none, and then nothing guards the call), `PruneNonces`, `InsertNonce`,
`TokenExchange`, `VerifyIDToken`, `FinishLogin` (userinfo, merge, gates, role,
link, identity). `Restart` kills the process and keeps the databases, of which
there may be several: a Configure may name another `database_url`, and a call that
has loaded its store goes on with the old one. A flow stands for its nonce and its
PKCE verifier, which are random and assumed unique; losing the field `nonce`
stands for losing either. `IdPAuthorize`, `Redeemable` and `Redeem` are the
provider, external: a code is redeemed once, by the client it was issued to;
whether the provider also compares the PKCE verifier and the redirect URI is the
constant `IdPChecks`. What `provPtr` points to is an issuer, a client, its secret
and its scopes; the provider knows the first two, which `Registration` gives. So a
login that was started before a secret was rotated, or scopes were changed, can
be finished after it, under the new configuration, and the model has such logins.
go-oidc's verification either fails or returns the token the
code was issued for. `Skew` separates the database's clock, which `NOW()` reads,
from the plugin's.

`Simulator` computes what `handleSimulateClaims` answers, from its own chain of
functions (`TraceFilters` and not `EvaluateFilters`), with the rules of the request
in place of the live ones where it has any.

Left out: display names, peer addresses, log wording, the failure of the entropy
source and of `structpb.NewStruct`.

### RateLimit

Tokens are integers counting fractions of a token, so that sums are exact (the
code uses floats). Reading the clock and the critical section are two steps.
`mark`, `spent` and `retryAt` are history. One assumption is about scheduling: no
caller waits for the mutex longer than `MaxLag`; without it the window a caller
accounts to could lie arbitrarily far back. `Rate * (TTL - MaxLag) >= Burst` says
that an idle bucket has refilled when it is swept; the limiters of `main.go`
refill in 120 and 20 seconds, against a TTL of ten minutes.

### Lifecycle

Each Configure and each PATCH is a process; each database statement, the
discovery, and each pointer store is a step. A database write commits, commits
with its answer lost, or fails. A pool is named by the Configure that opened it.
`overlap` and `settled` are history: which operations were in flight together, and
whether the last change was made by one that succeeded and overlapped no other.
Configuration strings are taken after `TrimSpace`; what depends on their
characters (issuer URLs, scopes, icons, path segments) is a set of accepted
strings. All Configures name one database here. Discovery either fails or gives
the provider that the configuration describes. `ImportDue` compares rule lists by
value; the code's `reflect.DeepEqual` also tells a nil list from an empty one,
which the model does not.

### Diagnostics

A request is a process. `Handle` is the adapter (503 without a handler, GET for no
method) and, in the same step, the router and the middleware, which touch nothing
shared but the limiter: `RequireAdmin`, then the limiter's bucket of `RemoteIP`.
A handler then reads the pointers: `ReadSummary` and `FinishSummary`, `Simulate`,
`Discover`, `Decode`. The last two fetch through `SecureHTTPClient`: each `Connect`
is to an address of the environment's choice, which `Control` must admit; a server
redirects up to `MaxHops` times, answers (`DocAnswered`, `DocNull`, `DocWithKeys`,
`KeysAnswered`) or does not, and `FetchFailed` ends the fetch at any time, at the
latest when its deadline passes. Addresses are the ranges `isBlockedIP` names, and
`"unblocked"` for all it lets by: the public ones, and also ranges it does not name,
such as those of carrier-grade NAT and multicast. Paths of files are sequences of
segments; a segment with two dots in it is `".."`. The limiter's bucket counts whole tokens that come back at any time; its
arithmetic is in `RateLimit`. What chi answers to unknown paths and methods is
external. Left out: query, header and body copying, content types, the theme, the
contents of answers, and proxies, to which the dialled address would be the
proxy's.

### AdminPage

A tab loads the summary into its form, is edited, and saves: the form is closed
over, the plugin PATCHed, then the host's auth binding PUT. Either call fails, or
takes effect and loses its answer. The summary is fetched again at any time (a
success invalidates it, and React Query refetches when the browser comes back on
line), and fills the form if it has changed. The PATCH is one step: what it
consists of is `Lifecycle`'s business. Of the settings, the display name (which
the binding repeats, as it does the icon) and the secret (which the summary never
tells) are kept apart from the rest. `accepted`, `sent`, `saved` and `torn` are
history.

## What is checked

Passing runs (`tlc -workers 2 -config X.cfg M`):

| Run | Bounds | Shows |
| --- | --- | --- |
| `replay` | 2 calls, 1 flow, 2 databases, TTL 1, clock to 2, `issued_at` perhaps lost | `AtMostOnceInWindow`, `ReplayVerdictSound`, `ImplementsLoginService`, `TypeOK` |
| `login` | 2 flows; 2 clients, one of them also with a rotated secret; 3 configurations; 2 states, one of them empty; 3 users; 6 userinfo answers; 1 code, 1 call; provider that checks nothing | `AcceptedLoginIsBound`, `EmailGateIsSigned`, `SimulatorForetells` |
| `rate_limit` | 2 callers, 2 keys, burst of 4/3 token, TTL 3, clock to 7 | `WindowBound`, `HonestRetryAfter`, `RetentionBound`, `TypeOK` |
| `lifecycle` | 2 Configures, 2 PATCHes, 4 bodies, 2 sets of entries | `ConfigsAreValid`, `NoPoolLeak`, `StorePoolIsOpen`, `SettledIsCoherent`, `UnguardedOnlyWhilePublishing`, `ImplementsPointers`, `TypeOK` |
| `diagnostics` | 2 requests of 18 kinds, 2 issuers, 3 ranges of addresses, 1 redirect, 2 buckets of 1 token | `OnlyAllowedReached`, `OutsidersSpendNothing`, `EveryRequestAnswered`, `TypeOK` |
| `admin_page` | 2 tabs, 2 edits, 2 names, 2 secrets, 1 refused setting | `BindingWasStored`, `SavedMeansAgreed`, `SecretResentOnlyAfterError`, `HostCatchesUp`, `TypeOK` |

Why the bounds suffice: a replay needs two calls and a moment before, at and after
the end of the window, and two databases to move between. Binding and policy are
properties of one call against two of everything it could be confused with and
every kind of claim. The limiter's cases need a caller overtaken by another, a
sweep, a bucket created again after it, and a rate that does not divide a token.
Two Configures are needed to replace a pool, two PATCHes to race, and one of each
to interleave them. A request shares nothing with another but a bucket, so two
suffice; the second connection of a fetch is where a redirect or another
resolution comes in. Two tabs race, and two edits are enough for a name and a
secret to be typed during another's Save. `ImplementsLoginService` is checked in
`replay`, with two calls for one code; what one call could confuse is the matter of
`AcceptedLoginIsBound` in `login`. In `replay` the clocks agree and no field of
`provider_state` is lost but `issued_at`, in `login` none but by an empty state, and
there is one redirect URI, whose check is that of the state; the theorems cover any
skew, any loss and any URIs.

Fairness. `AuthFlow`, `RateLimit` and `Lifecycle` have safety properties only, and
assume none. `Diagnostics` assumes weak fairness of each request's own steps:
goroutines are scheduled, and every fetch has a deadline (10 seconds in
`handleDiscovery`, 30 in the client that `handleDecodeIDToken` uses), which is what
keeps `FetchFailed` enabled. Nothing is assumed of servers, of the host or of
reconfigurations. `AdminPage` assumes that a call ends, well or badly (`fetch`
settles); that calls do not fail for ever (strong fairness of the successful
outcomes); and that an operator who is shown an error saves again. The last two
are assumptions on the environment, and `HostCatchesUp` says what the page makes
of them: an error is always shown, and a retry repeats both halves.

Deadlock is not checked in `replay`, `login`, `rate_limit` and `lifecycle`, and
their findings: calls, flows and operations are finite in number and each is used
once, so every instance ends; the system itself waits for requests. `diagnostics`
and `admin_page` check it.

### Where a comment and the code disagree

Six runs expect a violation. Each checks what a comment says.

* `nonce_reuse`: a nonce is consumed twice when a call is delayed between its
  staleness check and its INSERT, or when the host lost `issued_at`. What does
  hold is `AtMostOnceInWindow`: never twice in one database within the flow's
  window, as the database's clock has it. The consequences are limited, since the
  provider redeems a code once.
* `torn_pair`: a login can be judged by the configuration of another provider, or
  by none at all during the first Configure.
* `linked_email`: the link gate reads the signed email, the host receives
  userinfo's.
* `subject`: a userinfo `sub` that is null or empty erases the subject. (One that is
  a number cannot be decoded by go-oidc, and counts as no userinfo.)
* `save_race`: overlapping saves can leave live what is not stored.
* `discovery`: a discovery document of `null` makes the panel answer 500, where
  comment and documentation promise 200 with a reason.

Divergences that were met while modelling and have no run of their own:

* `docs/setup-debug-flows.md` says of `email_verified_required` that "The merged claim
  must be the boolean `true`" (line 71, and line 99 alike), and that "JSON `true` from
  id_token or userinfo both work" (line 104). The code reads the id_token alone
  (`internal/auth/server.go:323-326`), as its comment above these lines asks for: a
  `true` from userinfo opens nothing, and a `false` from userinfo closes nothing.
  The run `login` and the theorem `EmailsAreVerified` show that with
  `EmailGateIsSigned`, in which either direction contradicts the documentation.
* A replay check that fails for another cause than a replay refuses the login
  without an audit record (`internal/auth/server.go:245-246`), although
  `internal/audit/audit.go:2-3` and `16-18` speak of every decision.
* `docs/admin-panels.md:105` and the comments of `handleSimulateClaims` call the
  simulator faithful to a login. It is, as `SimulatorForetells` says, unless
  userinfo answers with another `sub` or `email_verified`: those the login takes
  from the id_token and the simulator from the merged claims.
* `docs/setup-debug-flows.md` describes a failed discovery as failing Configure;
  the code keeps serving admin. The comment on `NewProvider` says the same. The page also
  says the issuer is trimmed of trailing slashes (it is kept verbatim), and that
  `http.DefaultClient` without a proxy is used (`SecureHTTPClient` takes the proxy
  of the environment).
* The comment on `maxResponseBytes` covers discovery and JWKS bodies;
  `fetchJWKSSummary` reads its body without a limit.
* `Deps.ProviderErrFn` exists because "the SPA needs a way to tell the operator why
  sign-in is unavailable"; the page ignores `provider_ready` and `provider_error`.
* All requests without forwarding headers share one bucket, since
  `httptest.NewRequest` gives each the same RemoteAddr.
* An empty query parameter reaches the handler as the text of a protobuf value
  (`internal/httproutes/server.go:58`).
* Asset paths of a page two levels under `/admin` resolve to `/admin/assets/`,
  which the comment at `internal/server/server.go:110-113` means to avoid.
* A Save whose PATCH was stored and whose PUT failed leaves the secret in the form
  (`web/src/pages/Admin.tsx:116` shows the error and does no more), and its retry
  stores it again, also over a secret that another tab has set meanwhile. What
  `SecretResentOnlyAfterError` shows is that this needs an error to have been reported:
  after a success the secret is not sent again unless it is typed again.
* Two Saves that overlap can leave plugin and host with different names while both
  report success; `SavedMeansAgreed` and `HostCatchesUp` exclude them (`torn`).

## What is proved

TLAPS checks, for every value of the constants that the `ASSUME`s admit:

* `AuthFlowProofs`: `TypeCorrect`, `NonceConsumedOnce`, `ReplaysAreReal`. The
  inductive invariant is `ReplayInv`. At-most-once is not inductive: it needs that
  a row expires no earlier than its flow's window (`RowCoversWindow`, from
  `StampCoversWindow`: the expiry is stamped after the flow was issued), hence
  that a row is there as long as the window is open (`RowKept`), hence that a
  second INSERT inside it finds the row. All of it holds per database, beside any
  number of appliers.
* `BindingProofs`: `LoginsAreBound`, `EmailsAreVerified`, from `BindingInv`: codes
  belong to their flow's provider, calls past the checks passed them, the token a
  call holds is its code's, and what is decided follows what that code was signed
  with (`DecidedAsSigned`). The claim engine stays abstract.
* `RateLimitProofs`: `BucketsAreBounded`, `RateIsEnforced`, `RetryAfterIsHonest`,
  `RetentionIsBounded`, from `LimiterInv`. Its core, `WindowOf`, is a potential:
  what was spent since the mark plus what the bucket holds is at most what was
  refilled since a lag before the mark; a swept bucket may be forgotten because
  its potential was already covered by the refill.
* `LifecycleProofs`: `TypeCorrect`; `ConfigsStayValid`, from `ValidInv` (whatever a
  Configure carries, and a PATCH carries once it is stored, is valid);
  `PoolsAreNotLeaked` and `LiveStoreIsOpen`, from `PoolInv` (the pool that poolPtr
  holds belongs to a Configure that returned; of serial Configures, the one that
  has published its store is the live one until its pool is swapped in).
* `ServiceProofs`: `LoginServiceIsKept`, the refinement of `LoginService`, step by
  step: `InitAuthorize` begins a login, `IdPAuthorize` signs a code, `FinishLogin`
  may grant it, every other step, a reconfiguration or a restart included, is a
  stutter. Granting once needs more than `BindingInv`: no two calls hold one code
  from the token endpoint's answer on (`OneHolder`, since a held code is
  redeemed). `SimulatorIsRight`: the simulator's chain of functions and
  `FinishLogin`'s agree on the same claims, for any rules; the one invariant it
  needs is that a verified token has a subject (`SubjectKnown`), since the simulator
  refuses an empty one at the end and the login when it verifies the token.
* `CoherenceProofs`: `LoginsAreGuarded`, from `PatchHasStore` (a PATCH past
  `LoadStore` has found a store, and none is taken back). `PublishedInOrder`, the
  refinement of `Pointers` under `LoginView` and `ApplyingView`; it needs
  `BuiltFromNext`, that the provider an operation holds across its stores was
  built from the configuration it stores. `SettledAgrees`, from `CoherenceInv`:
  two operations in flight have been seen to overlap (`EveryOverlapSeen`); one
  that has overlapped none has, at each of its labels, established what it has
  written so far (`SoloEstablishes`); and what it leaves when it returns stays
  until another one changes something (`SettledStays`).
* `DiagnosticsProofs`: `TypeCorrect`; `OnlyAllowedAddresses`, from `ReachInv` (a
  request has reached nothing before its first fetch, and its client admits
  loopback only if the issuer it read is localhost, which stays true while
  pointers change under it); `OutsidersAreFree`.
* `AdminPageProofs`: `TypeCorrect`, which needs `FillInv` (the first summary
  differs from the empty cache, so a form is filled before it can be saved);
  `BoundNamesAreStored`, from `PutStored` (a tab at its PUT has seen its name
  stored, and what it submitted is kept); `SavedAgrees`, from `OneSaves` (without
  overlap, the plugin still holds that name at the PUT); `SavedSecretsAreNotResent`,
  from `SecretInv` (a tab whose form or Save holds a secret that was stored from it
  is at the PUT of that Save, or was told that its last Save failed).

Every inductive invariant was checked by TLC on the instance of its run before it
was proved.

Assumptions on constants, which TLC evaluates in the passing runs:

* `ConstantsAssumption`, `LimiterAssumption`, `LifecycleAssumption`.
* `NoneAssumption` of `AuthFlow`: the absent value is neither a client nor a
  signed login.
* `DiagnosticsAssumption`: also names the address ranges that `isBlockedIP` knows
  and the fields of a request.
* `PageAssumption`: also says that trimming a trimmed name changes nothing, as it
  is with `strings.TrimSpace`, and that a missing summary is no summary.

`PublishedInOrder` and `SettledAgrees` have a hypothesis of their own,
`NilIsNoValue`: a nil pointer is neither a configuration nor a provider, as in Go.
It is no `ASSUME` because `IsConfig` asks for the domain of its argument, which
TLC cannot evaluate for a model value. Every `None` that is no record satisfies it.

Only model-checked: the liveness properties `EveryRequestAnswered` and
`HostCatchesUp`, which are outside what the prover supports, and the violations
above. Every other property of a passing run is stated by a theorem. What the
recursive functions of `Claims` compute for every input stays abstract in the proofs.

## Plan

1. Done: `Claims`, `AuthFlow`, `RateLimit`, `Config`, `Lifecycle`, with proofs.
2. Done: `Pointers` and `LoginService` with their refinements; `Simulator`,
   `Diagnostics`, `AdminPage`; the first liveness properties.
3. Done: theorems for the invariants, the action properties and the two
   refinements of the passing runs.
4. Next: lemmas about the operators of `Config` and `Claims` (what the merge of a
   PATCH body keeps, what the gates let through), and the safety half of the two
   liveness arguments (a request that is in flight has a step to take; a tab
   shows an error unless its last Save reached the host).

## Not modelled

The embedded assets, the manifest, the test provider and the admin page's
presentation (layout, theme, clipboard, the token's way from the URL into the
session) hold no protocol state. Signature, audience, issuer and expiry checks
belong to go-oidc. Config mutation records of the audit log are written after the
fact and read by nothing. Floating-point rounding in the limiter and string
matching (regular expressions, URL parsing) are parameters. That Configure returns
is not stated: its database calls have no deadline, and the code promises nothing
there.
