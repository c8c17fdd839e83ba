----------------------------- MODULE Lifecycle ------------------------------
(***************************************************************************)
(* How a configuration becomes the live one: the Configure RPC with its    *)
(* callback in cmd/silo-plugin-oidc-login, the PATCH of internal/admin,    *)
(* the app_config row of internal/store, and the pointers they publish.    *)
(*                                                                         *)
(* Each Configure and each PATCH is a process: both run on goroutines of   *)
(* the plugin's gRPC server and nothing in the code serialises them. Every *)
(* database statement, the discovery and every pointer store is a step.    *)
(* All Configures name the same database.                                  *)
(***************************************************************************)
EXTENDS Config

CONSTANTS
    Configures,  \* Configure RPCs; a Configure also names the pool it opens
    Patches,     \* PATCH /api/v1/admin/config requests
    Entries,     \* config entries the host may send, as functions on keys
    Bodies,      \* PATCH bodies, as functions on keys
    None         \* a nil pointer, no row data, nothing yet

Ops == Configures \cup Patches

ASSUME LifecycleAssumption ==
    /\ Configures \cap Patches = {}
    /\ None \notin Configures
    /\ ValidateConfig(DefaultConfig)

VARIABLES
    stored,           \* data of the app_config row; None for '{}' or no row
    cfgPtr, provPtr,  \* the live configuration and provider
    lastProviderErr,  \* whether the last discovery is recorded as failed
    storePtr,         \* the pool of the live store
    poolPtr,          \* the pool the next Configure will close
    open,             \* the pools that are open
    handler,          \* whether httproutes has a handler
    pc,               \* where each operation is
    next,             \* the configuration it is about to store or to publish
    built,            \* the provider it discovered
    st,               \* the store it loaded
    result,           \* "ok" or "refused" once it has returned
    overlap,          \* history: the pairs of operations that overlapped
    settled           \* history: the last change was made by one that did not

live == <<cfgPtr, provPtr, lastProviderErr, storePtr, poolPtr, handler>>
locals == <<next, built, st>>
history == <<overlap, settled>>
vars == <<stored, live, open, pc, locals, result, history>>

InFlight == {o \in Ops : pc[o] \notin {"idle", "done"}}

Alone(o) == \A pair \in overlap : o \notin pair

-----------------------------------------------------------------------------

Init ==
    /\ stored = None
    /\ cfgPtr = None /\ provPtr = None
    /\ lastProviderErr = FALSE
    /\ storePtr = None /\ poolPtr = None
    /\ open = {}
    /\ handler = FALSE
    /\ pc = [o \in Ops |-> "idle"]
    /\ next = [o \in Ops |-> DefaultConfig]
    /\ built = [o \in Ops |-> None]
    /\ st = [o \in Ops |-> None]
    /\ result = [o \in Ops |-> None]
    /\ overlap = {}
    /\ settled = FALSE

Goto(o, label) == pc' = [pc EXCEPT ![o] = label]

Start(o, label) ==
    /\ pc[o] = "idle"
    /\ Goto(o, label)
    /\ overlap' = overlap \cup {{o, q} : q \in InFlight}

Continue(o, label) == Goto(o, label) /\ UNCHANGED <<result, settled>>

\* The operation returns, and its variables with it.
Return(o, r) ==
    /\ Goto(o, "done")
    /\ result' = [result EXCEPT ![o] = r]
    /\ next' = [next EXCEPT ![o] = DefaultConfig]
    /\ built' = [built EXCEPT ![o] = None]
    /\ st' = [st EXCEPT ![o] = None]

\* changed says whether a refused operation has left something behind.
Refuse(o, changed) == Return(o, "refused") /\ settled' = (settled /\ ~changed)

Succeed(o) == Return(o, "ok") /\ settled' = Alone(o)

\* The row decoded over the defaults. Encoding writes every field, so a
\* configuration that was stored is read back as it was.
GetConfig == IF stored = None THEN DefaultConfig ELSE stored

-----------------------------------------------------------------------------
(* Configure, up to applyConfig. Whatever fails here closes the new pool   *)
(* and leaves the live plugin as it was.                                   *)

\* The entries do not load, or database_url is missing or does not parse.
ConfigureRefused(c) ==
    /\ pc[c] = "idle"
    /\ Refuse(c, FALSE)
    /\ UNCHANGED <<stored, live, open, overlap>>

Configure(c, entries) ==
    /\ ValidateConfig(LoadConfig(entries))
    /\ Start(c, "migrate")
    /\ next' = [next EXCEPT ![c] = LoadConfig(entries)]
    /\ open' = open \cup {c}
    /\ UNCHANGED <<stored, live, built, st, result, settled>>

\* Mutant: the callback returns without closing its pool.
AbandonLeaky(c, changed) == Refuse(c, changed) /\ UNCHANGED open

Abandon(c, changed) == Refuse(c, changed) /\ open' = open \ {c}

\* CREATE TABLE IF NOT EXISTS and an INSERT that keeps an existing row.
Migrate(c) ==
    /\ pc[c] = "migrate"
    /\ \/ Continue(c, "import") /\ UNCHANGED <<open, locals>>
       \/ Abandon(c, FALSE)
    /\ UNCHANGED <<stored, live, overlap>>

\* The configuration to apply is what the row holds.
Adopt(c) ==
    /\ next' = [next EXCEPT ![c] = GetConfig]
    /\ Continue(c, "discover")
    /\ UNCHANGED <<open, built, st>>

\* The host's entries are imported only over a row that still is the default.
ImportDue(c) == GetConfig = DefaultConfig /\ next[c] # DefaultConfig

ImportLegacyConfig(c) ==
    /\ pc[c] = "import"
    /\ \/ ImportDue(c) /\ Continue(c, "import-write") /\ UNCHANGED <<open, locals>>
       \/ ~ImportDue(c) /\ Adopt(c)
       \/ Abandon(c, FALSE)
    /\ UNCHANGED <<stored, live, overlap>>

\* UpdateConfig of the import: it is committed, perhaps with its answer lost,
\* or it fails.
ImportWrite(c) ==
    /\ pc[c] = "import-write"
    /\ \/ /\ stored' = next[c]
          /\ Continue(c, "import-read")
          /\ UNCHANGED <<open, locals>>
       \/ stored' = next[c] /\ Abandon(c, TRUE)
       \/ Abandon(c, FALSE) /\ UNCHANGED stored
    /\ UNCHANGED <<live, overlap>>

ImportRead(c) ==
    /\ pc[c] = "import-read"
    /\ Adopt(c) \/ Abandon(c, TRUE)
    /\ UNCHANGED <<stored, live, overlap>>

-----------------------------------------------------------------------------
(* PATCH /api/v1/admin/config, up to applyConfig. *)

\* No handler yet, the requester is no admin, or the body is not JSON.
PatchRefused(p) ==
    /\ pc[p] = "idle"
    /\ Refuse(p, FALSE)
    /\ UNCHANGED <<stored, live, open, overlap>>

HandleUpdateConfig(p, body) ==
    /\ handler
    /\ Start(p, "load-store")
    /\ next' = [next EXCEPT ![p] = Patched(cfgPtr, body)]
    /\ UNCHANGED <<stored, live, open, built, st, result, settled>>

\* UpdateConfigFn loads the store.
LoadStore(p) ==
    /\ pc[p] = "load-store"
    /\ IF storePtr = None
       THEN Refuse(p, FALSE)
       ELSE /\ st' = [st EXCEPT ![p] = storePtr]
            /\ Continue(p, "write")
            /\ UNCHANGED <<next, built>>
    /\ UNCHANGED <<stored, live, open, overlap>>

\* Mutant: what is stored is not validated.
UpsertUnchecked(p) == st[p] \in open /\ stored' = next[p]

\* The upsert is reached by a valid configuration, and refused by a pool that
\* was closed in the meantime.
Upsert(p) == ValidateConfig(next[p]) /\ st[p] \in open /\ stored' = next[p]

UpdateConfig(p) ==
    /\ pc[p] = "write"
    /\ \/ Upsert(p) /\ Continue(p, "discover") /\ UNCHANGED locals
       \/ Upsert(p) /\ Refuse(p, TRUE)
       \/ Refuse(p, FALSE) /\ UNCHANGED stored
    /\ UNCHANGED <<live, open, overlap>>

-----------------------------------------------------------------------------
(* applyConfig, of both *)

\* Discovery, bounded by a timeout, gives a provider or an error that is kept
\* for the admin page. A configuration without a provider clears the error.
Discover(o) ==
    /\ pc[o] = "discover"
    /\ \/ /\ ProviderConfigured(next[o])
          /\ built' = [built EXCEPT ![o] = ProviderOf(next[o])]
          /\ lastProviderErr' = FALSE
       \/ /\ built' = [built EXCEPT ![o] = None]
          /\ lastProviderErr' = ProviderConfigured(next[o])
    /\ Goto(o, "store-config")
    /\ UNCHANGED <<stored, cfgPtr, provPtr, storePtr, poolPtr, handler, open, next, st,
                   result, history>>

\* Mutant: the provider is stored with the configuration, before its turn.
StoreConfigAndProvider(o) ==
    /\ pc[o] = "store-config"
    /\ cfgPtr' = next[o]
    /\ provPtr' = built[o]
    /\ Goto(o, "store-provider")
    /\ UNCHANGED <<stored, lastProviderErr, storePtr, poolPtr, handler, open, locals,
                   result, history>>

StoreConfig(o) ==
    /\ pc[o] = "store-config"
    /\ cfgPtr' = next[o]
    /\ Goto(o, "store-provider")
    /\ UNCHANGED <<stored, provPtr, lastProviderErr, storePtr, poolPtr, handler, open, locals,
                   result, history>>

\* A PATCH is audited and answered after this store, a Configure goes on.
Applied(o, label) ==
    IF o \in Patches
    THEN Succeed(o)
    ELSE Continue(o, label) /\ UNCHANGED locals

\* Mutant: a failed discovery leaves the provider before it in place.
StoreProviderUnlessNil(o) ==
    /\ pc[o] = "store-provider"
    /\ provPtr' = IF built[o] = None THEN provPtr ELSE built[o]
    /\ Applied(o, "store-store")
    /\ UNCHANGED <<stored, cfgPtr, lastProviderErr, storePtr, poolPtr, handler, open, overlap>>

\* Mutant: the callback goes on without publishing its store.
StoreProviderOnly(o) ==
    /\ pc[o] = "store-provider"
    /\ provPtr' = built[o]
    /\ Applied(o, IF storePtr = None THEN "store-store" ELSE "swap-pool")
    /\ UNCHANGED <<stored, cfgPtr, lastProviderErr, storePtr, poolPtr, handler, open, overlap>>

StoreProvider(o) ==
    /\ pc[o] = "store-provider"
    /\ provPtr' = built[o]
    /\ Applied(o, "store-store")
    /\ UNCHANGED <<stored, cfgPtr, lastProviderErr, storePtr, poolPtr, handler, open, overlap>>

-----------------------------------------------------------------------------
(* Configure, after applyConfig *)

\* Mutant: the store is published last, with the pool.
StoreStoreLater(c) ==
    /\ pc[c] = "store-store"
    /\ Goto(c, "set-handler")
    /\ UNCHANGED <<stored, live, open, locals, result, history>>

StoreStore(c) ==
    /\ pc[c] = "store-store"
    /\ storePtr' = c
    /\ Goto(c, "set-handler")
    /\ UNCHANGED <<stored, cfgPtr, provPtr, lastProviderErr, poolPtr, handler, open, locals,
                   result, history>>

SetHandler(c) ==
    /\ pc[c] = "set-handler"
    /\ handler' = TRUE
    /\ Goto(c, "swap-pool")
    /\ UNCHANGED <<stored, cfgPtr, provPtr, lastProviderErr, storePtr, poolPtr, open, locals,
                   result, history>>

\* The pool of the Configure before is closed, and Configure returns.
SwapPool(c) ==
    /\ pc[c] = "swap-pool"
    /\ poolPtr' = c
    /\ open' = open \ {poolPtr}
    /\ Succeed(c)
    /\ UNCHANGED <<stored, cfgPtr, provPtr, lastProviderErr, storePtr, handler, overlap>>

-----------------------------------------------------------------------------

\* The process dies. Only the row survives.
Crash ==
    /\ cfgPtr' = None /\ provPtr' = None
    /\ lastProviderErr' = FALSE
    /\ storePtr' = None /\ poolPtr' = None
    /\ open' = {}
    /\ handler' = FALSE
    /\ pc' = [o \in Ops |-> IF pc[o] = "idle" THEN "idle" ELSE "done"]
    /\ next' = [o \in Ops |-> DefaultConfig]
    /\ built' = [o \in Ops |-> None]
    /\ st' = [o \in Ops |-> None]
    /\ settled' = FALSE
    /\ UNCHANGED <<stored, result, overlap>>

ConfigureStep(c) ==
    \/ ConfigureRefused(c)
    \/ \E entries \in Entries : Configure(c, entries)
    \/ Migrate(c)
    \/ ImportLegacyConfig(c)
    \/ ImportWrite(c)
    \/ ImportRead(c)
    \/ StoreStore(c)
    \/ SetHandler(c)
    \/ SwapPool(c)

PatchStep(p) ==
    \/ PatchRefused(p)
    \/ \E body \in Bodies : HandleUpdateConfig(p, body)
    \/ LoadStore(p)
    \/ UpdateConfig(p)

ApplyStep(o) ==
    \/ Discover(o)
    \/ StoreConfig(o)
    \/ StoreProvider(o)

Next ==
    \/ \E c \in Configures : ConfigureStep(c)
    \/ \E p \in Patches : PatchStep(p)
    \/ \E o \in Ops : ApplyStep(o)
    \/ Crash

Spec == Init /\ [][Next]_vars

-----------------------------------------------------------------------------
(* Correctness *)

ConfigureLabels ==
    {"idle", "migrate", "import", "import-write", "import-read", "discover", "store-config",
     "store-provider", "store-store", "set-handler", "swap-pool", "done"}

PatchLabels ==
    {"idle", "load-store", "write", "discover", "store-config", "store-provider", "done"}

IsConfig(cfg) == DOMAIN cfg = ConfigFields

IsProvider(prov) == DOMAIN prov = ProviderFields \cup {"scopes"}

\* Type invariant of the row, the pointers and the operations.
TypeOK ==
    /\ stored # None => IsConfig(stored)
    /\ cfgPtr # None => IsConfig(cfgPtr)
    /\ provPtr # None => IsProvider(provPtr)
    /\ lastProviderErr \in BOOLEAN
    /\ storePtr \in Configures \cup {None}
    /\ poolPtr \in Configures \cup {None}
    /\ open \subseteq Configures
    /\ handler \in BOOLEAN
    /\ pc \in [Ops -> ConfigureLabels \cup PatchLabels]
    /\ \A c \in Configures : pc[c] \in ConfigureLabels
    /\ \A p \in Patches : pc[p] \in PatchLabels
    /\ DOMAIN next = Ops
    /\ \A o \in Ops : IsConfig(next[o])
    /\ DOMAIN built = Ops
    /\ \A o \in Ops : built[o] # None => IsProvider(built[o])
    /\ st \in [Ops -> Configures \cup {None}]
    /\ result \in [Ops -> {None, "ok", "refused"}]
    /\ overlap \subseteq SUBSET Ops
    /\ settled \in BOOLEAN

\* Whatever operations interleave, fail half way or are cut off by a crash, the
\* live and the stored configuration pass ValidateConfig: in particular, email
\* linking is never live without the verified-email gate.
ConfigsAreValid ==
    /\ cfgPtr # None => ValidateConfig(cfgPtr)
    /\ stored # None => ValidateConfig(stored)

\* A pool is open exactly while a Configure works on it or poolPtr holds it: no
\* path through the callback leaks one, however many Configures overlap.
NoPoolLeak == open = (InFlight \cap Configures) \cup ({poolPtr} \ {None})

Serial == \A pair \in overlap : ~(pair \subseteq Configures)

\* While Configures do not overlap each other, the pool behind the live store is
\* open, at every point of a Configure and whatever PATCHes run: a login never
\* meets a closed pool through storePtr.
StorePoolIsOpen == Serial /\ storePtr # None => storePtr \in open

\* Once every operation has returned and the last one that changed something ran
\* alone and succeeded, everything agrees: the live configuration is the stored
\* one, the provider is the one it describes or is absent, an error is shown
\* exactly when its discovery failed, and admin is served from the one open pool.
SettledIsCoherent ==
    InFlight = {} /\ settled =>
        /\ cfgPtr = GetConfig
        /\ provPtr \in {None, ProviderOf(cfgPtr)}
        /\ lastProviderErr <=> ProviderConfigured(cfgPtr) /\ provPtr = None
        /\ handler
        /\ open = {storePtr}

\* A login can run with a provider and without a store, and so without the
\* one-time guard, only while a Configure stands between its stores of the two
\* pointers: never once Configures have returned, and never because of a PATCH.
UnguardedOnlyWhilePublishing ==
    provPtr # None /\ storePtr = None => \E c \in Configures : pc[c] = "store-store"

\* The live configuration as a login sees it; a nil pointer reads as Config{}.
LoginView ==
    IF cfgPtr = None
    THEN [provider |-> None, email_verified_required |-> FALSE, link_by_email |-> FALSE,
          claim_filters |-> <<>>, claim_role_mapping |-> <<>>]
    ELSE [provider |-> IF ProviderConfigured(cfgPtr) THEN ProviderOf(cfgPtr) ELSE None,
          email_verified_required |-> cfgPtr.email_verified_required,
          link_by_email |-> cfgPtr.link_by_email,
          claim_filters |-> cfgPtr.claim_filters,
          claim_role_mapping |-> cfgPtr.claim_role_mapping]

\* Where each operation is between its stores.
ApplyingView ==
    [o \in Ops |->
        [step |-> IF pc[o] = "store-provider" THEN "provider"
                  ELSE IF pc[o] = "store-store" THEN "store"
                  ELSE "idle",
         prov |-> IF pc[o] = "store-provider" THEN built[o] ELSE None]]

View == INSTANCE Pointers WITH Appliers <- Ops, NoProvider <- None, NoStore <- None,
                               cfgPtr <- LoginView, applying <- ApplyingView

\* What logins and admin requests rely on about the pointers: every step of a
\* Configure, of a PATCH and of a crash is, on the pointers, a step of module
\* Pointers. A provider is stored only after the configuration it was built from,
\* by the operation that built it, and a PATCH never applies without a store.
ImplementsPointers == View!PointersSpec

-----------------------------------------------------------------------------
(* Why they hold: the inductive invariants behind the proofs. *)

\* A Configure always carries a valid configuration, a PATCH once it is stored.
CarriedIsValid ==
    /\ \A c \in Configures : ValidateConfig(next[c])
    /\ \A p \in Patches : pc[p] \in {"discover", "store-config", "store-provider"} =>
           ValidateConfig(next[p])

ValidInv == ConfigsAreValid /\ CarriedIsValid

\* poolPtr holds the pool of a Configure that has returned.
PoolOwnerReturned == poolPtr # None => pc[poolPtr] = "done"

\* Configures that are in flight together have been seen to overlap.
OverlapSeen ==
    \A c, d \in InFlight \cap Configures : c # d => {c, d} \in overlap

\* While Configures are serial, one that has published its store is the live
\* one, and the live store is that one's or the one whose pool poolPtr holds.
Published(c) == pc[c] \in {"set-handler", "swap-pool"}

StoreOwner ==
    Serial =>
        /\ \A c \in Configures : Published(c) => storePtr = c
        /\ storePtr # None => storePtr = poolPtr \/ Published(storePtr)

PoolInv == NoPoolLeak /\ PoolOwnerReturned /\ OverlapSeen /\ StoreOwner

-----------------------------------------------------------------------------
(* What a comment of the code says, and the code does not do. *)

\* What Admin.tsx says of Save: it stores the settings and rebuilds the provider.
\* Once all operations have succeeded, what is live is what is stored.
SavedIsLive ==
    /\ InFlight = {}
    /\ \A o \in Ops : result[o] \in {None, "ok"}
    /\ cfgPtr # None
    => cfgPtr = GetConfig

=============================================================================
