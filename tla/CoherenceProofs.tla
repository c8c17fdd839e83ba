--------------------------- MODULE CoherenceProofs ---------------------------
(***************************************************************************)
(* The pointers of Lifecycle, for any number of Configures and PATCHes,    *)
(* any entries and bodies: in which order they are published, when a login *)
(* can run unguarded, and what agrees once everything has returned.        *)
(***************************************************************************)
EXTENDS LifecycleProofs

\* The nil pointer is neither a configuration nor a provider, as in Go. A
\* hypothesis, since TLC cannot ask a model value for its domain.
NilIsNoValue == ~IsConfig(None) /\ ~IsProvider(None)

\* How far an operation has come, by the labels from there on.
Wired == {"swap-pool"}
StorePublished == {"set-handler"} \cup Wired
ProviderPublished == {"store-store"} \cup StorePublished
ConfigPublished == {"store-provider"} \cup ProviderPublished
Discovered == {"store-config"} \cup ConfigPublished
Adopted == {"discover"} \cup Discovered

-----------------------------------------------------------------------------
(* The inductive invariants *)

\* A PATCH that has got past LoadStore has found a store, and none is taken back
\* while it runs.
PatchHasStore ==
    \A p \in Patches : pc[p] \in {"write"} \cup Adopted => storePtr # None

GuardInv == PatchHasStore /\ UnguardedOnlyWhilePublishing

\* The provider an operation holds was built from the configuration it holds.
BuiltFromNext ==
    \A o \in Ops : pc[o] \in Discovered /\ built[o] # None =>
        ProviderConfigured(next[o]) /\ built[o] = ProviderOf(next[o])

\* Operations that are in flight together have been seen to overlap.
EveryOverlapSeen ==
    \A o, q \in InFlight : o # q => {o, q} \in overlap

\* What an operation has established, if no other has run beside it.
Established(o) ==
    /\ pc[o] \in Adopted => GetConfig = next[o]
    /\ pc[o] \in Discovered =>
           (lastProviderErr <=> ProviderConfigured(next[o]) /\ built[o] = None)
    /\ pc[o] \in ConfigPublished => cfgPtr = next[o]
    /\ pc[o] \in ProviderPublished => provPtr = built[o]
    /\ pc[o] \in StorePublished => storePtr = o
    /\ pc[o] \in Wired => handler
    /\ o \in Patches =>
           /\ handler
           /\ pc[o] = "write" => st[o] = storePtr
           /\ pc[o] \in Adopted => storePtr # None /\ storePtr = poolPtr

SoloEstablishes == \A o \in InFlight : Alone(o) => Established(o)

\* What agrees between the row and the pointers.
Coherent ==
    /\ cfgPtr = GetConfig
    /\ provPtr \in {None, ProviderOf(cfgPtr)}
    /\ lastProviderErr <=> ProviderConfigured(cfgPtr) /\ provPtr = None
    /\ handler
    /\ storePtr # None /\ storePtr = poolPtr

\* An operation that has changed something, and can no longer be refused as one
\* that has not.
Touching(o) == pc[o] \in {"import-read"} \cup Adopted

\* What one has settled stays until another one changes something.
SettledStays == settled /\ (\A o \in Ops : ~Touching(o)) => Coherent

CoherenceInv ==
    BuiltFromNext /\ EveryOverlapSeen /\ SoloEstablishes /\ SettledStays

-----------------------------------------------------------------------------
(* Logins without a store *)

\* A step that leaves the provider and the store alone keeps the guard, unless a
\* Configure leaves "store-store" or a PATCH gets past LoadStore without a store.
LEMMA StepKeepsGuard ==
  ASSUME TypeOK, GuardInv, NEW o \in Ops, NEW label, Goto(o, label),
         UNCHANGED <<provPtr, storePtr>>, pc[o] # "store-store",
         o \in Patches /\ label \in {"write"} \cup Adopted => storePtr # None
  PROVE  GuardInv'
<1>1. \A q \in Ops : pc'[q] = IF q = o THEN label ELSE pc[q]
  BY DEF TypeOK, Goto
<1>2. PatchHasStore'
  BY <1>1 DEF GuardInv, PatchHasStore, Ops
<1>3. UnguardedOnlyWhilePublishing'
  BY <1>1 DEF GuardInv, UnguardedOnlyWhilePublishing, Ops
<1> QED
  BY <1>2, <1>3 DEF GuardInv

LEMMA GuardInduction == TypeOK /\ GuardInv /\ [Next]_vars => GuardInv'
<1> SUFFICES ASSUME TypeOK, GuardInv, [Next]_vars PROVE GuardInv'
  OBVIOUS
<1> USE LifecycleAssumption DEF live, locals, history, Ops
<1>1. ASSUME NEW c \in Configures, ConfigureStep(c) PROVE GuardInv'
  <2>0. c \in Ops /\ c \notin Patches
    OBVIOUS
  <2>1. CASE StoreStore(c)
    <3>1. storePtr' = c /\ c # None
      BY <2>1 DEF StoreStore
    <3> QED
      BY <3>1 DEF GuardInv, PatchHasStore, UnguardedOnlyWhilePublishing
  <2>2. CASE ConfigureRefused(c)
    BY <2>0, <2>2, StepKeepsGuard DEF ConfigureRefused, Refuse, Return
  <2>3. ASSUME NEW entries \in Entries, Configure(c, entries) PROVE GuardInv'
    BY <2>0, <2>3, StepKeepsGuard DEF Configure, Start
  <2>4. CASE Migrate(c)
    BY <2>0, <2>4, StepKeepsGuard DEF Migrate, Continue, Abandon, Refuse, Return
  <2>5. CASE ImportLegacyConfig(c)
    BY <2>0, <2>5, StepKeepsGuard
       DEF ImportLegacyConfig, Adopt, Continue, Abandon, Refuse, Return
  <2>6. CASE ImportWrite(c)
    BY <2>0, <2>6, StepKeepsGuard DEF ImportWrite, Continue, Abandon, Refuse, Return
  <2>7. CASE ImportRead(c)
    BY <2>0, <2>7, StepKeepsGuard DEF ImportRead, Adopt, Continue, Abandon, Refuse, Return
  <2>8. CASE SetHandler(c)
    BY <2>0, <2>8, StepKeepsGuard DEF SetHandler
  <2>9. CASE SwapPool(c)
    BY <2>0, <2>9, StepKeepsGuard DEF SwapPool, Succeed, Return
  <2> QED
    BY <1>1, <2>1, <2>2, <2>3, <2>4, <2>5, <2>6, <2>7, <2>8, <2>9 DEF ConfigureStep
<1>2. ASSUME NEW p \in Patches, PatchStep(p) PROVE GuardInv'
  <2>0. p \in Ops /\ "done" \notin {"write"} \cup Adopted
    BY DEF Adopted, Discovered, ConfigPublished, ProviderPublished, StorePublished, Wired
  <2>1. CASE PatchRefused(p)
    BY <2>0, <2>1, StepKeepsGuard DEF PatchRefused, Refuse, Return
  <2>2. ASSUME NEW body \in Bodies, HandleUpdateConfig(p, body) PROVE GuardInv'
    <3>1. "load-store" \notin {"write"} \cup Adopted
      BY DEF Adopted, Discovered, ConfigPublished, ProviderPublished, StorePublished, Wired
    <3> QED
      BY <2>0, <2>2, <3>1, StepKeepsGuard DEF HandleUpdateConfig, Start
  <2>3. CASE LoadStore(p)
    BY <2>0, <2>3, StepKeepsGuard DEF LoadStore, Continue, Refuse, Return
  <2>4. CASE UpdateConfig(p)
    <3>1. storePtr # None
      BY <2>4 DEF UpdateConfig, GuardInv, PatchHasStore
    <3> QED
      BY <2>0, <2>4, <3>1, StepKeepsGuard DEF UpdateConfig, Continue, Refuse, Return
  <2> QED
    BY <1>2, <2>1, <2>2, <2>3, <2>4 DEF PatchStep
<1>3. ASSUME NEW o \in Ops, ApplyStep(o) PROVE GuardInv'
  <2>1. pc[o] \in Adopted /\ o \in Patches => storePtr # None
    BY DEF GuardInv, PatchHasStore
  <2>2. {"discover", "store-config", "store-provider"} \subseteq Adopted
    BY DEF Adopted, Discovered, ConfigPublished
  <2>3. CASE Discover(o)
    BY <2>1, <2>2, <2>3, StepKeepsGuard DEF Discover
  <2>4. CASE StoreConfig(o)
    BY <2>1, <2>2, <2>4, StepKeepsGuard DEF StoreConfig
  <2>5. CASE StoreProvider(o)
    <3>1. /\ pc[o] = "store-provider"
          /\ o \in Patches => storePtr # None
          /\ \A q \in Ops : q # o => pc'[q] = pc[q]
          /\ o \notin Patches => pc'[o] = "store-store"
          /\ o \in Patches => pc'[o] = "done"
          /\ UNCHANGED storePtr
      BY <2>1, <2>2, <2>5
         DEF StoreProvider, Applied, Succeed, Return, Continue, Goto, TypeOK
    <3>2. PatchHasStore'
      BY <3>1 DEF GuardInv, PatchHasStore
    <3>3. UnguardedOnlyWhilePublishing'
      BY <3>1 DEF UnguardedOnlyWhilePublishing
    <3> QED
      BY <3>2, <3>3 DEF GuardInv
  <2> QED
    BY <1>3, <2>3, <2>4, <2>5 DEF ApplyStep
<1>4. CASE Crash
  <2>1. provPtr' = None /\ \A p \in Patches : pc'[p] \in {"idle", "done"}
    BY <1>4 DEF Crash
  <2> QED
    BY <2>1
       DEF GuardInv, PatchHasStore, UnguardedOnlyWhilePublishing, Adopted, Discovered,
           ConfigPublished, ProviderPublished, StorePublished, Wired
<1>5. CASE UNCHANGED vars
  BY <1>5 DEF vars, GuardInv, PatchHasStore, UnguardedOnlyWhilePublishing
<1> QED
  BY <1>1, <1>2, <1>3, <1>4, <1>5 DEF Next

LEMMA GuardInvariant == Spec => []GuardInv
<1>1. Init => GuardInv
  BY DEF Init, GuardInv, PatchHasStore, UnguardedOnlyWhilePublishing, Ops, Adopted, Discovered,
         ConfigPublished, ProviderPublished, StorePublished, Wired
<1> QED
  BY <1>1, GuardInduction, TypeCorrect, PTL DEF Spec

\* A provider is live without a store only while some Configure stands between
\* its two stores: no PATCH, failure or crash leaves logins unguarded.
THEOREM LoginsAreGuarded == Spec => []UnguardedOnlyWhilePublishing
<1>1. GuardInv => UnguardedOnlyWhilePublishing
  BY DEF GuardInv
<1> QED
  BY <1>1, GuardInvariant, PTL

-----------------------------------------------------------------------------
(* The order of publication *)

\* A step of o leaves the variables of the other operations alone.
Local(o) ==
    \A q \in Ops : q # o =>
        pc'[q] = pc[q] /\ next'[q] = next[q] /\ built'[q] = built[q] /\ st'[q] = st[q]

\* Where an operation goes, and what it then carries, is its own affair.
LEMMA StepIsLocal ==
  ASSUME TypeOK, NEW o \in Ops,
         \/ o \in Configures /\ ConfigureStep(o)
         \/ o \in Patches /\ PatchStep(o)
         \/ ApplyStep(o)
  PROVE  Local(o)
<1> USE DEF TypeOK, Local, Goto, Return, Refuse, Succeed, Continue, Abandon, locals
<1>1. ASSUME o \in Configures, ConfigureStep(o) PROVE Local(o)
  <2>1. CASE ConfigureRefused(o)
    BY <2>1 DEF ConfigureRefused
  <2>2. ASSUME NEW entries \in Entries, Configure(o, entries) PROVE Local(o)
    BY <2>2 DEF Configure, Start
  <2>3. CASE Migrate(o)
    BY <2>3 DEF Migrate
  <2>4. CASE ImportLegacyConfig(o)
    BY <2>4 DEF ImportLegacyConfig, Adopt
  <2>5. CASE ImportWrite(o)
    BY <2>5 DEF ImportWrite
  <2>6. CASE ImportRead(o)
    BY <2>6 DEF ImportRead, Adopt
  <2>7. CASE StoreStore(o)
    BY <2>7 DEF StoreStore
  <2>8. CASE SetHandler(o)
    BY <2>8 DEF SetHandler
  <2>9. CASE SwapPool(o)
    BY <2>9 DEF SwapPool
  <2> QED
    BY <1>1, <2>1, <2>2, <2>3, <2>4, <2>5, <2>6, <2>7, <2>8, <2>9 DEF ConfigureStep
<1>2. ASSUME o \in Patches, PatchStep(o) PROVE Local(o)
  <2>1. CASE PatchRefused(o)
    BY <2>1 DEF PatchRefused
  <2>2. ASSUME NEW body \in Bodies, HandleUpdateConfig(o, body) PROVE Local(o)
    BY <2>2 DEF HandleUpdateConfig, Start
  <2>3. CASE LoadStore(o)
    BY <2>3 DEF LoadStore
  <2>4. CASE UpdateConfig(o)
    BY <2>4 DEF UpdateConfig
  <2> QED
    BY <1>2, <2>1, <2>2, <2>3, <2>4 DEF PatchStep
<1>3. ASSUME ApplyStep(o) PROVE Local(o)
  <2>1. CASE Discover(o)
    BY <2>1 DEF Discover
  <2>2. CASE StoreConfig(o)
    BY <2>2 DEF StoreConfig
  <2>3. CASE StoreProvider(o)
    BY <2>3 DEF StoreProvider, Applied
  <2> QED
    BY <1>3, <2>1, <2>2, <2>3 DEF ApplyStep
<1> QED
  BY <1>1, <1>2, <1>3

\* A step keeps what operations have built apart from what is due to it: that o,
\* once it has discovered, holds a provider of its own configuration.
LEMMA StepKeepsBuilt ==
  ASSUME TypeOK, BuiltFromNext, NEW o \in Ops, Local(o),
         pc'[o] \in Discovered /\ built'[o] # None =>
             ProviderConfigured(next'[o]) /\ built'[o] = ProviderOf(next'[o])
  PROVE  BuiltFromNext'
  BY DEF BuiltFromNext, Local

LEMMA BuiltInduction == TypeOK /\ BuiltFromNext /\ [Next]_vars => BuiltFromNext'
<1> SUFFICES ASSUME TypeOK, BuiltFromNext, [Next]_vars PROVE BuiltFromNext'
  OBVIOUS
<1> USE LifecycleAssumption
    DEF live, locals, history, Ops, Discovered, ConfigPublished, ProviderPublished,
        StorePublished, Wired
<1>1. ASSUME NEW o \in Ops, Local(o), UNCHANGED <<next, built>>,
             pc'[o] \in Discovered => pc[o] \in Discovered
      PROVE BuiltFromNext'
  BY <1>1, StepKeepsBuilt DEF BuiltFromNext
<1>2. ASSUME NEW o \in Ops, Local(o), pc'[o] \notin Discovered PROVE BuiltFromNext'
  BY <1>2, StepKeepsBuilt
<1>3. ASSUME NEW c \in Configures, ConfigureStep(c) PROVE BuiltFromNext'
  <2>0. c \in Ops /\ Local(c)
    BY <1>3, StepIsLocal
  <2>1. CASE pc[c] \notin {"store-store", "set-handler", "swap-pool"}
    <3>1. pc'[c] \in {"done", "migrate", "import", "import-write", "import-read", "discover"}
      BY <1>3, <2>1
         DEF ConfigureStep, ConfigureRefused, Configure, Migrate, ImportLegacyConfig,
             ImportWrite, ImportRead, StoreStore, SetHandler, SwapPool, Adopt, Start,
             Continue, Abandon, Refuse, Return, Goto, TypeOK
    <3> QED
      BY <2>0, <3>1, <1>2
  <2>2. CASE StoreStore(c)
    BY <2>0, <2>2, <1>1 DEF StoreStore
  <2>3. CASE SetHandler(c)
    BY <2>0, <2>3, <1>1 DEF SetHandler
  <2>4. CASE SwapPool(c)
    BY <2>0, <2>4, <1>2 DEF SwapPool, Succeed, Return, Goto, TypeOK
  <2> QED
    BY <1>3, <2>1, <2>2, <2>3, <2>4
       DEF ConfigureStep, ConfigureRefused, Configure, Migrate, ImportLegacyConfig,
           ImportWrite, ImportRead, Start
<1>4. ASSUME NEW p \in Patches, PatchStep(p) PROVE BuiltFromNext'
  <2>1. p \in Ops /\ Local(p)
    BY <1>4, StepIsLocal
  <2>2. pc'[p] \in {"done", "load-store", "write", "discover"}
    BY <1>4
       DEF PatchStep, PatchRefused, HandleUpdateConfig, LoadStore, UpdateConfig, Start,
           Continue, Refuse, Return, Goto, TypeOK
  <2> QED
    BY <2>1, <2>2, <1>2
<1>5. ASSUME NEW o \in Ops, ApplyStep(o) PROVE BuiltFromNext'
  <2>1. Local(o)
    BY <1>5, StepIsLocal
  <2>2. CASE Discover(o)
    BY <2>1, <2>2, StepKeepsBuilt DEF Discover, TypeOK
  <2>3. CASE StoreConfig(o)
    BY <2>1, <2>3, <1>1 DEF StoreConfig
  <2>4. CASE StoreProvider(o) /\ o \in Patches
    BY <2>1, <2>4, <1>2 DEF StoreProvider, Applied, Succeed, Return, Goto, TypeOK
  <2>5. CASE StoreProvider(o) /\ o \notin Patches
    BY <2>1, <2>5, <1>1 DEF StoreProvider, Applied, Continue
  <2> QED
    BY <1>5, <2>2, <2>3, <2>4, <2>5 DEF ApplyStep
<1>6. CASE Crash
  BY <1>6 DEF Crash, BuiltFromNext
<1>7. CASE UNCHANGED vars
  BY <1>7 DEF vars, BuiltFromNext
<1> QED
  BY <1>3, <1>4, <1>5, <1>6, <1>7 DEF Next

LEMMA BuiltInvariant == Spec => []BuiltFromNext
<1>1. Init => BuiltFromNext
  BY DEF Init, BuiltFromNext
<1> QED
  BY <1>1, BuiltInduction, TypeCorrect, PTL DEF Spec

\* Away from the stores of the pointers a step is invisible.
LEMMA QuietStep ==
  ASSUME TypeOK, NEW o \in Ops, Local(o),
         pc[o] \notin {"store-provider", "store-store"},
         pc'[o] \notin {"store-provider", "store-store"},
         UNCHANGED <<cfgPtr, provPtr, storePtr>>
  PROVE  View!PointersNext
<1>1. LoginView' = LoginView
  BY DEF LoginView
<1>2. ApplyingView' = ApplyingView
  BY DEF ApplyingView, Local
<1> QED
  BY <1>1, <1>2 DEF View!PointersNext, View!pointers

\* A step of o is seen as a step of o between its stores.
LEMMA ApplyingStep ==
  ASSUME NEW o \in Ops, Local(o)
  PROVE  ApplyingView' = [ApplyingView EXCEPT ![o] = ApplyingView'[o]]
  BY DEF ApplyingView, Local

\* Every step of a Configure, of a PATCH and of a crash is one that Pointers
\* allows: the configuration first, then its provider, then the store.
LEMMA PointersStep ==
  ASSUME NilIsNoValue, TypeOK, GuardInv, BuiltFromNext, [Next]_vars
  PROVE  [View!PointersNext]_(View!pointers)
<1> USE LifecycleAssumption DEF live, locals, history, Ops
<1>1. ASSUME NEW c \in Configures, ConfigureStep(c) PROVE View!PointersNext
  <2>0. c \in Ops /\ Local(c)
    BY <1>1, StepIsLocal
  <2>1. CASE StoreStore(c)
    <3>1. /\ ApplyingView[c].step = "store"
          /\ ApplyingView'[c] = View!Idle
      BY <2>0, <2>1 DEF StoreStore, ApplyingView, Goto, TypeOK, View!Idle, View!At
    <3>2. ApplyingView' = [ApplyingView EXCEPT ![c] = View!Idle]
      BY <2>0, <3>1, ApplyingStep
    <3>3. storePtr' # None /\ UNCHANGED <<LoginView, provPtr>>
      BY <2>1 DEF StoreStore, LoginView
    <3>4. View!StoreStore(c, storePtr')
      BY <3>1, <3>2, <3>3 DEF View!StoreStore
    <3> QED
      BY <2>0, <3>4 DEF View!PointersNext, View!Apply
  <2>2. CASE ~StoreStore(c)
    <3>1. /\ UNCHANGED <<cfgPtr, provPtr, storePtr>>
          /\ pc[c] \notin {"store-provider", "store-store"}
          /\ pc'[c] \notin {"store-provider", "store-store"}
      BY <1>1, <2>2
         DEF ConfigureStep, ConfigureRefused, Configure, Migrate, ImportLegacyConfig,
             ImportWrite, ImportRead, SetHandler, SwapPool, Adopt, Start,
             Continue, Abandon, Refuse, Succeed, Return, Goto, TypeOK
    <3> QED
      BY <2>0, <3>1, QuietStep
  <2> QED
    BY <2>1, <2>2
<1>2. ASSUME NEW p \in Patches, PatchStep(p) PROVE View!PointersNext
  <2>1. p \in Ops /\ Local(p)
    BY <1>2, StepIsLocal
  <2>2. /\ UNCHANGED <<cfgPtr, provPtr, storePtr>>
        /\ pc[p] \notin {"store-provider", "store-store"}
        /\ pc'[p] \notin {"store-provider", "store-store"}
    BY <1>2
       DEF PatchStep, PatchRefused, HandleUpdateConfig, LoadStore, UpdateConfig, Start,
           Continue, Refuse, Return, Goto, TypeOK
  <2> QED
    BY <2>1, <2>2, QuietStep
<1>3. ASSUME NEW o \in Ops, ApplyStep(o) PROVE View!PointersNext
  <2>0. Local(o)
    BY <1>3, StepIsLocal
  <2>1. CASE Discover(o)
    BY <2>0, <2>1, QuietStep DEF Discover, Goto, TypeOK
  <2>2. CASE StoreConfig(o)
    <3>1. /\ pc[o] = "store-config" /\ pc'[o] = "store-provider"
          /\ cfgPtr' = next[o]
          /\ UNCHANGED <<provPtr, storePtr, built>>
      BY <2>2 DEF StoreConfig, Goto, TypeOK
    <3>2. cfgPtr' # None
      BY <3>1 DEF NilIsNoValue, TypeOK
    <3>3. LoginView'.provider =
            IF ProviderConfigured(next[o]) THEN ProviderOf(next[o]) ELSE None
      BY <3>1, <3>2 DEF LoginView
    <3>4. built[o] \in {LoginView'.provider, None}
      BY <3>1, <3>3 DEF BuiltFromNext, Discovered
    <3>5. /\ ApplyingView[o] = View!Idle
          /\ ApplyingView'[o] = View!At("provider", built[o])
          /\ ApplyingView'[o].prov = built[o]
      BY <3>1 DEF ApplyingView, View!Idle, View!At
    <3>6. ApplyingView' = [ApplyingView EXCEPT ![o] = View!At("provider", built[o])]
      BY <2>0, <3>5, ApplyingStep
    <3>7. View!StoreConfig(o, LoginView', ApplyingView'[o].prov)
      BY <3>1, <3>4, <3>5, <3>6 DEF View!StoreConfig
    <3> QED
      BY <3>7 DEF View!PointersNext, View!Apply
  <2>3. CASE StoreProvider(o)
    <3>1. /\ pc[o] = "store-provider"
          /\ o \in Patches => pc'[o] = "done"
          /\ o \notin Patches => pc'[o] = "store-store"
          /\ provPtr' = built[o]
          /\ UNCHANGED <<cfgPtr, storePtr>>
      BY <2>3 DEF StoreProvider, Applied, Succeed, Return, Continue, Goto, TypeOK
    <3>2. UNCHANGED LoginView
      BY <3>1 DEF LoginView
    <3>3. /\ ApplyingView[o].step = "provider"
          /\ ApplyingView[o].prov = built[o]
          /\ o \in Patches => ApplyingView'[o] = View!Idle
          /\ o \notin Patches => ApplyingView'[o] = View!At("store", None)
      BY <3>1 DEF ApplyingView, View!Idle, View!At
    <3>4. o \in Patches => storePtr # None
      BY <3>1 DEF GuardInv, PatchHasStore, Adopted, Discovered, ConfigPublished
    <3>5. ApplyingView' = [ApplyingView EXCEPT ![o] = ApplyingView'[o]]
      BY <2>0, ApplyingStep
    <3>6. View!StoreProvider(o)
      BY <3>1, <3>2, <3>3, <3>4, <3>5 DEF View!StoreProvider
    <3> QED
      BY <3>6 DEF View!PointersNext, View!Apply
  <2> QED
    BY <1>3, <2>1, <2>2, <2>3 DEF ApplyStep
<1>4. CASE Crash
  <2>1. LoginView' = View!ZeroConfig
    BY <1>4 DEF Crash, LoginView, View!ZeroConfig
  <2>2. ApplyingView' = [o \in Ops |-> View!Idle]
    BY <1>4 DEF Crash, ApplyingView, View!Idle, View!At
  <2>3. View!LosePointers
    BY <1>4, <2>1, <2>2 DEF Crash, View!LosePointers
  <2> QED
    BY <2>3 DEF View!PointersNext
<1>5. CASE UNCHANGED vars
  BY <1>5 DEF vars, View!PointersNext, View!pointers, LoginView, ApplyingView
<1> QED
  BY <1>1, <1>2, <1>3, <1>4, <1>5 DEF Next

\* Lifecycle implements Pointers, the specification that the logins of AuthFlow
\* and the admin requests of Diagnostics run beside.
THEOREM PublishedInOrder == ASSUME NilIsNoValue PROVE Spec => ImplementsPointers
<1>1. Init => View!PointersInit
  BY DEF Init, View!PointersInit, View!ZeroConfig, View!Idle, View!At, LoginView, ApplyingView
<1>2. TypeOK /\ GuardInv /\ BuiltFromNext /\ [Next]_vars
        => [View!PointersNext]_(View!pointers)
  BY PointersStep
<1> QED
  BY <1>1, <1>2, TypeCorrect, GuardInvariant, BuiltInvariant, PTL
     DEF Spec, ImplementsPointers, View!PointersSpec

-----------------------------------------------------------------------------
(* Agreement once everything has returned *)

\* Whatever o does, an operation that still is alone keeps what it established:
\* o was not in flight beside it, and has changed nothing.
LEMMA OthersEstablish ==
  ASSUME TypeOK, EveryOverlapSeen, SoloEstablishes, NEW o \in Ops, Local(o),
         overlap \subseteq overlap',
         \/ o \in InFlight
         \/ \A q \in InFlight : {o, q} \in overlap'
         \/ UNCHANGED <<stored, live>>,
         NEW q \in InFlight', q # o, Alone(q)'
  PROVE  Established(q)'
<1>1. q \in InFlight /\ pc'[q] = pc[q] /\ next'[q] = next[q] /\ built'[q] = built[q]
        /\ st'[q] = st[q]
  BY DEF Local, InFlight
<1>2. {o, q} \notin overlap'
  BY DEF Alone
<1>3. UNCHANGED <<stored, live>>
  BY <1>1, <1>2 DEF EveryOverlapSeen
<1>4. Established(q)
  BY <1>1 DEF SoloEstablishes, Alone
<1> QED
  BY <1>1, <1>3, <1>4 DEF Established, live, GetConfig

\* What a step of o has to show for the invariant.
LEMMA StepKeepsCoherence ==
  ASSUME TypeOK, CoherenceInv, BuiltFromNext', NEW o \in Ops, Local(o),
         overlap \subseteq overlap',
         \/ o \in InFlight
         \/ \A q \in InFlight : {o, q} \in overlap'
         \/ UNCHANGED <<stored, live>> /\ o \notin InFlight',
         o \in InFlight' /\ Alone(o)' => Established(o)',
         settled' /\ ~Touching(o)' /\ (\A q \in Ops : q # o => ~Touching(q)) => Coherent'
  PROVE  CoherenceInv'
<1>1. \A q \in Ops : q # o => (q \in InFlight' <=> q \in InFlight)
  BY DEF Local, InFlight
<1>2. EveryOverlapSeen'
  <2> SUFFICES ASSUME NEW a \in InFlight', NEW b \in InFlight', a # b
               PROVE  {a, b} \in overlap'
    BY DEF EveryOverlapSeen
  <2>0. a \in Ops /\ b \in Ops
    BY DEF InFlight
  <2>1. CASE a # o /\ b # o
    BY <1>1, <2>0, <2>1 DEF CoherenceInv, EveryOverlapSeen
  <2>2. ASSUME NEW q \in InFlight', q # o, o \in InFlight' PROVE {o, q} \in overlap'
    <3>1. q \in InFlight
      BY <1>1, <2>2 DEF InFlight
    <3> QED
      BY <2>2, <3>1 DEF CoherenceInv, EveryOverlapSeen
  <2>3. CASE a = o
    BY <2>2, <2>3
  <2>4. CASE b = o
    <3>1. {a, b} = {o, a}
      BY <2>4
    <3> QED
      BY <2>2, <2>4, <3>1
  <2> QED
    BY <2>1, <2>3, <2>4
<1>3. SoloEstablishes'
  <2> SUFFICES ASSUME NEW q \in InFlight', Alone(q)' PROVE Established(q)'
    BY DEF SoloEstablishes
  <2>1. CASE q # o
    BY <2>1, OthersEstablish DEF CoherenceInv
  <2> QED
    BY <2>1
<1>4. SettledStays'
  BY DEF SettledStays, Touching, Local
<1> QED
  BY <1>2, <1>3, <1>4 DEF CoherenceInv

\* A step of one that has changed nothing, and changes nothing, leaves what was
\* settled.
LEMMA UntouchedStaysCoherent ==
  ASSUME CoherenceInv, NEW o \in Ops, ~Touching(o), settled' => settled,
         UNCHANGED <<stored, live>>
  PROVE  settled' /\ ~Touching(o)' /\ (\A q \in Ops : q # o => ~Touching(q)) => Coherent'
  BY DEF CoherenceInv, SettledStays, Coherent, GetConfig, live

\* A step within the flight of o, whose overlaps are known.
LEMMA FlightKeepsCoherence ==
  ASSUME TypeOK, CoherenceInv, BuiltFromNext', NEW o \in Ops, Local(o),
         o \in InFlight, overlap' = overlap,
         o \in InFlight' /\ Alone(o) /\ Established(o) => Established(o)',
         settled' /\ ~Touching(o)' => \/ Alone(o) /\ (Established(o) => Coherent')
                                      \/ ~Touching(o) /\ settled /\ UNCHANGED <<stored, live>>
  PROVE  CoherenceInv'
<1>1. Alone(o)' <=> Alone(o)
  BY DEF Alone
<1>2. Alone(o) => Established(o)
  BY DEF CoherenceInv, SoloEstablishes
<1>3. settled' /\ ~Touching(o)' /\ (\A q \in Ops : q # o => ~Touching(q)) => Coherent'
  <2>1. CASE ~Touching(o) /\ settled /\ UNCHANGED <<stored, live>>
    BY <2>1, UntouchedStaysCoherent
  <2> QED
    BY <1>2, <2>1
<1> QED
  BY <1>1, <1>2, <1>3, StepKeepsCoherence

\* A refused step ends a flight, and leaves what was settled if it left all else.
LEMMA RefusalKeepsCoherence ==
  ASSUME TypeOK, CoherenceInv, BuiltFromNext', NEW o \in Ops, Local(o),
         o \in InFlight \/ pc[o] = "idle", overlap' = overlap,
         \/ Refuse(o, TRUE) /\ o \in InFlight
         \/ Refuse(o, FALSE) /\ ~Touching(o) /\ UNCHANGED <<stored, live>>
  PROVE  CoherenceInv'
<1>1. pc'[o] = "done" /\ o \notin InFlight'
  BY DEF Refuse, Return, Goto, TypeOK, InFlight
<1>2. CASE Refuse(o, TRUE) /\ o \in InFlight
  BY <1>1, <1>2, FlightKeepsCoherence DEF Refuse
<1>3. CASE Refuse(o, FALSE) /\ ~Touching(o) /\ UNCHANGED <<stored, live>>
  <2>1. settled' => settled
    BY <1>3 DEF Refuse
  <2> QED
    BY <1>1, <1>3, <2>1, StepKeepsCoherence, UntouchedStaysCoherent
<1> QED
  BY <1>2, <1>3

LEMMA CoherenceInduction ==
  ASSUME NilIsNoValue, TypeOK, PoolInv, CoherenceInv, [Next]_vars
  PROVE  CoherenceInv'
<1> USE LifecycleAssumption DEF Ops
<1>0. BuiltFromNext'
  BY BuiltInduction DEF CoherenceInv
<1> DEFINE Flight == {"migrate", "import", "import-write", "import-read", "discover",
                      "store-config", "store-provider", "store-store", "set-handler",
                      "swap-pool", "load-store", "write"}
<1>a. ASSUME NEW o \in Ops, pc[o] \in Flight PROVE o \in InFlight
  BY <1>a DEF InFlight
<1>b. ASSUME NEW o \in Ops, NEW label \in Flight, Goto(o, label)
      PROVE  pc'[o] = label
  BY <1>b DEF Goto, TypeOK
<1> USE DEF Adopted, Discovered, ConfigPublished, ProviderPublished, StorePublished, Wired,
            Touching
<1>1. ASSUME NEW c \in Configures, ConfigureStep(c) PROVE CoherenceInv'
  <2>0. c \in Ops /\ c \notin Patches /\ Local(c)
    BY <1>1, StepIsLocal
  <2>1. CASE ConfigureRefused(c)
    BY <1>0, <2>0, <2>1, RefusalKeepsCoherence DEF ConfigureRefused
  <2>2. ASSUME NEW entries \in Entries, Configure(c, entries) PROVE CoherenceInv'
    <3>1. /\ pc[c] = "idle" /\ pc'[c] = "migrate"
          /\ overlap' = overlap \cup {{c, q} : q \in InFlight}
          /\ UNCHANGED <<stored, live, settled>>
      BY <2>0, <2>2 DEF Configure, Start, Goto, TypeOK
    <3>2. Established(c)'
      BY <2>0, <3>1 DEF Established
    <3> QED
      BY <1>0, <2>0, <3>1, <3>2, StepKeepsCoherence, UntouchedStaysCoherent
  <2>3. ASSUME Abandon(c, TRUE) \/ (Abandon(c, FALSE) /\ ~Touching(c) /\ UNCHANGED stored),
               UNCHANGED <<live, overlap>>, c \in InFlight
        PROVE  CoherenceInv'
    BY <1>0, <2>0, <2>3, RefusalKeepsCoherence DEF Abandon
  <2>4. ASSUME Adopt(c), UNCHANGED <<stored, live, overlap>>, c \in InFlight
        PROVE  CoherenceInv'
    <3>1. pc'[c] = "discover" /\ next'[c] = GetConfig /\ GetConfig' = GetConfig
      BY <2>0, <2>4 DEF Adopt, Continue, Goto, TypeOK, GetConfig
    <3>2. Established(c)'
      BY <2>0, <3>1 DEF Established
    <3> QED
      BY <1>0, <2>0, <2>4, <3>1, <3>2, FlightKeepsCoherence
  <2>5. ASSUME NEW label \in {"import", "import-write"}, Continue(c, label),
               c \in InFlight, ~Touching(c), UNCHANGED <<stored, live, overlap>>
        PROVE  CoherenceInv'
    <3>1. pc'[c] = label /\ settled' = settled
      BY <2>0, <2>5 DEF Continue, Goto, TypeOK
    <3>2. Established(c)'
      BY <2>0, <2>5, <3>1 DEF Established
    <3> QED
      BY <1>0, <2>0, <2>5, <3>1, <3>2, FlightKeepsCoherence
  <2>6. CASE Migrate(c)
    BY <1>a, <2>0, <2>3, <2>5, <2>6 DEF Migrate
  <2>7. CASE ImportLegacyConfig(c)
    BY <1>a, <2>0, <2>3, <2>4, <2>5, <2>7 DEF ImportLegacyConfig
  <2>8. CASE ImportWrite(c)
    <3>1. CASE Continue(c, "import-read")
      <4>1. pc'[c] = "import-read"
        BY <2>0, <3>1 DEF Continue, Goto, TypeOK
      <4>2. Established(c)'
        BY <2>0, <4>1 DEF Established
      <4> QED
        BY <1>0, <1>a, <2>0, <2>8, <4>1, <4>2, FlightKeepsCoherence DEF ImportWrite
    <3> QED
      BY <1>a, <2>0, <2>3, <2>8, <3>1 DEF ImportWrite
  <2>9. CASE ImportRead(c)
    BY <1>a, <2>0, <2>3, <2>4, <2>9 DEF ImportRead
  <2>10. CASE StoreStore(c)
    <3>1. /\ pc[c] = "store-store" /\ pc'[c] = "set-handler"
          /\ storePtr' = c
          /\ UNCHANGED <<stored, cfgPtr, provPtr, lastProviderErr, next, built, overlap>>
      BY <2>0, <2>10 DEF StoreStore, Goto, TypeOK, locals, history
    <3>2. Established(c) => Established(c)'
      BY <2>0, <3>1 DEF Established, GetConfig
    <3> QED
      BY <1>0, <1>a, <2>0, <3>1, <3>2, FlightKeepsCoherence
  <2>11. CASE SetHandler(c)
    <3>1. /\ pc[c] = "set-handler" /\ pc'[c] = "swap-pool"
          /\ handler' = TRUE
          /\ UNCHANGED <<stored, cfgPtr, provPtr, lastProviderErr, storePtr, next, built,
                         overlap>>
      BY <2>0, <2>11 DEF SetHandler, Goto, TypeOK, locals, history
    <3>2. Established(c) => Established(c)'
      BY <2>0, <3>1 DEF Established, GetConfig
    <3> QED
      BY <1>0, <1>a, <2>0, <3>1, <3>2, FlightKeepsCoherence
  <2>12. CASE SwapPool(c)
    <3>1. /\ pc[c] = "swap-pool" /\ pc'[c] = "done"
          /\ poolPtr' = c /\ settled' = Alone(c)
          /\ UNCHANGED <<stored, cfgPtr, provPtr, lastProviderErr, storePtr, handler, overlap>>
      BY <2>0, <2>12 DEF SwapPool, Succeed, Return, Goto, TypeOK
    <3>2. built[c] \in {None, ProviderOf(next[c])}
      BY <2>0, <3>1 DEF CoherenceInv, BuiltFromNext
    <3>3. Established(c) => Coherent'
      BY <2>0, <3>1, <3>2 DEF Established, Coherent, GetConfig
    <3>4. c \notin InFlight'
      BY <3>1 DEF InFlight
    <3> QED
      BY <1>0, <1>a, <2>0, <3>1, <3>3, <3>4, FlightKeepsCoherence
  <2> QED
    BY <1>1, <2>1, <2>2, <2>6, <2>7, <2>8, <2>9, <2>10, <2>11, <2>12 DEF ConfigureStep
<1>2. ASSUME NEW p \in Patches, PatchStep(p) PROVE CoherenceInv'
  <2>0. p \in Ops /\ p \notin Configures /\ Local(p)
    BY <1>2, StepIsLocal
  <2>1. CASE PatchRefused(p)
    BY <1>0, <2>0, <2>1, RefusalKeepsCoherence DEF PatchRefused
  <2>2. ASSUME NEW body \in Bodies, HandleUpdateConfig(p, body) PROVE CoherenceInv'
    <3>1. /\ pc[p] = "idle" /\ pc'[p] = "load-store" /\ handler
          /\ overlap' = overlap \cup {{p, q} : q \in InFlight}
          /\ UNCHANGED <<stored, live, settled>>
      BY <2>0, <2>2 DEF HandleUpdateConfig, Start, Goto, TypeOK
    <3>2. Established(p)'
      BY <2>0, <3>1 DEF Established, live
    <3> QED
      BY <1>0, <2>0, <3>1, <3>2, StepKeepsCoherence, UntouchedStaysCoherent
  <2>3. CASE LoadStore(p)
    <3>1. CASE storePtr = None
      BY <1>0, <1>a, <2>0, <2>3, <3>1, RefusalKeepsCoherence DEF LoadStore
    <3>2. CASE storePtr # None
      <4>1. /\ pc[p] = "load-store" /\ pc'[p] = "write" /\ st'[p] = storePtr
            /\ UNCHANGED <<stored, live, overlap, settled>>
        BY <2>0, <2>3, <3>2 DEF LoadStore, Continue, Goto, TypeOK
      <4>2. Established(p) => Established(p)'
        BY <2>0, <4>1 DEF Established, live
      <4> QED
        BY <1>0, <1>a, <2>0, <4>1, <4>2, FlightKeepsCoherence
    <3> QED
      BY <3>1, <3>2
  <2>4. CASE UpdateConfig(p)
    <3>0. pc[p] = "write" /\ p \in InFlight /\ UNCHANGED <<live, overlap>>
      BY <1>a, <2>0, <2>4 DEF UpdateConfig
    <3>1. CASE Upsert(p) /\ Continue(p, "discover") /\ UNCHANGED locals
      <4>1. /\ pc'[p] = "discover" /\ next'[p] = next[p] /\ stored' = next[p]
            /\ st[p] \in open /\ settled' = settled
        BY <2>0, <3>1 DEF Upsert, Continue, Goto, TypeOK, locals
      <4>2. GetConfig' = next'[p]
        BY <2>0, <4>1 DEF GetConfig, NilIsNoValue, TypeOK
      <4>3. ASSUME Alone(p) PROVE open = {poolPtr} \ {None}
        <5>1. ASSUME NEW c \in Configures, c \in InFlight PROVE FALSE
          <6>1. {p, c} \in overlap
            BY <2>0, <3>0, <5>1 DEF CoherenceInv, EveryOverlapSeen
          <6> QED
            BY <4>3, <6>1 DEF Alone
        <5> QED
          BY <5>1 DEF PoolInv, NoPoolLeak
      <4>4. Alone(p) /\ Established(p) => Established(p)'
        BY <2>0, <3>0, <4>1, <4>2, <4>3 DEF Established, live, TypeOK
      <4> QED
        BY <1>0, <2>0, <3>0, <4>1, <4>4, FlightKeepsCoherence
    <3>2. CASE Refuse(p, TRUE)
      BY <1>0, <2>0, <3>0, <3>2, RefusalKeepsCoherence
    <3>3. CASE Refuse(p, FALSE) /\ UNCHANGED stored
      BY <1>0, <2>0, <3>0, <3>3, RefusalKeepsCoherence
    <3> QED
      BY <2>4, <3>1, <3>2, <3>3 DEF UpdateConfig
  <2> QED
    BY <1>2, <2>1, <2>2, <2>3, <2>4 DEF PatchStep
<1>3. ASSUME NEW o \in Ops, ApplyStep(o) PROVE CoherenceInv'
  <2>0. Local(o)
    BY <1>3, StepIsLocal
  <2>1. CASE Discover(o)
    <3>1. /\ pc[o] = "discover" /\ pc'[o] = "store-config"
          /\ UNCHANGED <<stored, storePtr, poolPtr, handler, next, overlap>>
      BY <2>1 DEF Discover, Goto, TypeOK, history
    <3>2. lastProviderErr' <=> ProviderConfigured(next[o]) /\ built'[o] = None
      <4>1. ProviderOf(next[o]) # None
        BY ConfigsHaveTheirFields DEF NilIsNoValue
      <4>2. \/ /\ ProviderConfigured(next[o]) /\ built'[o] = ProviderOf(next[o])
               /\ lastProviderErr' = FALSE
            \/ /\ built'[o] = None
               /\ lastProviderErr' = ProviderConfigured(next[o])
        BY <2>1 DEF Discover, TypeOK
      <4> QED
        BY <4>1, <4>2
    <3>3. Established(o) => Established(o)'
      BY <3>1, <3>2 DEF Established, GetConfig
    <3> QED
      BY <1>0, <1>a, <2>0, <3>1, <3>3, FlightKeepsCoherence
  <2>2. CASE StoreConfig(o)
    <3>1. /\ pc[o] = "store-config" /\ pc'[o] = "store-provider" /\ cfgPtr' = next[o]
          /\ UNCHANGED <<stored, lastProviderErr, storePtr, poolPtr, handler, next, built,
                         overlap>>
      BY <2>2 DEF StoreConfig, Goto, TypeOK, history, locals
    <3>2. Established(o) => Established(o)'
      BY <3>1 DEF Established, GetConfig
    <3> QED
      BY <1>0, <1>a, <2>0, <3>1, <3>2, FlightKeepsCoherence
  <2>3. CASE StoreProvider(o)
    <3>1. /\ pc[o] = "store-provider" /\ provPtr' = built[o]
          /\ UNCHANGED <<stored, cfgPtr, lastProviderErr, storePtr, poolPtr, handler, overlap>>
      BY <2>3 DEF StoreProvider
    <3>2. CASE o \in Patches
      <4>1. pc'[o] = "done" /\ settled' = Alone(o) /\ o \notin InFlight'
        BY <2>3, <3>2 DEF StoreProvider, Applied, Succeed, Return, Goto, TypeOK, InFlight
      <4>2. built[o] \in {None, ProviderOf(next[o])}
        BY <3>1 DEF CoherenceInv, BuiltFromNext
      <4>3. Established(o) => Coherent'
        BY <3>1, <3>2, <4>2 DEF Established, Coherent, GetConfig
      <4> QED
        BY <1>0, <1>a, <2>0, <3>1, <4>1, <4>3, FlightKeepsCoherence
    <3>3. CASE o \notin Patches
      <4>1. pc'[o] = "store-store" /\ UNCHANGED <<next, built>>
        BY <2>3, <3>3 DEF StoreProvider, Applied, Continue, Goto, TypeOK, locals
      <4>2. Established(o) => Established(o)'
        BY <3>1, <3>3, <4>1 DEF Established, GetConfig
      <4> QED
        BY <1>0, <1>a, <2>0, <3>1, <4>1, <4>2, FlightKeepsCoherence
    <3> QED
      BY <3>2, <3>3
  <2> QED
    BY <1>3, <2>1, <2>2, <2>3 DEF ApplyStep
<1>4. CASE Crash
  <2>1. InFlight' = {} /\ settled' = FALSE
    BY <1>4 DEF Crash, InFlight
  <2> QED
    BY <1>0, <2>1 DEF CoherenceInv, EveryOverlapSeen, SoloEstablishes, SettledStays
<1>5. CASE UNCHANGED vars
  <2>1. InFlight' = InFlight
    BY <1>5 DEF vars, InFlight
  <2> QED
    BY <1>0, <1>5, <2>1
       DEF vars, live, locals, history, CoherenceInv, EveryOverlapSeen, SoloEstablishes,
           SettledStays, Established, Coherent, Alone, GetConfig
<1> QED
  BY <1>1, <1>2, <1>3, <1>4, <1>5 DEF Next

\* When all have returned, and the last to change something ran alone and
\* succeeded, row, pointers and the open pool agree.
THEOREM SettledAgrees == ASSUME NilIsNoValue PROVE Spec => []SettledIsCoherent
<1>1. Init => CoherenceInv
  BY DEF Init, CoherenceInv, BuiltFromNext, EveryOverlapSeen, SoloEstablishes, SettledStays,
         InFlight, Discovered, ConfigPublished, ProviderPublished, StorePublished, Wired
<1>2. TypeOK /\ PoolInv /\ CoherenceInv /\ [Next]_vars => CoherenceInv'
  BY CoherenceInduction
<1>3. PoolInv /\ CoherenceInv => SettledIsCoherent
  <2> SUFFICES ASSUME PoolInv, CoherenceInv, InFlight = {}, settled
               PROVE  Coherent /\ open = {storePtr}
    BY DEF SettledIsCoherent, Coherent
  <2>1. \A o \in Ops : ~Touching(o)
    BY DEF InFlight, Touching, Adopted, Discovered, ConfigPublished, ProviderPublished,
           StorePublished, Wired
  <2>2. Coherent
    BY <2>1 DEF CoherenceInv, SettledStays
  <2> QED
    BY <2>2 DEF Coherent, PoolInv, NoPoolLeak
<1> QED
  BY <1>1, <1>2, <1>3, TypeCorrect, PoolInvariant, PTL DEF Spec

=============================================================================
