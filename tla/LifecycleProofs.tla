--------------------------- MODULE LifecycleProofs ---------------------------
(***************************************************************************)
(* Configurations and pools for any number of Configures and PATCHes, any  *)
(* entries and bodies.                                                     *)
(***************************************************************************)
EXTENDS Lifecycle, TLAPS

\* The three ways a configuration comes about give it all its fields.
LEMMA ConfigsHaveTheirFields ==
  /\ IsConfig(DefaultConfig)
  /\ \A entries : IsConfig(LoadConfig(entries))
  /\ \A cur, body : IsConfig(Patched(cur, body))
  /\ \A cfg : IsProvider(ProviderOf(cfg))
<1>1. IsConfig(DefaultConfig)
  BY DEF IsConfig, DefaultConfig, ConfigFields
<1> QED
  BY <1>1 DEF IsConfig, IsProvider, LoadConfig, Patched, ProviderOf

LEMMA GetConfigIsConfig == TypeOK => IsConfig(GetConfig)
  BY ConfigsHaveTheirFields DEF TypeOK, GetConfig

\* Returning keeps the types of what belongs to the operation.
LEMMA ReturnType ==
  ASSUME TypeOK, NEW o \in Ops, NEW r \in {"ok", "refused"}, Return(o, r)
  PROVE  /\ pc' \in [Ops -> ConfigureLabels \cup PatchLabels]
         /\ \A c \in Configures : pc'[c] \in ConfigureLabels
         /\ \A p \in Patches : pc'[p] \in PatchLabels
         /\ DOMAIN next' = Ops /\ \A q \in Ops : IsConfig(next'[q])
         /\ DOMAIN built' = Ops
         /\ \A q \in Ops : built'[q] # None => IsProvider(built'[q])
         /\ st' \in [Ops -> Configures \cup {None}]
         /\ result' \in [Ops -> {None, "ok", "refused"}]
  BY ConfigsHaveTheirFields
     DEF TypeOK, Return, Goto, Ops, ConfigureLabels, PatchLabels

\* Type correctness of the row, the pointers and the operations.
THEOREM TypeCorrect == Spec => []TypeOK
<1>1. Init => TypeOK
  BY ConfigsHaveTheirFields, LifecycleAssumption
     DEF Init, TypeOK, Ops, ConfigureLabels, PatchLabels
<1>2. TypeOK /\ [Next]_vars => TypeOK'
  <2> SUFFICES ASSUME TypeOK, [Next]_vars PROVE TypeOK'
    OBVIOUS
  <2> USE LifecycleAssumption DEF TypeOK, live, locals, history, Ops
  <2>1. ASSUME NEW c \in Configures, ConfigureStep(c) PROVE TypeOK'
    <3>1. CASE ConfigureRefused(c)
      BY <3>1, ReturnType DEF ConfigureRefused, Refuse
    <3>2. ASSUME NEW entries \in Entries, Configure(c, entries) PROVE TypeOK'
      BY <3>2, ConfigsHaveTheirFields
         DEF Configure, Start, Goto, InFlight, ConfigureLabels
    <3>3. ASSUME Abandon(c, TRUE) \/ Abandon(c, FALSE),
                 UNCHANGED <<live, overlap>>, stored' # None => IsConfig(stored')
          PROVE TypeOK'
      BY <3>3, ReturnType DEF Abandon, Refuse
    <3>4. CASE Migrate(c)
      <4>1. CASE Abandon(c, FALSE)
        BY <3>4, <4>1, <3>3 DEF Migrate
      <4>2. CASE Continue(c, "import") /\ UNCHANGED <<open, locals>>
        BY <3>4, <4>2 DEF Migrate, Continue, Goto, ConfigureLabels
      <4> QED
        BY <3>4, <4>1, <4>2 DEF Migrate
    <3>5. ASSUME Adopt(c), UNCHANGED <<stored, live, overlap>> PROVE TypeOK'
      BY <3>5, GetConfigIsConfig DEF Adopt, Continue, Goto, ConfigureLabels
    <3>6. CASE ImportLegacyConfig(c)
      <4>1. CASE Abandon(c, FALSE) \/ Adopt(c)
        BY <3>6, <4>1, <3>3, <3>5 DEF ImportLegacyConfig
      <4>2. CASE Continue(c, "import-write") /\ UNCHANGED <<open, locals>>
        BY <3>6, <4>2 DEF ImportLegacyConfig, Continue, Goto, ConfigureLabels
      <4> QED
        BY <3>6, <4>1, <4>2 DEF ImportLegacyConfig
    <3>7. CASE ImportWrite(c)
      <4>1. stored' = stored \/ stored' = next[c]
        BY <3>7, Zenon DEF ImportWrite
      <4>2. CASE Abandon(c, TRUE) \/ Abandon(c, FALSE)
        <5>1. UNCHANGED <<live, overlap>>
          BY <3>7 DEF ImportWrite
        <5>2. stored' # None => IsConfig(stored')
          BY <4>1
        <5> QED
          BY <5>1, <5>2, <4>2, <3>3, Zenon
      <4>3. CASE Continue(c, "import-read") /\ UNCHANGED <<open, locals>>
        BY <3>7, <4>1, <4>3 DEF ImportWrite, Continue, Goto, ConfigureLabels
      <4> QED
        BY <3>7, <4>2, <4>3 DEF ImportWrite
    <3>8. CASE ImportRead(c)
      BY <3>8, <3>3, <3>5 DEF ImportRead
    <3>9. CASE StoreStore(c)
      BY <3>9 DEF StoreStore, Goto, ConfigureLabels
    <3>10. CASE SetHandler(c)
      BY <3>10 DEF SetHandler, Goto, ConfigureLabels
    <3>11. CASE SwapPool(c)
      BY <3>11, ReturnType DEF SwapPool, Succeed, Alone
    <3> QED
      BY <2>1, <3>1, <3>2, <3>4, <3>6, <3>7, <3>8, <3>9, <3>10, <3>11 DEF ConfigureStep
  <2>2. ASSUME NEW p \in Patches, PatchStep(p) PROVE TypeOK'
    <3>1. CASE PatchRefused(p)
      BY <3>1, ReturnType DEF PatchRefused, Refuse
    <3>2. ASSUME NEW body \in Bodies, HandleUpdateConfig(p, body) PROVE TypeOK'
      BY <3>2, ConfigsHaveTheirFields
         DEF HandleUpdateConfig, Start, Goto, InFlight, PatchLabels
    <3>3. CASE LoadStore(p)
      <4>1. CASE storePtr = None
        BY <3>3, <4>1, ReturnType DEF LoadStore, Refuse
      <4>2. CASE storePtr # None
        BY <3>3, <4>2 DEF LoadStore, Continue, Goto, PatchLabels
      <4> QED
        BY <4>1, <4>2
    <3>4. CASE UpdateConfig(p)
      <4>1. CASE Upsert(p) /\ Continue(p, "discover") /\ UNCHANGED locals
        BY <3>4, <4>1
           DEF UpdateConfig, Upsert, Continue, Goto, PatchLabels
      <4>2. CASE Refuse(p, TRUE) \/ Refuse(p, FALSE)
        <5>1. stored' = stored \/ stored' = next[p]
          BY <3>4, Zenon DEF UpdateConfig, Upsert
        <5>2. settled' \in BOOLEAN
          BY <4>2 DEF Refuse
        <5>3. Return(p, "refused")
          BY <4>2 DEF Refuse
        <5>4. UNCHANGED <<live, open, overlap>>
          BY <3>4 DEF UpdateConfig
        <5> QED
          BY <5>1, <5>2, <5>3, <5>4, ReturnType
      <4> QED
        BY <3>4, <4>1, <4>2 DEF UpdateConfig
    <3> QED
      BY <2>2, <3>1, <3>2, <3>3, <3>4 DEF PatchStep
  <2>3. ASSUME NEW o \in Ops, ApplyStep(o) PROVE TypeOK'
    <3>1. CASE Discover(o)
      <4>1. lastProviderErr' \in BOOLEAN
        BY <3>1, Zenon DEF Discover, ProviderConfigured
      <4> QED
        BY <3>1, <4>1, ConfigsHaveTheirFields
           DEF Discover, Goto, ConfigureLabels, PatchLabels
    <3>2. CASE StoreConfig(o)
      BY <3>2 DEF StoreConfig, Goto, ConfigureLabels, PatchLabels
    <3>3. CASE StoreProvider(o)
      <4>1. CASE o \in Patches
        BY <3>3, <4>1, ReturnType DEF StoreProvider, Applied, Succeed, Alone
      <4>2. CASE o \notin Patches
        BY <3>3, <4>2 DEF StoreProvider, Applied, Continue, Goto, ConfigureLabels
      <4> QED
        BY <4>1, <4>2
    <3> QED
      BY <2>3, <3>1, <3>2, <3>3 DEF ApplyStep
  <2>4. CASE Crash
    BY <2>4, ConfigsHaveTheirFields DEF Crash, ConfigureLabels, PatchLabels
  <2>5. CASE UNCHANGED vars
    BY <2>5 DEF vars, InFlight
  <2> QED
    BY <2>1, <2>2, <2>3, <2>4, <2>5 DEF Next
<1> QED
  BY <1>1, <1>2, PTL DEF Spec

-----------------------------------------------------------------------------
(* Validation *)

\* An operation that returns carries the default configuration, which is valid.
LEMMA ReturnCarriesValid ==
  ASSUME TypeOK, CarriedIsValid, NEW o \in Ops, NEW r, Return(o, r)
  PROVE  CarriedIsValid'
  BY LifecycleAssumption DEF TypeOK, CarriedIsValid, Return, Goto, Ops

\* The configurations that are live and stored pass ValidateConfig, in every
\* interleaving of Configures, PATCHes, failures and crashes.
THEOREM ConfigsStayValid == Spec => []ConfigsAreValid
<1>1. Init => ValidInv
  BY LifecycleAssumption DEF Init, ValidInv, ConfigsAreValid, CarriedIsValid, Ops
<1>2. TypeOK /\ ValidInv /\ [Next]_vars => ValidInv'
  <2> SUFFICES ASSUME TypeOK, ValidInv, [Next]_vars PROVE ValidInv'
    OBVIOUS
  <2> USE LifecycleAssumption DEF ValidInv, live, locals, Ops
  <2>0. TypeOK /\ CarriedIsValid /\ ConfigsAreValid
    OBVIOUS
  <2>1. ASSUME NEW o \in Ops, Refuse(o, TRUE) \/ Refuse(o, FALSE) \/ Succeed(o)
        PROVE CarriedIsValid'
    BY <2>0, <2>1, ReturnCarriesValid DEF Refuse, Succeed
  <2>2. ASSUME NEW o \in Ops, NEW label, Goto(o, label), UNCHANGED next,
               o \in Configures \/ label \in {"load-store", "write"}
                 \/ ValidateConfig(next[o])
        PROVE CarriedIsValid'
    BY <2>2, <2>0 DEF Goto, CarriedIsValid, TypeOK
  <2>3. GetConfig = DefaultConfig \/ (GetConfig = stored /\ stored # None)
    BY DEF GetConfig
  <2>4. ValidateConfig(GetConfig)
    BY <2>3, <2>0 DEF ConfigsAreValid
  <2>5. ASSUME NEW c \in Configures, ConfigureStep(c) PROVE ValidInv'
    <3> USE DEF ConfigsAreValid
    <3>0. c \in Ops /\ ValidateConfig(next[c])
      BY <2>0 DEF CarriedIsValid
    <3>1. CASE ConfigureRefused(c)
      BY <3>1, <2>1, <2>0 DEF ConfigureRefused
    <3>2. ASSUME NEW entries \in Entries, Configure(c, entries) PROVE ValidInv'
      BY <3>2, <2>0 DEF Configure, Start, Goto, CarriedIsValid, TypeOK
    <3>3. ASSUME Adopt(c) PROVE CarriedIsValid'
      BY <3>3, <2>0, <2>4 DEF Adopt, Continue, Goto, CarriedIsValid, TypeOK
    <3>4. CASE Migrate(c)
      BY <3>0, <3>4, <2>0, <2>1, <2>2 DEF Migrate, Abandon, Continue
    <3>5. CASE ImportLegacyConfig(c)
      BY <3>0, <3>5, <3>3, <2>0, <2>1, <2>2 DEF ImportLegacyConfig, Abandon, Continue
    <3>6. CASE ImportWrite(c)
      BY <3>0, <3>6, <2>0, <2>1, <2>2 DEF ImportWrite, Abandon, Continue
    <3>7. CASE ImportRead(c)
      BY <3>0, <3>7, <3>3, <2>0, <2>1 DEF ImportRead, Abandon
    <3>8. CASE StoreStore(c)
      BY <3>0, <3>8, <2>0, <2>2 DEF StoreStore
    <3>9. CASE SetHandler(c)
      BY <3>0, <3>9, <2>0, <2>2 DEF SetHandler
    <3>10. CASE SwapPool(c)
      BY <3>0, <3>10, <2>0, <2>1 DEF SwapPool
    <3> QED
      BY <2>5, <3>1, <3>2, <3>4, <3>5, <3>6, <3>7, <3>8, <3>9, <3>10 DEF ConfigureStep
  <2>6. ASSUME NEW p \in Patches, PatchStep(p) PROVE ValidInv'
    <3> USE DEF ConfigsAreValid
    <3>1. CASE PatchRefused(p)
      BY <3>1, <2>1, <2>0 DEF PatchRefused
    <3>2. ASSUME NEW body \in Bodies, HandleUpdateConfig(p, body) PROVE ValidInv'
      BY <3>2, <2>0 DEF HandleUpdateConfig, Start, Goto, CarriedIsValid, TypeOK
    <3>3. CASE LoadStore(p)
      BY <3>3, <2>1, <2>2, <2>0 DEF LoadStore, Continue
    <3>4. CASE UpdateConfig(p)
      BY <3>4, <2>1, <2>2, <2>0 DEF UpdateConfig, Upsert, Continue
    <3> QED
      BY <2>6, <3>1, <3>2, <3>3, <3>4 DEF PatchStep
  <2>7. ASSUME NEW o \in Ops, ApplyStep(o) PROVE ValidInv'
    <3> USE DEF ConfigsAreValid
    <3>1. pc[o] \in {"discover", "store-config", "store-provider"} => ValidateConfig(next[o])
      BY <2>0 DEF CarriedIsValid
    <3>2. CASE Discover(o)
      BY <3>1, <3>2, <2>2, <2>0 DEF Discover
    <3>3. CASE StoreConfig(o)
      BY <3>1, <3>3, <2>2, <2>0 DEF StoreConfig
    <3>4. CASE StoreProvider(o)
      BY <3>1, <3>4, <2>1, <2>2, <2>0 DEF StoreProvider, Applied, Continue
    <3> QED
      BY <2>7, <3>2, <3>3, <3>4 DEF ApplyStep
  <2>8. CASE Crash
    BY <2>8, <2>0 DEF Crash, ConfigsAreValid, CarriedIsValid, TypeOK
  <2>9. CASE UNCHANGED vars
    BY <2>9, <2>0 DEF vars, ConfigsAreValid, CarriedIsValid
  <2> QED
    BY <2>5, <2>6, <2>7, <2>8, <2>9 DEF Next
<1>3. ValidInv => ConfigsAreValid
  BY DEF ValidInv
<1> QED
  BY <1>1, <1>2, <1>3, TypeCorrect, PTL DEF Spec

-----------------------------------------------------------------------------
(* Pools *)

\* A step of an operation within its flight, outside the stores of storePtr and
\* poolPtr, leaves the pools as they are.
LEMMA FlightKeepsPools ==
  ASSUME TypeOK, PoolInv, NEW o \in Ops, NEW label,
         pc[o] \notin {"idle", "done"}, label \notin {"idle", "done"},
         Goto(o, label),
         o \in Configures => /\ ~Published(o)
                             /\ label \notin {"set-handler", "swap-pool"},
         UNCHANGED <<open, storePtr, poolPtr, overlap>>
  PROVE  PoolInv'
<1> USE LifecycleAssumption DEF Ops
<1>1. \A q \in Ops : pc'[q] = IF q = o THEN label ELSE pc[q]
  BY DEF TypeOK, Goto
<1>2. InFlight' = InFlight
  BY <1>1 DEF InFlight
<1>3. \A c \in Configures : Published(c)' <=> Published(c)
  BY <1>1 DEF Published
<1>4. NoPoolLeak' /\ OverlapSeen'
  BY <1>2 DEF PoolInv, NoPoolLeak, OverlapSeen
<1>5. PoolOwnerReturned'
  BY <1>1 DEF TypeOK, PoolInv, PoolOwnerReturned
<1>6. StoreOwner'
  BY <1>3 DEF TypeOK, PoolInv, StoreOwner, Serial
<1> QED
  BY <1>4, <1>5, <1>6 DEF PoolInv

\* A PATCH that starts, or that returns, holds no pool.
LEMMA PatchKeepsPools ==
  ASSUME TypeOK, PoolInv, NEW p \in Patches, NEW label, Goto(p, label),
         UNCHANGED <<open, storePtr, poolPtr>>,
         overlap \subseteq overlap'
  PROVE  PoolInv'
<1> USE LifecycleAssumption DEF Ops
<1>1. \A q \in Ops : q # p => pc'[q] = pc[q]
  BY DEF TypeOK, Goto
<1>2. InFlight' \cap Configures = InFlight \cap Configures
  BY <1>1 DEF InFlight
<1>3. \A c \in Configures : pc'[c] = pc[c]
  BY <1>1
<1>4. NoPoolLeak' /\ OverlapSeen'
  BY <1>2 DEF PoolInv, NoPoolLeak, OverlapSeen
<1>5. PoolOwnerReturned'
  BY <1>3 DEF TypeOK, PoolInv, PoolOwnerReturned
<1>6. StoreOwner'
  BY <1>3 DEF TypeOK, PoolInv, StoreOwner, Serial, Published
<1> QED
  BY <1>4, <1>5, <1>6 DEF PoolInv

\* A Configure that returns before it has published closes its pool.
LEMMA AbandonKeepsPools ==
  ASSUME TypeOK, PoolInv, NEW c \in Configures,
         ~Published(c), pc[c] # "done",
         Goto(c, "done"), open' = open \ {c},
         UNCHANGED <<storePtr, poolPtr, overlap>>
  PROVE  PoolInv'
<1> USE LifecycleAssumption DEF Ops
<1>1. \A q \in Ops : pc'[q] = IF q = c THEN "done" ELSE pc[q]
  BY DEF TypeOK, Goto
<1>2. InFlight' = InFlight \ {c}
  BY <1>1 DEF InFlight
<1>3. poolPtr # c
  BY DEF PoolInv, PoolOwnerReturned
<1>4. NoPoolLeak' /\ OverlapSeen'
  BY <1>2, <1>3 DEF PoolInv, NoPoolLeak, OverlapSeen
<1>5. PoolOwnerReturned'
  BY <1>1 DEF TypeOK, PoolInv, PoolOwnerReturned
<1>6. \A d \in Configures : Published(d)' <=> Published(d)
  BY <1>1 DEF Published
<1>7. StoreOwner'
  BY <1>6 DEF TypeOK, PoolInv, StoreOwner, Serial
<1> QED
  BY <1>4, <1>5, <1>7 DEF PoolInv

LEMMA PoolInduction == TypeOK /\ PoolInv /\ [Next]_vars => PoolInv'
<1> SUFFICES ASSUME TypeOK, PoolInv, [Next]_vars PROVE PoolInv'
  OBVIOUS
<1> USE LifecycleAssumption DEF live, locals, history, Ops
<1>1. ASSUME NEW c \in Configures, ConfigureStep(c) PROVE PoolInv'
  <2>0. c \in Ops
    OBVIOUS
  <2>1. CASE ConfigureRefused(c)
    <3>1. c \notin open
      BY <2>1 DEF ConfigureRefused, PoolInv, NoPoolLeak, PoolOwnerReturned, InFlight
    <3> QED
      BY <2>1, <3>1, AbandonKeepsPools DEF ConfigureRefused, Refuse, Return, Published
  <2>2. ASSUME NEW entries \in Entries, Configure(c, entries) PROVE PoolInv'
    <3>1. /\ pc[c] = "idle"
          /\ \A q \in Ops : pc'[q] = IF q = c THEN "migrate" ELSE pc[q]
          /\ open' = open \cup {c}
          /\ overlap' = overlap \cup {{c, q} : q \in InFlight}
          /\ UNCHANGED <<storePtr, poolPtr>>
      BY <2>2 DEF Configure, Start, Goto, TypeOK
    <3>2. InFlight' = InFlight \cup {c}
      BY <3>1 DEF InFlight
    <3>3. NoPoolLeak'
      BY <3>1, <3>2 DEF PoolInv, NoPoolLeak
    <3>4. PoolOwnerReturned'
      BY <3>1 DEF TypeOK, PoolInv, PoolOwnerReturned
    <3>5. OverlapSeen'
      <4> SUFFICES ASSUME NEW a \in InFlight' \cap Configures,
                          NEW b \in InFlight' \cap Configures, a # b
                   PROVE  {a, b} \in overlap'
        BY DEF OverlapSeen
      <4>1. CASE a = c
        BY <4>1, <3>1, <3>2
      <4>2. CASE b = c
        <5>1. {a, b} = {c, a}
          BY <4>2
        <5> QED
          BY <4>2, <5>1, <3>1, <3>2
      <4>3. CASE a # c /\ b # c
        BY <4>3, <3>1, <3>2 DEF PoolInv, OverlapSeen
      <4> QED
        BY <4>1, <4>2, <4>3
    <3>6. \A d \in Configures : Published(d)' <=> Published(d)
      BY <3>1 DEF Published
    <3>7. StoreOwner'
      BY <3>1, <3>6 DEF TypeOK, PoolInv, StoreOwner, Serial
    <3> QED
      BY <3>3, <3>4, <3>5, <3>7 DEF PoolInv
  <2>3. ASSUME pc[c] \in {"migrate", "import", "import-write", "import-read"},
               Abandon(c, TRUE) \/ Abandon(c, FALSE),
               UNCHANGED <<live, overlap>>
        PROVE PoolInv'
    BY <2>3, AbandonKeepsPools DEF Abandon, Refuse, Return, Published
  <2>4. CASE Migrate(c)
    BY <2>0, <2>3, <2>4, FlightKeepsPools DEF Migrate, Continue, Published
  <2>5. CASE ImportLegacyConfig(c)
    BY <2>0, <2>3, <2>5, FlightKeepsPools DEF ImportLegacyConfig, Adopt, Continue, Published
  <2>6. CASE ImportWrite(c)
    BY <2>0, <2>3, <2>6, FlightKeepsPools DEF ImportWrite, Continue, Published
  <2>7. CASE ImportRead(c)
    BY <2>0, <2>3, <2>7, FlightKeepsPools DEF ImportRead, Adopt, Continue, Published
  <2>8. CASE StoreStore(c)
    <3>1. /\ pc[c] = "store-store"
          /\ \A q \in Ops : pc'[q] = IF q = c THEN "set-handler" ELSE pc[q]
          /\ storePtr' = c
          /\ UNCHANGED <<open, poolPtr, overlap>>
      BY <2>8 DEF StoreStore, Goto, TypeOK
    <3>2. InFlight' = InFlight /\ c \in InFlight
      BY <3>1 DEF InFlight
    <3>3. NoPoolLeak' /\ OverlapSeen'
      BY <3>1, <3>2 DEF PoolInv, NoPoolLeak, OverlapSeen
    <3>4. PoolOwnerReturned'
      BY <3>1 DEF TypeOK, PoolInv, PoolOwnerReturned
    <3>5. ASSUME Serial, NEW d \in Configures, d # c PROVE ~Published(d)
      <4>1. ASSUME d \in InFlight PROVE FALSE
        <5>1. {c, d} \in overlap
          BY <3>2, <3>5, <4>1 DEF PoolInv, OverlapSeen
        <5>2. {c, d} \subseteq Configures
          BY <3>5
        <5> QED
          BY <3>5, <5>1, <5>2 DEF Serial
      <4> QED
        BY <4>1 DEF Published, InFlight
    <3>6. StoreOwner'
      BY <3>1, <3>5 DEF StoreOwner, Serial, Published
    <3> QED
      BY <3>3, <3>4, <3>6 DEF PoolInv
  <2>9. CASE SetHandler(c)
    <3>1. /\ pc[c] = "set-handler"
          /\ \A q \in Ops : pc'[q] = IF q = c THEN "swap-pool" ELSE pc[q]
          /\ UNCHANGED <<open, storePtr, poolPtr, overlap>>
      BY <2>9 DEF SetHandler, Goto, TypeOK
    <3>2. InFlight' = InFlight
      BY <3>1 DEF InFlight
    <3>3. NoPoolLeak' /\ OverlapSeen'
      BY <3>1, <3>2 DEF PoolInv, NoPoolLeak, OverlapSeen
    <3>4. PoolOwnerReturned'
      BY <3>1 DEF TypeOK, PoolInv, PoolOwnerReturned
    <3>5. \A d \in Configures : Published(d)' <=> Published(d)
      BY <3>1 DEF Published
    <3>6. StoreOwner'
      BY <3>1, <3>5 DEF TypeOK, PoolInv, StoreOwner, Serial
    <3> QED
      BY <3>3, <3>4, <3>6 DEF PoolInv
  <2>10. CASE SwapPool(c)
    <3>1. /\ pc[c] = "swap-pool"
          /\ \A q \in Ops : pc'[q] = IF q = c THEN "done" ELSE pc[q]
          /\ poolPtr' = c
          /\ open' = open \ {poolPtr}
          /\ UNCHANGED <<storePtr, overlap>>
      BY <2>10 DEF SwapPool, Succeed, Return, Goto, TypeOK
    <3>2. InFlight' = InFlight \ {c} /\ c \in InFlight
      BY <3>1 DEF InFlight
    <3>3. poolPtr # None => poolPtr \notin InFlight
      BY DEF PoolInv, PoolOwnerReturned, InFlight
    <3>4. NoPoolLeak'
      BY <3>1, <3>2, <3>3 DEF PoolInv, NoPoolLeak
    <3>5. OverlapSeen'
      BY <3>1, <3>2 DEF PoolInv, OverlapSeen
    <3>6. PoolOwnerReturned'
      BY <3>1 DEF PoolOwnerReturned
    <3>7. StoreOwner'
      BY <3>1 DEF PoolInv, StoreOwner, Serial, Published
    <3> QED
      BY <3>4, <3>5, <3>6, <3>7 DEF PoolInv
  <2> QED
    BY <1>1, <2>1, <2>2, <2>4, <2>5, <2>6, <2>7, <2>8, <2>9, <2>10 DEF ConfigureStep
<1>2. ASSUME NEW p \in Patches, PatchStep(p) PROVE PoolInv'
  <2>1. CASE PatchRefused(p)
    BY <2>1, PatchKeepsPools DEF PatchRefused, Refuse, Return
  <2>2. ASSUME NEW body \in Bodies, HandleUpdateConfig(p, body) PROVE PoolInv'
    BY <2>2, PatchKeepsPools DEF HandleUpdateConfig, Start
  <2>3. CASE LoadStore(p)
    BY <2>3, PatchKeepsPools DEF LoadStore, Refuse, Return, Continue
  <2>4. CASE UpdateConfig(p)
    BY <2>4, PatchKeepsPools DEF UpdateConfig, Refuse, Return, Continue
  <2> QED
    BY <1>2, <2>1, <2>2, <2>3, <2>4 DEF PatchStep
<1>3. ASSUME NEW o \in Ops, ApplyStep(o) PROVE PoolInv'
  <2>1. CASE Discover(o)
    BY <2>1, FlightKeepsPools DEF Discover, Published
  <2>2. CASE StoreConfig(o)
    BY <2>2, FlightKeepsPools DEF StoreConfig, Published
  <2>3. CASE StoreProvider(o) /\ o \in Patches
    BY <2>3, PatchKeepsPools DEF StoreProvider, Applied, Succeed, Return
  <2>4. CASE StoreProvider(o) /\ o \notin Patches
    BY <2>4, FlightKeepsPools DEF StoreProvider, Applied, Continue, Published
  <2> QED
    BY <1>3, <2>1, <2>2, <2>3, <2>4 DEF ApplyStep
<1>4. CASE Crash
  <2>1. InFlight' = {} /\ \A c \in Configures : ~Published(c)'
    BY <1>4 DEF Crash, InFlight, Published, TypeOK
  <2> QED
    BY <1>4, <2>1
       DEF Crash, PoolInv, NoPoolLeak, PoolOwnerReturned, OverlapSeen, StoreOwner
<1>5. CASE UNCHANGED vars
  <2>1. InFlight' = InFlight
    BY <1>5 DEF vars, InFlight
  <2> QED
    BY <1>5, <2>1
       DEF vars, PoolInv, NoPoolLeak, PoolOwnerReturned, OverlapSeen, StoreOwner,
           Serial, Published
<1> QED
  BY <1>1, <1>2, <1>3, <1>4, <1>5 DEF Next

LEMMA PoolInvariant == Spec => []PoolInv
<1>1. Init => PoolInv
  BY DEF Init, PoolInv, NoPoolLeak, PoolOwnerReturned, OverlapSeen, StoreOwner, InFlight,
         Published, Ops
<1> QED
  BY <1>1, PoolInduction, TypeCorrect, PTL DEF Spec

\* No path through the Configure callback leaks a connection pool.
THEOREM PoolsAreNotLeaked == Spec => []NoPoolLeak
<1>1. PoolInv => NoPoolLeak
  BY DEF PoolInv
<1> QED
  BY <1>1, PoolInvariant, PTL

\* While Configures are serial, the pool behind storePtr is open.
THEOREM LiveStoreIsOpen == Spec => []StorePoolIsOpen
<1>1. TypeOK /\ PoolInv => StorePoolIsOpen
  BY DEF TypeOK, PoolInv, StoreOwner, NoPoolLeak, StorePoolIsOpen, Published, InFlight, Ops
<1> QED
  BY <1>1, PoolInvariant, TypeCorrect, PTL

=============================================================================
