------------------------------ MODULE Pointers ------------------------------
(***************************************************************************)
(* What the rest of the plugin may rely on about the atomic pointers of    *)
(* cmd/silo-plugin-oidc-login: the order in which an application of a      *)
(* configuration stores them, and nothing else. Any number of Configures   *)
(* and PATCHes apply configurations at the same time. Module Lifecycle     *)
(* implements this specification; AuthFlow and Diagnostics run logins and  *)
(* admin requests beside it.                                               *)
(*                                                                         *)
(* A configuration is seen as a login sees it: the provider it names and   *)
(* the gates, filters and role mapping a login is judged by.               *)
(***************************************************************************)

CONSTANTS
    Appliers,    \* Configures and PATCHes, by the goroutine they run on
    NoProvider,  \* the nil *Provider, and the provider of a config that names none
    NoStore      \* the nil *Store

VARIABLES
    cfgPtr,    \* the live configuration
    provPtr,   \* the live provider
    storePtr,  \* the live store
    applying   \* where each application is, with the provider it built

pointers == <<cfgPtr, provPtr, storePtr, applying>>

\* pluginrt.Config{}, what is read while cfgPtr is nil.
ZeroConfig ==
    [provider |-> NoProvider, email_verified_required |-> FALSE,
     link_by_email |-> FALSE, claim_filters |-> <<>>, claim_role_mapping |-> <<>>]

At(step, prov) == [step |-> step, prov |-> prov]
Idle == At("idle", NoProvider)

PointersInit ==
    /\ cfgPtr = ZeroConfig
    /\ provPtr = NoProvider
    /\ storePtr = NoStore
    /\ applying = [a \in Appliers |-> Idle]

\* The configuration is stored first. The provider to store next is the one it
\* names, or nil when it names none or when the discovery has failed.
StoreConfig(a, k, prov) ==
    /\ applying[a] = Idle
    /\ prov \in {k.provider, NoProvider}
    /\ cfgPtr' = k
    /\ applying' = [applying EXCEPT ![a] = At("provider", prov)]
    /\ UNCHANGED <<provPtr, storePtr>>

\* A PATCH, which needs a store to have come so far, is done then. A Configure
\* goes on to publish the store it opened.
StoreProvider(a) ==
    /\ applying[a].step = "provider"
    /\ provPtr' = applying[a].prov
    /\ \/ /\ storePtr # NoStore
          /\ applying' = [applying EXCEPT ![a] = Idle]
       \/ applying' = [applying EXCEPT ![a] = At("store", NoProvider)]
    /\ UNCHANGED <<cfgPtr, storePtr>>

StoreStore(a, store) ==
    /\ applying[a].step = "store"
    /\ store # NoStore
    /\ storePtr' = store
    /\ applying' = [applying EXCEPT ![a] = Idle]
    /\ UNCHANGED <<cfgPtr, provPtr>>

\* The process dies, and the next one starts with nil pointers.
LosePointers ==
    /\ cfgPtr' = ZeroConfig
    /\ provPtr' = NoProvider
    /\ storePtr' = NoStore
    /\ applying' = [a \in Appliers |-> Idle]

\* The step of application a, with what it stores read off the step itself.
Apply(a) ==
    \/ StoreConfig(a, cfgPtr', applying'[a].prov)
    \/ StoreProvider(a)
    \/ StoreStore(a, storePtr')

\* Most steps of an implementation change none of this.
PointersNext ==
    \/ UNCHANGED pointers
    \/ \E a \in Appliers : Apply(a)
    \/ LosePointers

PointersSpec == PointersInit /\ [][PointersNext]_pointers

=============================================================================
