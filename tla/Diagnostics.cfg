\* Two requests of any read-only kind beside a reconfiguration.
SPECIFICATION Spec
CONSTANTS
    Requests = {r1, r2}
    Inputs <- AllInputs
    Issuers = {"idp.example", "localhost"}
    Localhosts = {"localhost"}
    Addresses = {"unblocked", "loopback", "private"}
    JwksURIs <- Uris
    WebFS <- Page
    AssetsFS <- Icons
    Keys = {"192.0.2.1", "10.1.1.1"}
    Burst = 1
    MaxHops = 1
    Appliers = {a1}
    NoProvider = "none"
    NoStore = NoStore
    None = None
INVARIANTS
    TypeOK
    OnlyAllowedReached
PROPERTIES
    OutsidersSpendNothing
    EveryRequestAnswered
