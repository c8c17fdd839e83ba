\* One admin on the discovery panel.
SPECIFICATION Spec
CONSTANTS
    Requests = {r1}
    Inputs <- DiscoveryInputs
    Issuers = {"idp.example"}
    Localhosts = {"localhost"}
    Addresses = {"unblocked"}
    JwksURIs <- Uris
    WebFS <- Page
    AssetsFS <- Icons
    Keys = {"192.0.2.1"}
    Burst = 1
    MaxHops = 1
    Appliers = {a1}
    NoProvider = "none"
    NoStore = NoStore
    None = None
PROPERTY DiscoveryAnswers200
