\* Two tabs, edited and saved at any time, over calls that fail.
SPECIFICATION Spec
CONSTANTS
    Tabs = {t1, t2}
    Names = {"oidc", " corp"}
    Trim <- MCTrim
    Rests = {"open", "bad"}
    Refused = {"bad"}
    Secrets = {"s1", "s2"}
    Installation = 1
    DefaultName = "oidc"
    DefaultRest = "open"
    MaxEdits = 2
    None = None
INVARIANTS
    TypeOK
    BindingWasStored
    SavedMeansAgreed
PROPERTIES
    SecretResentOnlyAfterError
    HostCatchesUp
