\* Two flows and a code presented in any combination, to any provider, by any
\* user, under any configuration, the one after a rotated secret among them.
SPECIFICATION Spec
CONSTANTS
    Flows = {f1, f2}
    Codes = {k1}
    Calls = {c1}
    Providers = {"idp1", "idp1-rotated", "idp2"}
    Registration <- MCRegistration
    NoProvider = "none"
    NoStore = NoStore
    Databases = {d1}
    Appliers = {a1}
    Configs <- Rotated
    States = {"", "s1"}
    Redirects = {"r1"}
    IdClaims <- AllUsers
    UserInfos <- SomeAnswers
    NoUserInfo = NoUserInfo
    Drops <- NothingDropped
    IdPChecks = {}
    stateTTL = 1
    Skew = 0
    MaxClock = 0
    None = None
    HasSubstring <- MCHasSubstring
    HasPrefix <- MCHasPrefix
    Compiles <- MCCompiles
    MatchString <- MCMatchString
    Sprint <- MCSprint
SYMMETRY FlowSymmetry
CHECK_DEADLOCK FALSE
INVARIANTS
    AcceptedLoginIsBound
    EmailGateIsSigned
PROPERTY SimulatorForetells
