\* Overlapping callbacks of one flow, with pruning, failures and restarts.
SPECIFICATION Spec
CONSTANTS
    Flows = {f1}
    Codes = {k1}
    Calls = {c1, c2}
    Providers = {"idp1"}
    Registration <- MCRegistration
    NoProvider = "none"
    NoStore = NoStore
    Databases = {d1, d2}
    Appliers = {a1}
    Configs <- OneConfig
    States = {"s1"}
    Redirects = {"r1"}
    IdClaims <- OneUser
    UserInfos <- NoneAnswers
    NoUserInfo = NoUserInfo
    Drops <- StampOptional
    IdPChecks = {"code_verifier", "redirect_uri"}
    stateTTL = 1
    Skew = 0
    MaxClock = 2
    None = None
    HasSubstring <- MCHasSubstring
    HasPrefix <- MCHasPrefix
    Compiles <- MCCompiles
    MatchString <- MCMatchString
    Sprint <- MCSprint
SYMMETRY ReplaySymmetry
CHECK_DEADLOCK FALSE
INVARIANTS
    TypeOK
    AtMostOnceInWindow
    ReplayVerdictSound
PROPERTY ImplementsLoginService
