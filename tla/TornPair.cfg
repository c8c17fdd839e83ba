\* A login between the two stores of applyConfig.
SPECIFICATION Spec
CONSTANTS
    Flows = {f1}
    Codes = {k1}
    Calls = {c1}
    Providers = {"idp1", "idp2"}
    Registration <- MCRegistration
    NoProvider = "none"
    NoStore = NoStore
    Databases = {d1}
    Appliers = {a1, a2}
    Configs <- TwoConfigs
    States = {"s1"}
    Redirects = {"r1"}
    IdClaims <- OneUser
    UserInfos <- NoneAnswers
    NoUserInfo = NoUserInfo
    Drops <- StampOptional
    IdPChecks = {"code_verifier", "redirect_uri"}
    stateTTL = 1
    Skew = 0
    MaxClock = 0
    None = None
    HasSubstring <- MCHasSubstring
    HasPrefix <- MCHasPrefix
    Compiles <- MCCompiles
    MatchString <- MCMatchString
    Sprint <- MCSprint
CHECK_DEADLOCK FALSE
INVARIANT GatesMatchProvider
