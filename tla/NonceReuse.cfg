\* A callback checked in time, whose nonce row expires before it consumes it.
SPECIFICATION Spec
CONSTANTS
    Flows = {f1}
    Codes = {k1}
    Calls = {c1, c2}
    Providers = {"idp1"}
    Registration <- MCRegistration
    NoProvider = "none"
    NoStore = NoStore
    Databases = {d1}
    Appliers = {a1}
    Configs <- OneConfig
    States = {"s1"}
    Redirects = {"r1"}
    IdClaims <- OneUser
    UserInfos <- NoneAnswers
    NoUserInfo = NoUserInfo
    Drops <- NothingDropped
    IdPChecks = {"code_verifier", "redirect_uri"}
    stateTTL = 1
    Skew = 0
    MaxClock = 2
    None = None
    HasSubstring <- MCHasSubstring
    HasPrefix <- MCHasPrefix
    Compiles <- MCCompiles
    MatchString <- MCMatchString
    Sprint <- MCSprint
CHECK_DEADLOCK FALSE
INVARIANT ConsumedOnce
