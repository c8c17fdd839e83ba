\* Two PATCHes that overlap after one Configure.
SPECIFICATION Spec
CONSTANTS
    Configures = {c1}
    Patches = {p1, p2}
    Entries <- HostEntries
    Bodies <- AdminBodies
    None = None
    IssuerURLs = {"https://a", "https://b"}
    OpenIDScopes = {"openid profile email"}
    Icons = {"generic-key.svg"}
    Segments = {"groups"}
    HasSubstring <- MCHasSubstring
    HasPrefix <- MCHasPrefix
    Compiles <- MCCompiles
    MatchString <- MCMatchString
    Sprint <- MCSprint
SYMMETRY OpSymmetry
CHECK_DEADLOCK FALSE
INVARIANTS
    SavedIsLive
