SPECIFICATION Spec
CHECK_DEADLOCK FALSE
SYMMETRY MCSymmetry
CONSTANTS
    Procs = {p1, p2}
    None = None
    Mixes <- MCMaintenanceMixes
    MaxClock = 3
    StartRows <- MCStartRows
    MaxRow = 5
    Texts = {"x", "y"}
    Parents = {"a", "b"}
    Rules = {"r1", "r2"}
    Sizes = {0, 1, 9}
    DefaultLimit = 2
    MaxLimit = 3
    CursorTTL = 1
    MaxChange = 1
    MaxSeen = 6
    Admins = {ad}
    Challenges = {ch}
    MaxProvider = 2
    MaxLogin = 2
    MaxSeal = 3
    ChallengeTTL = 2
    Retries = {1, 2}
    Batches = {"u", "b", "x"}
    MapOf <- MCMapOf
    Pictures = {"i1", "i2"}
    FreshFor <- MCFreshFor
    RetryAfter = 1
    PruneAfter = 1
    MaxImages = 1
    Names = {"n"}
    KeyedSources = {"unsplash", "pixabay"}
    MaxLoginImages = 1
    MaxImageId = 2
    Upstreams = {"up1", "up2"}
    Shots = {1, 2}
    MaxPick = 2
    Urls <- MCUrls
    MaxRedirects = 3
    AllConfigs <- MCAllConfigs
    AllDocuments <- MCAllDocuments
    Configs <- MCConfigs
    Documents <- MCDocuments
    Testers = {"a", "b"}
    DiagnosticTTL = 2
    ClientCacheTTL = 1
    MaxVersion = 2
    MaxBegun = 2
    Holders = {a1, a2}
    Rps = {c1, c2}
    Jtis = {t1, t2}
    Usernames = {n1, n2, n3}
    Addresses = {e1, e2}
    Grants <- MCGrants
    AliasSets <- MCAliasSets
    MaxSecret = 3
    TokenTTL = 2
    PreviousWindow = 1
INVARIANT
    MaintenanceHolds
