SPECIFICATION Spec
SYMMETRY MCSymmetry
CHECK_DEADLOCK FALSE
CONSTANTS
    Procs = {p1, p2}
    Accounts = {a1, a2}
    Root = a1
    User = a2
    None = None
    Mixes <- MCMixes
    Passwords = {w1}
    MaxSecret = 1
    MaxCode = 1
    Creds = {k1}
    Idps = {i1}
    Idp = i1
    Subs = {u1}
    MaxSid = 3
    SudoTTL = 4
    MaxClock = 3
    OidcApps = {o1}
    FaApps = {f1}
    SamlApps = {q1}
    Scopes = {i1}
    Groups = {g1, g2}
    Conditions <- MCConditions
    MaxRuleDepth = 2
    MaxRuleNodes = 3
    MaxRuleChildren = 2
    MaxNonce = 3
    Visitors = {a2}
    Ages = {0}
    TicketTTL = 2
    AuthCodeTTL = 1
    Requests = {r1}
    Skews = {0, 1, None}
    AuthnRequestTTL = 1
    Pats = {t1}
    PatTTL = 1
    FaTTL = 4
    StateTTL = 2
    Kids = {j1, j2}
    Caches = {c1, c2}
    KeyTTL = 1
    TokenTTL = 1
    Grace = 2
INVARIANTS
    IssuedOnGrounds
    SpentOnce
    ConsentHolds
    KeysServe
    SignedOutStaysOut
    ManagersInScope
