SPECIFICATION Spec
SYMMETRY MCSymmetry
CHECK_DEADLOCK FALSE
CONSTANTS
    Procs = {p1, p2}
    Accounts = {a1, a2}
    Root = a1
    User = a2
    None = None
    Mixes <- MCMixes
    Passwords = {w1, w2}
    MaxSecret = 2
    MaxCode = 3
    Creds = {k1, k2}
    Idps = {i1, i2}
    Idp = i1
    LocalIdps = {i2}
    Subs = {u1, u2}
    MaxSid = 3
    SudoTTL = 1
    MaxClock = 3
    Tokens = {t1, t2}
    Drift = 1
    Schedule <- MCSchedule
    CeremonyTTL = 1
    MaxBegun = 1
    MaxSign = 1
    Addresses = {d1, d2}
    MaxMail = 3
    MaxPerAccount = 2
    CodeTTL = 1
    MaxCodeAttempts = 2
    MaxIssued = 2
    Invites = {e1}
    EnrollmentTTL = 2
    Flows = {f1, f2}
    StateTTL = 1
    GrantTTL = 1
    CountLocks = FALSE
INVARIANTS
    ProofsSpentOnce
    GuessesBounded
    MethodRemains
    OnlyRehashRevives
    
    ActiveAdminRemains
    IdentitiesBound
    PrimaryFollows
