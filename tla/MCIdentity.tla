----------------------------- MODULE MCIdentity -----------------------------
EXTENDS Identity, TLC

\* Operations that meet in one behaviour, and the facts it starts from: sessions
\* of Root and User ("session", "usersession"), the account User ("user"), a
\* passkey ("keyed"), passwords just verified ("halfway"), an outdated hash
\* ("rehash"), a linked identity ("linked"), an unverified address ("mailed").
MCMixes == {
    {"password", "totp", "time"},
    {"password", "recovery"},
    {"totp", "recovery", "halfway", "time"},
    {"password", "rehash", "setpw", "session"},
    {"totp", "reenroll", "halfway", "session"},
    {"sudo", "session", "time"},
    {"sudo", "session", "keyed"},
    {"sudo", "logout", "rehash", "session"},
    {"regenerate", "totpenroll", "session", "crash"},
    {"keys", "fallbacks", "session", "linked", "time"},
    {"keys", "passkey", "logout", "session"},
    {"emailcode", "session", "mailed", "time"},
    {"emails", "emailcode", "session", "mailed"},
    {"emails", "adminemails", "session", "user", "usersession"},
    {"enroll-admin", "enroll", "time"},
    {"invite", "enroll", "session", "time", "crash"},
    {"invite", "enrollpt", "session"},
    {"reissue", "enroll", "disable", "session", "user", "usersession"},
    {"fedlogin", "leases", "time", "crash"},
    {"fedlogin", "leases", "linked"},
    {"fedlogin", "linked", "mailed"},
    {"fedlogin", "idpdelete", "session", "linked"},
    {"fedlogin", "idpupdate", "session"},
    {"fedlogin", "idpnew", "idpdisable", "session"},
    {"fedlogin", "disable", "session", "linked", "user"},
    {"fedlink", "keys", "session", "linked"},
    {"fedinvite", "invite", "enroll", "session"},
    {"fedinvite", "invite", "idpupdate", "session"},
    {"fedinvite", "invite", "idpdelete", "session"},
    {"update", "disable", "session", "user", "usersession"},
    {"update", "delete", "session", "user", "usersession"},
    {"delete", "disable", "session", "user", "usersession"},
    {"disable", "passkey", "session", "user", "keyed"},
    {"disable", "totp", "recovery", "halfway", "session", "user"},
    {"maintenance", "totp", "recovery", "halfway", "session", "user"},
    {"maintenance", "passkey", "session", "user", "keyed"},
    {"maintenance", "fedlogin", "session"},
    {"maintenance", "reissue", "enrollpt", "session", "user"},
    {"credentials", "sessions", "keys", "session", "user", "usersession"}}

MCLinkOnlyMixes == {{"fedinvite", "invite", "idpupdate", "session"}}

\* Two failures lock a factor for longer than the instance runs.
MCSchedule == <<0, 2>>
MCSymmetry == Permutations(Procs) \cup Permutations(Tokens) \cup Permutations(Flows)
=============================================================================
