----------------------------- MODULE Directory -----------------------------
(***************************************************************************)
(* The PostgreSQL tables behind accounts and their sign-in methods, and    *)
(* the frame every request handler runs in.  A handler is a sequence of    *)
(* steps of a request (pc, loc); one SQL statement, one transaction that   *)
(* holds the account row FOR UPDATE, or one KV call is one step.  Reads    *)
(* that nothing can separate observably from the next step share it.       *)
(***************************************************************************)
EXTENDS Integers, FiniteSets, Kv

CONSTANTS
    Accounts,     \* account ids
    Procs,        \* concurrently served requests
    None,         \* no account, password, token...
    Mixes,        \* sets of operations: a behaviour performs those of one mix
    Passwords,    \* plaintext passwords
    MaxSecret,    \* authenticator secrets are 1..MaxSecret
    MaxCode,      \* recovery-code rows are 1..MaxCode
    Creds,        \* WebAuthn credential ids
    Idps,         \* upstream identity providers
    Subs,         \* upstream identities: an issuer and a subject there
    MaxSid,       \* session ids are 1..MaxSid
    SudoTTL,      \* lifetime of a sudo grant
    MaxClock      \* bound of the explored instance

\* "None" is no request (a statement outside a request waits for everybody's lock), no
\* account and no instant.
ASSUME DirectoryAssumption == None \notin Procs \cup Accounts /\ None \notin Int /\ MaxSid \in Nat

VARIABLES
    clock,     \* wall clock, in TOTP periods
    ops,       \* the mix of operations of this behaviour
    maint,     \* maintenance mode, as the settings cache shows it
    acct,      \* account: on (the row exists), gone (deleted), admin, dis
    sess,      \* sessions: account, live, sudoUntil, issuedAt, out (history:
               \* may outlive the disabling or deletion of its account)
    pw,        \* password_credential: the password hashed, old parameters?
    totp,      \* totp_credential: sec (0: no row), last_step
    codes,     \* recovery_code: unused rows per account
    nextCode,  \* the next recovery-code row id
    keys,      \* webauthn_credential: owner, sign_count, clone_warning
    idps,      \* upstream_idp: on (the row exists), gone (deleted), dis, signIn, mode
    links,     \* account_identity: provider, subject, account, confirmed
    pc, loc    \* control state and local variables of each request

factors == <<pw, totp, codes, nextCode, keys>>
federated == <<idps, links>>
frame == <<pc, loc>>
tables == <<clock, ops, maint, acct, sess, factors, federated>>
directory == <<tables, frame>>

Secrets == 1..MaxSecret
Sids == 1..MaxSid
Owners == Accounts \cup {None}
NoSession == [a |-> None, live |-> FALSE, sudo |-> 0, at |-> 0, out |-> FALSE]
NoAccount == [on |-> FALSE, gone |-> FALSE, admin |-> FALSE, dis |-> FALSE]
NoIdp == [on |-> FALSE, gone |-> FALSE, dis |-> FALSE, signIn |-> FALSE, mode |-> "link_only"]
Modes == {"auto_provision", "invite_only", "link_only"}
NoPw == [val |-> None, old |-> FALSE]
NoTotp == [sec |-> 0, last |-> 0]
NoCode == [sec |-> 0, step |-> 0]

-----------------------------------------------------------------------------
(* Requests                                                                  *)

Goto(p, label) == pc' = [pc EXCEPT ![p] = label]
Set(p, l) == loc' = [loc EXCEPT ![p] = l]

\* A request starts; in a mix called solo requests are served one after the other.
Idle(p, op) ==
    /\ pc[p] = "idle" /\ op \in ops
    /\ "solo" \in ops => \A q \in Procs : pc[q] = "idle"

\* Sign-in is refused to everybody but admins during maintenance.
MaintenanceLockout(a) == maint /\ ~(acct[a].on /\ acct[a].admin)

\* The session middleware and the maintenance gate: the session is live, its
\* account exists, is enabled and not locked out.
Caller(s) ==
    /\ sess[s].live
    /\ acct[sess[s].a].on /\ ~acct[sess[s].a].dis
    /\ ~MaintenanceLockout(sess[s].a)

\* hasFreshSudo: an explicit grant, or a sign-in young enough to count as one.
HasFreshSudo(s) == clock < sess[s].sudo \/ clock - sess[s].at < SudoTTL

IsAdmin(s) == Caller(s) /\ acct[sess[s].a].admin

\* Routes of the account itself behind fresh sudo, and routes of admins.
Me(s, op) == op \in ops /\ Caller(s) /\ HasFreshSudo(s)
Admin(s, op) == op \in ops /\ IsAdmin(s)

-----------------------------------------------------------------------------
(* Tables                                                                    *)

Enabled(a) == acct[a].on /\ ~acct[a].dis

FreshSids == {s \in Sids : sess[s].a = None}
NextSid == CHOOSE s \in FreshSids : \A t \in FreshSids : s <= t

\* The row references the account: that of a deleted account cannot be inserted ...
InsertSession(s, a) ==
    IF ~acct[a].on THEN sess ELSE [sess EXCEPT ![s] =
        [a |-> a, live |-> TRUE, sudo |-> 0, at |-> clock, out |-> ~Enabled(a)]]

\* ... and SessionStore.Issue takes the KV entry back.  Guarded by the bound on sessions.
IssueSession(a) == FreshSids # {} /\ sess' = InsertSession(NextSid, a)

\* SessionStore.RevokeAllForAccount.
RevokedAll(a) ==
    [s \in Sids |-> IF sess[s].a = a THEN [sess[s] EXCEPT !.live = FALSE] ELSE sess[s]]

\* A revocation that failed, or that nobody asked for: what is live stays live.
Outlive(a) ==
    [s \in Sids |-> IF sess[s].a = a /\ sess[s].live
                    THEN [sess[s] EXCEPT !.out = TRUE] ELSE sess[s]]

KeysOf(a) == {k \in Creds : keys[k].a = a}
NoKey == [a |-> None, n |-> 0, clone |-> FALSE]
InsertCredential(a) == [NoKey EXCEPT !.a = a]

\* account_identity; one row per subject.
Linked(i, u, a, conf) == [idp |-> i, sub |-> u, a |-> a, conf |-> conf]
InsertAccountIdentity(i, u, a, conf) == links \cup {Linked(i, u, a, conf)}
DeleteAccountIdentitiesByUpstreamIDP(i) == {l \in links : l.idp # i}

\* upstream_idp
UpdateUpstreamIDPConfig(i, mode, signIn) == [idps EXCEPT ![i].mode = mode, ![i].signIn = signIn]
SetUpstreamIDPDisabled(i, dis) == [idps EXCEPT ![i].dis = dis]

\* Identities of providers that exist, are enabled and allow sign-in.
UsableSignIn(a, L) ==
    {l \in L : l.a = a /\ idps[l.idp].on /\ ~idps[l.idp].dis /\ idps[l.idp].signIn}

\* authn.AvailableMethods over given passkeys, password, authenticator, links.
MethodsOf(a, K, P, T, L) ==
    (IF K # {} THEN {"webauthn"} ELSE {})
    \cup (IF P.val # None /\ T.sec # 0 THEN {"password_totp"} ELSE {})
    \cup (IF UsableSignIn(a, L) # {} THEN {"federation_oidc"} ELSE {})

AvailableMethods(a) == MethodsOf(a, KeysOf(a), pw[a], totp[a], links)

\* EnrollConfirmedForTx: the previous authenticator and all recovery codes are
\* replaced, and the code that proved the new secret is burnt.  (One row stands
\* for a batch of recovery codes.)
EnrollConfirmed(a, sec, step) ==
    /\ nextCode <= MaxCode
    /\ totp' = [totp EXCEPT ![a] = [sec |-> sec, last |-> step]]
    /\ codes' = [codes EXCEPT ![a] = {nextCode}]
    /\ nextCode' = nextCode + 1
=============================================================================
