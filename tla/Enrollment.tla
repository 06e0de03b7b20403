----------------------------- MODULE Enrollment -----------------------------
(***************************************************************************)
(* Enrollment tokens: bootstrap of an admin, invitations, credential       *)
(* resets (pkg/credential/enrollment, handle_enrollment.go,                *)
(* handle_enrollment_password_totp.go, enrollment_identity.go, and the     *)
(* enroll-admin command).  A redemption reads the token, then consumes it  *)
(* in the transaction that creates or resets the account; whatever fails   *)
(* in there rolls the consumption back.  An account id stands for its      *)
(* username, which is unique.                                              *)
(***************************************************************************)
EXTENDS Emails

CONSTANTS
    Invites,       \* enrollment tokens
    EnrollmentTTL  \* their lifetime

VARIABLES
    inv,       \* enrollment rows
    enrolling, \* KV webauthn_ceremony:enroll:<token>: the proposed account
    yields,    \* history: redemptions of a token
    withdrawn, \* history: invitations revoked before they were redeemed
    unbound    \* history: accounts created from an invitation bound to a
               \* provider without an identity there

enrollVars == <<inv, enrolling, yields, withdrawn, unbound>>
enrollHistory == <<yields, withdrawn, unbound>>

\* idp: the provider the invitation is bound to; local: it requires a local
\* credential; snap: the verified upstream identity attached to it.
NoInvite == [st |-> "free", intent |-> "none", a |-> None, admin |-> FALSE, idp |-> None,
             local |-> FALSE, snap |-> None, until |-> 0]

EnrollPcs == {"enrollTx", "enrollPtTx", "enrollRevoke", "enrollIssue"}

EnrollInit ==
    /\ inv = [t \in Invites |-> NoInvite]
    /\ enrolling = [t \in Invites |-> NoEntry]
    /\ yields = [t \in Invites |-> 0] /\ withdrawn = {} /\ unbound = {}

-----------------------------------------------------------------------------
(* Issuing                                                                   *)

IssueEnrollment(t, row) ==
    /\ inv[t].st = "free"
    /\ inv' = [inv EXCEPT ![t] = [row EXCEPT !.st = "open", !.until = clock + EnrollmentTTL]]
    /\ UNCHANGED <<directory, enrolling, enrollHistory>>

\* The command: --reset of an admin, --new, or the first admin.
EnrollAdmin(t, a, new) ==
    /\ "enroll-admin" \in ops
    /\ IF a = None
       THEN /\ new \/ ~HasAnyActiveAdmin
            /\ IssueEnrollment(t, [NoInvite EXCEPT !.intent = "bootstrap"])
       ELSE /\ acct[a].on /\ acct[a].admin
            /\ IssueEnrollment(t, [NoInvite EXCEPT !.intent = "reset", !.a = a])

ReissueEnrollment(s, t, a) ==
    /\ Admin(s, "reissue") /\ HasFreshSudo(s) /\ acct[a].on
    /\ IssueEnrollment(t, [NoInvite EXCEPT !.intent = "reset", !.a = a])

\* GetUpstreamIDPBySlug sees enabled providers only.
CreateInvitation(s, t, admin, i, local) ==
    /\ Admin(s, "invite")
    /\ i # None => idps[i].on /\ ~idps[i].dis /\ idps[i].mode # "link_only"
    /\ IssueEnrollment(t, [NoInvite EXCEPT !.intent = "invite", !.admin = admin, !.idp = i,
                              !.local = local \/ (i # None /\ ~idps[i].signIn)])

\* WHERE intent = 'invite' AND consumed_at IS NULL, expired or not.
InvitationRevoked(t) ==
    /\ inv[t].st = "open" /\ inv[t].intent = "invite"
    /\ inv' = [inv EXCEPT ![t].st = "spent"]

RevokeInvitation(s, t) ==
    /\ Admin(s, "invite") /\ InvitationRevoked(t)
    /\ withdrawn' = withdrawn \cup {t}
    /\ UNCHANGED <<directory, enrolling, yields, unbound>>

-----------------------------------------------------------------------------
(* Redeeming                                                                 *)

\* LoadEnrollment
Redeemable(t) == inv[t].st = "open" /\ clock <= inv[t].until

\* ConsumeEnrollment: WHERE consumed_at IS NULL AND expires_at > now().
ConsumableUnguarded(t) == clock < inv[t].until
Consumable(t) == inv[t].st = "open" /\ clock < inv[t].until

\* The same for invitations only: locked, consumed, or given an identity.
LockInviteEnrollment(t) == inv[t].intent = "invite" /\ Consumable(t)
ConsumeInviteEnrollment(t) == [inv EXCEPT ![t].st = "spent"]
AttachedInviteIdentity(t, i, u) == [inv EXCEPT ![t].snap = [idp |-> i, sub |-> u]]

\* A bound invitation is redeemable locally only after the identity is attached.
BindingIgnored(t) == TRUE
BindingHonoured(t) ==
    inv[t].intent = "invite" /\ inv[t].idp # None =>
        inv[t].snap # None /\ inv[t].snap.idp = inv[t].idp

\* The account a redemption is about: a free username, or the target of a reset.
Proposal(t, a) ==
    IF inv[t].intent = "reset" THEN a = inv[t].a /\ Enabled(a)
    ELSE ~acct[a].on /\ ~acct[a].gone

EnrollmentBegin(t, a) ==
    /\ "enroll" \in ops /\ Redeemable(t) /\ BindingHonoured(t) /\ Proposal(t, a)
    /\ enrolling' = SetEx(enrolling, t, a, CeremonyTTL, clock)
    /\ UNCHANGED <<directory, inv, enrollHistory>>

EnrollmentComplete(p, t, k) ==
    /\ Idle(p, "enroll") /\ Redeemable(t) /\ Found(enrolling, t, clock) /\ keys[k].a = None
    /\ Set(p, [op |-> "enroll", t |-> t, a |-> enrolling[t].val, k |-> k])
    /\ Goto(p, "enrollTx")
    /\ UNCHANGED <<tables, enrollVars>>

PasswordTotpVerify(p, t, a, v, c) ==
    /\ Idle(p, "enrollpt") /\ Redeemable(t) /\ inv[t].intent # "bootstrap"
    /\ BindingHonoured(t) /\ Proposal(t, a) /\ c.sec # 0 /\ Matches(c, c.sec)
    /\ Set(p, [op |-> "enroll", t |-> t, a |-> a, pwd |-> v, code |-> c])
    /\ Goto(p, "enrollPtTx")
    /\ UNCHANGED <<tables, enrollVars>>

\* recheckInviteIdentityProvider and the unique (issuer, subject): the identity
\* attached to the invitation becomes the new account's.
SnapshotUsable(x) ==
    /\ idps[x.idp].on /\ ~idps[x.idp].dis /\ idps[x.idp].mode # "link_only"
    /\ ~\E l \in links : l.sub = x.sub

InsertInviteIdentity(x, a) == InsertAccountIdentity(x.idp, x.sub, a, TRUE)

InsertAccount(a, admin) ==
    acct' = [acct EXCEPT ![a] = [NoAccount EXCEPT !.on = TRUE, !.admin = admin]]

\* History: a, when t is bound to a provider where a has no identity among L.
Unbound(t, a, L) ==
    IF inv[t].idp = None \/ \E l \in L : l.a = a /\ l.idp = inv[t].idp THEN {} ELSE {a}

\* What the redemptions share: consume the token and create or reset the account.
Redeem(p) ==
    LET t == loc[p].t
        a == loc[p].a
        row == inv[t]
        reset == row.intent = "reset"
    IN  /\ Consumable(t) /\ BindingHonoured(t) /\ Proposal(t, a)
        /\ row.snap # None => SnapshotUsable(row.snap)
        /\ inv' = [inv EXCEPT ![t].st = "spent"]
        /\ yields' = [yields EXCEPT ![t] = @ + 1]
        /\ IF reset THEN UNCHANGED acct ELSE InsertAccount(a, row.intent = "bootstrap" \/ row.admin)
        /\ links' = IF row.snap = None THEN links ELSE InsertInviteIdentity(row.snap, a)
        /\ unbound' = unbound \cup Unbound(t, a, links')
        /\ Set(p, [op |-> "enroll", t |-> t, a |-> a, reset |-> reset, key |-> pc[p] = "enrollTx"])
        /\ Goto(p, "enrollRevoke")
        /\ UNCHANGED <<clock, ops, maint, sess, idps, enrolling, withdrawn>>

\* A reset replaces every passkey; the password and the authenticator stay.
EnrollWithPasskey(p) ==
    /\ pc[p] = "enrollTx" /\ Redeem(p) /\ keys[loc[p].k].a = None
    /\ keys' = [k \in Creds |->
                   CASE k = loc[p].k -> InsertCredential(loc[p].a)
                     [] keys[k].a = loc[p].a /\ k # loc[p].k -> NoKey
                     [] OTHER -> keys[k]]
    /\ UNCHANGED <<pw, totp, codes, nextCode, signInVars>>

EnrollWithPassword(p) ==
    /\ pc[p] = "enrollPtTx" /\ Redeem(p)
    /\ keys' = [k \in Creds |-> IF keys[k].a = loc[p].a THEN NoKey ELSE keys[k]]
    /\ SetPassword(loc[p].a, loc[p].pwd)
    /\ NewAuthenticator(loc[p].a, loc[p].code)
    /\ UNCHANGED <<throttle, stashes, spent, redeemed, owed, overrun>>

\* After the commit: the passkey ceremony goes, and so do the old sessions of a
\* reset account, unless their revocation fails.
EnrollRevokes(p, fails) ==
    /\ pc[p] = "enrollRevoke"
    /\ enrolling' = IF loc[p].key THEN Del(enrolling, loc[p].t) ELSE enrolling
    /\ sess' = IF ~loc[p].reset THEN sess
               ELSE IF fails THEN Outlive(loc[p].a) ELSE RevokedAll(loc[p].a)
    /\ Goto(p, "enrollIssue") /\ UNCHANGED loc
    /\ UNCHANGED <<clock, ops, maint, acct, factors, federated, inv, enrollHistory>>

EnrollSignsIn(p) ==
    /\ pc[p] = "enrollIssue"
    /\ IF MaintenanceLockout(loc[p].a) THEN UNCHANGED sess ELSE IssueSession(loc[p].a)
    /\ Finish(p)
    /\ UNCHANGED <<clock, ops, maint, acct, factors, federated, enrollVars>>

EnrollIssueStep(t) ==
    \/ \E a \in Owners, new \in BOOLEAN : EnrollAdmin(t, a, new)
    \/ \E s \in Sids : RevokeInvitation(s, t)
    \/ \E s \in Sids, a \in Accounts : ReissueEnrollment(s, t, a)
    \/ \E s \in Sids, admin, local \in BOOLEAN, i \in Idps \cup {None} :
        CreateInvitation(s, t, admin, i, local)
    \/ \E a \in Accounts : EnrollmentBegin(t, a)

EnrollReadStep(p, t) ==
    \/ \E k \in Creds : EnrollmentComplete(p, t, k)
    \/ \E a \in Accounts, v \in Passwords, c \in Codes : PasswordTotpVerify(p, t, a, v, c)

EnrollNext ==
    /\ \/ \E t \in Invites : EnrollIssueStep(t) /\ UNCHANGED signInVars
       \/ \E p \in Procs, t \in Invites : EnrollReadStep(p, t) /\ UNCHANGED signInVars
       \/ \E p \in Procs : EnrollWithPasskey(p) \/ EnrollWithPassword(p)
       \/ \E p \in Procs, fails \in BOOLEAN : EnrollRevokes(p, fails) /\ UNCHANGED signInVars
       \/ \E p \in Procs : EnrollSignsIn(p) /\ UNCHANGED signInVars
    /\ UNCHANGED emailVars
=============================================================================
