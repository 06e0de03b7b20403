---------------------------- MODULE AccountAdmin ----------------------------
(***************************************************************************)
(* Administration of accounts (handle_account.go): role and disabled flag, *)
(* deletion, revocation of credentials and sessions, maintenance mode.     *)
(* The middleware re-reads the caller for every request, but not again     *)
(* between the steps of one.                                               *)
(***************************************************************************)
EXTENDS Federation

CONSTANT
    CountLocks  \* does the database accept COUNT(*) ... FOR UPDATE?  (PostgreSQL
                \* does not: the statement fails and so does the request.)

ASSUME CountLocksAssumption == CountLocks \in BOOLEAN

VARIABLE
    raced  \* history: accounts whose role changed between the two statements of
           \* a set-disabled request

\* What only a deletion touches.
upper == <<emailVars, enrollVars>>

AdminPcs == {"disWrite", "delCheck", "revokeAll"}

ActiveAdmins == {a \in Accounts : Enabled(a) /\ acct[a].admin}

\* CountActiveAdminsForUpdate and the check of what it returned.
RemovableAdminUnguarded == TRUE
RemovableAdmin == CountLocks /\ Cardinality(ActiveAdmins) > 1

RevokeAllNext(p, a) == Set(p, [op |-> "revokeAll", a |-> a]) /\ Goto(p, "revokeAll")

\* PUT /accounts: one transaction under the account's row lock.  Changing the role
\* needs fresh sudo; the sessions of a freshly disabled account are revoked after
\* the commit.
UpdateAccount(p, s, a, admin, dis) ==
    LET cur == acct[a]
        removing == cur.admin /\ ~cur.dis /\ (~admin \/ dis)
    IN  /\ Idle(p, "update") /\ Admin(s, "update") /\ cur.on
        /\ ~(admin /\ dis)
        /\ admin # cur.admin => HasFreshSudo(s)
        /\ removing => RemovableAdmin
        /\ acct' = [acct EXCEPT ![a].admin = admin, ![a].dis = dis]
        /\ IF ~cur.dis /\ dis THEN RevokeAllNext(p, a) ELSE UNCHANGED frame
        /\ UNCHANGED <<clock, ops, maint, sess, factors, federated, upper, raced>>

\* POST /accounts/set-disabled reads the row, ...
SetDisabledRead(p, s, a, dis) ==
    /\ Idle(p, "disable") /\ Admin(s, "disable") /\ acct[a].on
    /\ ~(dis /\ acct[a].admin)
    /\ Set(p, [op |-> "disable", a |-> a, dis |-> dis, was |-> acct[a].dis, admin |-> acct[a].admin])
    /\ Goto(p, "disWrite")
    /\ UNCHANGED <<tables, upper, raced>>

\* ... and writes the flag by a second statement, whatever the row says by then.
\* (A row that was disabled when it was read is not taken for freshly disabled.)
RevokesSkipped(p) == FALSE
Revokes(p) == loc[p].dis /\ ~loc[p].was

SetDisabledWrite(p) ==
    LET a == loc[p].a
    IN  /\ pc[p] = "disWrite"
        /\ acct' = IF acct[a].on THEN [acct EXCEPT ![a].dis = loc[p].dis] ELSE acct
        /\ raced' = IF acct[a].admin # loc[p].admin THEN raced \cup {a} ELSE raced
        /\ sess' = IF loc[p].dis /\ loc[p].was /\ Enabled(a) THEN Outlive(a) ELSE sess
        /\ IF acct[a].on /\ Revokes(p) THEN RevokeAllNext(p, a) ELSE Finish(p)
        /\ UNCHANGED <<clock, ops, maint, factors, federated, upper>>

\* RevokeAllForAccount after the commit; its error is dropped.
RevokeAll(p) ==
    /\ pc[p] = "revokeAll"
    /\ sess' = RevokedAll(loc[p].a)
    /\ Finish(p)
    /\ UNCHANGED <<clock, ops, maint, acct, factors, federated, upper, raced>>

RevokeAllFails(p) ==
    /\ pc[p] = "revokeAll"
    /\ sess' = Outlive(loc[p].a)
    /\ Finish(p)
    /\ UNCHANGED <<clock, ops, maint, acct, factors, federated, upper, raced>>

\* DELETE /accounts: the row is read without a lock ...
DeleteAccountRead(p, s, a) ==
    /\ Idle(p, "delete") /\ Admin(s, "delete") /\ HasFreshSudo(s)
    /\ acct[a].on /\ a # sess[s].a
    /\ acct[a].admin /\ ~acct[a].dis => RemovableAdmin
    /\ Set(p, [op |-> "delete", a |-> a])
    /\ Goto(p, "delCheck")
    /\ UNCHANGED <<tables, upper, raced>>

\* ... and deleted with everything that references it.
Cascade(a) ==
    /\ acct' = [acct EXCEPT ![a] = [NoAccount EXCEPT !.gone = TRUE]]
    /\ pw' = [pw EXCEPT ![a] = NoPw] /\ totp' = [totp EXCEPT ![a] = NoTotp]
    /\ codes' = [codes EXCEPT ![a] = {}] /\ links' = {l \in links : l.a # a}
    /\ keys' = [k \in Creds |-> IF keys[k].a = a THEN NoKey ELSE keys[k]]
    /\ mail' = [m \in Mails |-> IF mail[m].a = a THEN NoMail ELSE mail[m]]
    /\ prim' = [prim EXCEPT ![a] = 0]
    /\ inv' = [t \in Invites |-> IF inv[t].a = a THEN [NoInvite EXCEPT !.st = "gone"] ELSE inv[t]]

DeleteAccount(p) ==
    /\ pc[p] = "delCheck"
    /\ IF acct[loc[p].a].on THEN Cascade(loc[p].a)
       ELSE UNCHANGED <<acct, pw, totp, codes, links, keys, mail, prim, inv>>
    /\ RevokeAllNext(p, loc[p].a)
    /\ UNCHANGED <<clock, ops, maint, sess, nextCode, idps, nextMail, codeVars, enrolling,
                   enrollHistory, raced>>

\* Any passkey, the last one too.
DeleteAccountCredential(s, k) ==
    /\ Admin(s, "credentials") /\ keys[k].a # None
    /\ keys' = [keys EXCEPT ![k] = NoKey]
    /\ UNCHANGED <<clock, ops, maint, acct, sess, pw, totp, codes, nextCode, federated, frame, upper,
                   raced>>

RevokeAccountSessions(s, a) ==
    /\ Admin(s, "sessions") /\ acct[a].on
    /\ sess' = RevokedAll(a)
    /\ UNCHANGED <<clock, ops, maint, acct, factors, federated, frame, upper, raced>>

RevokeAccountSession(s, t) ==
    /\ Admin(s, "sessions") /\ sess[t].live /\ acct[sess[t].a].on
    /\ EndSession(t)
    /\ UNCHANGED <<clock, ops, maint, acct, factors, federated, frame, upper, raced>>

\* An admin has changed the settings row.  The servers go by their caches of it, which may
\* show the change late, or the old value again (Settings): it shows at any instant.
MaintenanceShows ==
    /\ "maintenance" \in ops
    /\ maint' = ~maint
    /\ UNCHANGED <<clock, ops, acct, sess, factors, federated, frame, upper, raced>>

AdminStep(p, s) ==
    \/ \E a \in Accounts, admin, dis \in BOOLEAN : UpdateAccount(p, s, a, admin, dis)
    \/ \E a \in Accounts, dis \in BOOLEAN : SetDisabledRead(p, s, a, dis)
    \/ \E a \in Accounts : DeleteAccountRead(p, s, a)

AccountAdminNext ==
    /\ \/ \E p \in Procs, s \in Sids : AdminStep(p, s)
       \/ \E p \in Procs : SetDisabledWrite(p) \/ RevokeAll(p) \/ RevokeAllFails(p)
                           \/ DeleteAccount(p)
       \/ \E s \in Sids, k \in Creds : DeleteAccountCredential(s, k)
       \/ \E s \in Sids, a \in Accounts : RevokeAccountSessions(s, a)
       \/ \E s, t \in Sids : RevokeAccountSession(s, t)
       \/ MaintenanceShows
    /\ UNCHANGED <<signInVars, fedVars>>
=============================================================================
