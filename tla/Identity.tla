------------------------------ MODULE Identity ------------------------------
(***************************************************************************)
(* The identity core as a whole: sign-in, factors, e-mail, enrollment,     *)
(* federation and administration act on the same tables, interleaved step  *)
(* by step.  A behaviour performs the operations of one mix.               *)
(***************************************************************************)
EXTENDS AccountAdmin

CONSTANTS
    Root,  \* the account that was bootstrapped: an admin
    User,  \* a second account, present from the start in some mixes
    Idp    \* the provider configured from the start

\* An instance has room for a second address row, and User has an account in the
\* mixes that start with a session of his.
ASSUME IdentityAssumption ==
    /\ Root \in Accounts /\ User \in Accounts \ {Root} /\ Idp \in Idps
    /\ MaxMail \in Nat \ {0, 1}
    /\ \A mix \in Mixes : "usersession" \in mix => "user" \in mix

\* Finitely many requests are served, "none" is nobody's password, and every
\* factor, code and row has room for one.
ASSUME LimitsAssumption ==
    /\ IsFiniteSet(Procs) /\ Procs # {}
    /\ Passwords # {} /\ None \notin Passwords
    /\ MaxSecret \in Nat \ {0} /\ MaxCode \in Nat \ {0} /\ MaxClock \in Nat
    /\ MaxCodeAttempts \in Nat \ {0} /\ MaxIssued \in Nat

vars == <<directory, signInVars, emailVars, enrollVars, fedVars, raced>>

Present(a) == a = Root \/ (a = User /\ "user" \in ops)

\* Whose passkey and verified passwords a mix starts from.
Focus == IF Present(User) THEN User ELSE Root

Init ==
    /\ clock = Drift + 1 /\ ops \in Mixes /\ maint = FALSE
    /\ acct = [a \in Accounts |-> IF Present(a)
                                  THEN [NoAccount EXCEPT !.on = TRUE, !.admin = a = Root]
                                  ELSE NoAccount]
    /\ sess = [s \in Sids |->
                 CASE s = 1 /\ "session" \in ops -> [NoSession EXCEPT !.a = Root, !.live = TRUE, !.at = clock]
                   [] s = 2 /\ "usersession" \in ops -> [NoSession EXCEPT !.a = User, !.live = TRUE, !.at = clock]
                   [] OTHER -> NoSession]
    /\ pw = [a \in Accounts |-> IF Present(a)
                                THEN [val |-> CHOOSE v \in Passwords : TRUE, old |-> "rehash" \in ops]
                                ELSE NoPw]
    /\ totp = [a \in Accounts |-> IF Present(a) THEN [sec |-> 1, last |-> 0] ELSE NoTotp]
    /\ codes = [a \in Accounts |-> IF a = Root THEN {1} ELSE {}] /\ nextCode = 2
    /\ keys = [k \in Creds |-> IF "keyed" \in ops /\ k = CHOOSE x \in Creds : TRUE
                              THEN [NoKey EXCEPT !.a = Focus] ELSE NoKey]
    /\ idps = [i \in Idps |-> IF i = Idp
                              THEN [NoIdp EXCEPT !.on = TRUE, !.signIn = TRUE, !.mode = "auto_provision"]
                              ELSE NoIdp]
    /\ links = IF "linked" \in ops THEN {Linked(Idp, CHOOSE u \in Subs : TRUE, Root, TRUE)} ELSE {}
    /\ minted = IF "halfway" \in ops THEN Tokens ELSE {}
    /\ partial = [t \in Tokens |-> IF t \in minted THEN Entry(Focus, clock + CeremonyTTL) ELSE NoEntry]
    /\ mail = [m \in Mails |-> IF m = 1 /\ "mailed" \in ops
                              THEN [NoMail EXCEPT !.a = Root, !.addr = CHOOSE d \in Addresses : TRUE]
                              ELSE NoMail]
    /\ nextMail = IF "mailed" \in ops THEN MaxMail ELSE 1
    /\ pc = [p \in Procs |-> "idle"] /\ loc = [p \in Procs |-> Blank]
    /\ SignInInit /\ EmailInit /\ EnrollInit /\ FederationInit
    /\ raced = {}

\* A request stops between two steps: a crash, a cancelled context or an error
\* of the database.  The lease it holds is left to expire.
Abort(p) ==
    /\ "crash" \in ops /\ pc[p] \notin {"idle", "revokeAll"}
    /\ Finish(p)
    /\ flowLock' = [f \in Flows |-> IF flowLock[f] = p THEN "dead" ELSE flowLock[f]]
    /\ UNCHANGED <<tables, signInVars, emailVars, enrollVars, flow, grants, begun, fedHistory, raced>>

Tick ==
    /\ "time" \in ops /\ clock < MaxClock
    /\ clock' = clock + 1
    /\ UNCHANGED <<ops, maint, acct, sess, factors, federated, frame, signInVars, emailVars,
                   enrollVars, fedVars, raced>>

Next ==
    \/ SignInNext /\ UNCHANGED <<emailVars, enrollVars, fedVars, raced>>
    \/ EmailNext /\ UNCHANGED <<enrollVars, fedVars, raced>>
    \/ EnrollNext /\ UNCHANGED <<fedVars, raced>>
    \/ FederationNext /\ UNCHANGED raced
    \/ AccountAdminNext
    \/ \E p \in Procs : Abort(p)
    \/ Tick

Spec == Init /\ [][Next]_vars

-----------------------------------------------------------------------------

\* Whatever proves an identity buys one thing once: a TOTP code of the current
\* authenticator, a recovery code, a partial session or passkey ceremony, a sudo
\* intent, an enrollment token (redeemed or withdrawn, not both), a federation
\* flow and its confirmation grant.  (totp.go:183, recovery_code.sql.go:15,
\* handle_auth_password.go:338, handle_sudo.go:229, enrollment.sql.go:124,
\* federation/service.go:399 and :492.)
ProofsSpentOnce ==
    /\ \A a \in Accounts, c \in Codes : uses[a][c] <= 1
    /\ \A c \in 1..MaxCode : spent[c] <= 1
    /\ \A t \in Tokens : redeemed[t] <= 1
    /\ \A s \in Sids : owed[s] >= 0
    /\ \A t \in Invites : yields[t] + (IF t \in withdrawn THEN 1 ELSE 0) <= 1
    /\ \A f \in Flows : completed[f] <= 1 /\ popped[f] <= 1

\* Guessing is bounded: at most the requests already past CheckLocked count a
\* failure against a locked factor (throttle.go:81 and :112 are two statements),
\* and a mailed code is compared at most MaxCodeAttempts times and accepted once
\* however its guesses interleave (codes.go:102).
GuessesBounded ==
    /\ \A x \in Accounts \X Factors : overrun[x] < Cardinality(Procs)
    /\ \A g \in 1..MaxIssued : tries[g] <= MaxCodeAttempts /\ wins[g] <= 1

\* Nobody removes his own last way in: whatever an account does to its factors
\* and links, in whatever order, it keeps a sign-in method (the last-passkey rule
\* of handle_me.go:568, flow.go:111, handle_me_identities.go:122).  Only an admin
\* may take it: by deleting passkeys and accounts, or by closing a provider.
MethodRemains ==
    ops \cap {"credentials", "delete", "idpupdate", "idpdisable", "idpdelete"} = {} =>
        \A a \in Accounts : Present(a) => AvailableMethods(a) # {}

\* A password that was replaced or removed comes back only through the rehash of
\* a sign-in that was verified against the old row (password.go:125).
OnlyRehashRevives ==
    \A a \in Accounts : pw[a].val \in retired[a] => pw[a].val \in revived[a]

\* A live session of a disabled or deleted account is one whose revocation is
\* still to come, failed (the handler drops the error, handle_account.go:583), or
\* was issued after it by a sign-in that had already passed its checks.
DisabledHoldsNoSession ==
    \A s \in Sids : sess[s].live /\ ~Enabled(sess[s].a) =>
        sess[s].out \/ \E p \in Procs : pc[p] = "revokeAll" /\ loc[p].a = sess[s].a

\* The instance is never without an active admin, and an admin is disabled only
\* if he was promoted between the two statements of a set-disabled request
\* (handle_account.go:553).
ActiveAdminRemains ==
    /\ ActiveAdmins # {}
    /\ \A a \in Accounts : acct[a].admin /\ acct[a].dis => a \in raced

\* An upstream identity belongs to at most one account, and an account created
\* from an invitation bound to a provider has an identity there (resolver.go:527,
\* enrollment_identity.go:44).
IdentitiesBound ==
    /\ \A l, m \in links : l.sub = m.sub => l = m
    /\ unbound = {}

\* The primary address is a verified one of the account; an account with a
\* verified address has a primary; and no two accounts have the same verified
\* address (email.go:237 and :299, upstream.go:35).
PrimaryFollows ==
    \A a \in Accounts :
        /\ prim[a] # 0 => mail[prim[a]].a = a /\ mail[prim[a]].ver
        /\ (\E m \in MailOf(a) : mail[m].ver) => prim[a] # 0
        /\ \A m \in MailOf(a) : mail[m].ver => ~TakenElsewhere(a, mail[m].addr)

\* provider_store.go:117: "link_only never creates accounts, on any entrypoint".
LinkOnlyNeverCreates ==
    \A p \in Procs : pc[p] = "fedDone" /\ loc[p].new => loc[p].prov.mode # "link_only"
=============================================================================
