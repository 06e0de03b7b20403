----------------------------- MODULE ForwardAuth -----------------------------
(***************************************************************************)
(* Forward authentication (forward_auth.go): a proxy asks for every        *)
(* request whether to let it pass, on a cookie of its own that an OIDC     *)
(* round trip buys, or on a personal access token (pkg/credential/pat).    *)
(***************************************************************************)
EXTENDS Saml

CONSTANTS
    Pats,      \* personal access tokens
    PatTTL,    \* lifetime of a token that expires
    FaTTL,     \* lifetime of a forward-auth session
    StateTTL   \* lifetime of a forward-auth state

ASSUME ForwardAuthAssumption == {FaTTL, StateTTL, PatTTL} \subseteq Nat \ {0}

VARIABLES
    pats,      \* personal_access_token and the applications of each
    signedOut  \* history: forward-auth sessions signed out of

faVars == <<pats, signedOut>>

Accesses == {"selected_apps", "all_apps", "full", "sudo"}
NoPat == [a |-> None, revoked |-> FALSE, access |-> "full", apps |-> {}, exp |-> None]

ForwardAuthInit == pats = [t \in Pats |-> NoPat] /\ signedOut = {}

-----------------------------------------------------------------------------
(* Personal access tokens                                                    *)

\* ListAllowedApps, of the forward-auth kind.
AllowedApps(a) == {x \in FaApps : apps[x].on /\ ~apps[x].dis /\ 
                               EvalAllows([EvalRead(x, a) EXCEPT !.manual = Manual(x, a)], x)}

\* Selected applications are some the account may use; other levels name none.
CreateToken(s, t, access, A, expires) ==
    /\ Me(s, "tokens") /\ pats[t].a = None
    /\ IF access = "selected_apps" THEN A # {} /\ A \subseteq AllowedApps(sess[s].a) ELSE A = {}
    /\ pats' = [pats EXCEPT ![t] = [a |-> sess[s].a, revoked |-> FALSE, access |-> access, apps |-> A,
                                    exp |-> IF expires THEN clock + PatTTL ELSE None]]
    /\ UNCHANGED <<tables, frame, policyVars, authorizeVars, samlVars, signedOut>>

\* By its owner, or by an admin.
RevokeToken(s, t) ==
    /\ \/ Me(s, "tokens") /\ pats[t].a = sess[s].a
       \/ Admin(s, "tokens")
    /\ pats[t].a # None /\ ~pats[t].revoked
    /\ pats' = [pats EXCEPT ![t].revoked = TRUE]
    /\ UNCHANGED <<tables, frame, policyVars, authorizeVars, samlVars, signedOut>>

\* GetPATByTokenHash.
PatLiveForever(t) == pats[t].a # None
PatLive(t) ==
    /\ pats[t].a # None /\ ~pats[t].revoked
    /\ pats[t].exp # None => clock < pats[t].exp

\* AllowsAllApps, or PATGrantsApp.
PatGrantsAny(t, x) == TRUE
PatGrants(t, x) == pats[t].access # "selected_apps" \/ x \in pats[t].apps

-----------------------------------------------------------------------------
(* Verification                                                              *)

Guards(x) == apps[x].on /\ ~apps[x].dis

\* The cookie names a session of this very client; the policy is read ...
Verify(p, x, n) ==
    /\ Idle(p, "verify") /\ Guards(x)
    /\ Has(n, "fa") /\ kv[n].val.x = x
    /\ Evaluate(p, x, kv[n].val.a, [Blank EXCEPT !.op = "fa", !.a = kv[n].val.a, !.x = x, !.n = n,
                    !.val = kv[n].val])
    /\ UNCHANGED <<tables, policyVars, authorizeVars, samlVars, faVars>>

VerifyAllowed(p) == EvalAllows(loc[p].ev, loc[p].x) /\ Enabled(loc[p].a)

\* ... then the account and the time left.  In its last quarter the session is
\* renewed before the request may pass.
VerifyDecide(p) ==
    LET n == loc[p].n
    IN  /\ pc[p] = "faDecide" /\ VerifyAllowed(p)
        /\ IF MaintenanceLockout(loc[p].a) \/ ~Found(kv, n, clock) THEN Finish(p)
           ELSE /\ UNCHANGED loc
                /\ Goto(p, IF kv[n].exp - clock > FaTTL \div 4 THEN "sent" ELSE "faRenew")
        /\ UNCHANGED <<tables, policyVars, authorizeVars, samlVars, faVars>>

\* renewFASession: the very bytes that were read, or no pass.
RenewedAnyway(n, raw) == SetEx(kv, n, raw, FaTTL, clock)
RenewedFASession(n, raw) == CompareAndSwap(kv, n, raw, raw, FaTTL, clock)

VerifyRenews(p) ==
    LET n == loc[p].n
    IN  /\ pc[p] = "faRenew"
        /\ kv' = RenewedFASession(n, loc[p].val)
        /\ IF Holds(kv, n, loc[p].val, clock) THEN Goto(p, "sent") /\ UNCHANGED loc ELSE Finish(p)
        /\ UNCHANGED <<tables, policyVars, handed, consents, authorizeHistory, samlVars, faVars>>

\* Whoever does not pass is sent to authorize, with a state stored for the callback.
StashState(x) == Stash(kv, [NoVal EXCEPT !.kind = "fastate", !.x = x], StateTTL)

VerifyRedirects(x) ==
    /\ "verify" \in ops /\ Guards(x)
    /\ StashState(x)
    /\ UNCHANGED <<tables, frame, policyVars, consents, authorizeHistory, samlVars, faVars>>

VerifyDenied(p) ==
    /\ pc[p] = "faDecide" /\ ~VerifyAllowed(p)
    /\ StashState(loc[p].x)
    /\ Finish(p)
    /\ UNCHANGED <<tables, policyVars, consents, authorizeHistory, samlVars, faVars>>

\* The state is popped first ...
Callback(p, st, n) ==
    /\ Idle(p, "verify") /\ Has(st, "fastate")
    /\ kv' = Pop(st) /\ Use(st)
    /\ Set(p, [Blank EXCEPT !.op = "callback", !.x = kv[st].val.x, !.g = st, !.n = n])
    /\ Goto(p, "callback")
    /\ UNCHANGED <<tables, policyVars, handed, consents, agreed, lapped, demanded, samlVars, faVars>>

\* ... then the code; it must be of the client and the challenge of that state.
CodeFitsAny(c, x, st) == c.x = x
CodeFits(c, x, st) == c.x = x /\ c.ref = st

CallbackMints(p) ==
    LET c == loc[p].n
    IN  /\ pc[p] = "callback"
        /\ IF ~Has(c, "code") THEN UNCHANGED <<kv, handed, used>>
           ELSE IF ~CodeFits(kv[c].val, loc[p].x, loc[p].g)
           THEN kv' = Pop(c) /\ UNCHANGED <<handed, used>>
           ELSE /\ Stash(Pop(c), [NoVal EXCEPT !.kind = "fa", !.a = kv[c].val.a, !.x = loc[p].x,
                                      !.ref = kv[c].val.ref], FaTTL)
                /\ Use(c)
        /\ Finish(p)
        /\ UNCHANGED <<tables, policyVars, consents, agreed, lapped, demanded, samlVars, faVars>>

SignOut(n) ==
    /\ "signout" \in ops /\ Has(n, "fa")
    /\ kv' = Pop(n)
    /\ signedOut' = signedOut \cup {n}
    /\ UNCHANGED <<tables, frame, policyVars, handed, consents, authorizeHistory, samlVars, pats>>

\* verifyForwardAuthPAT: the token, its owner and its applications, then the policy.
VerifyPat(p, x, t) ==
    LET a == pats[t].a
    IN  /\ Idle(p, "pat") /\ Guards(x)
        /\ PatLive(t) /\ Enabled(a) /\ ~MaintenanceLockout(a) /\ PatGrants(t, x)
        /\ Evaluate(p, x, a, [Blank EXCEPT !.op = "pat", !.a = a, !.x = x, !.val = t])
        /\ UNCHANGED <<tables, policyVars, authorizeVars, samlVars, faVars>>

VerifyPatDecide(p) ==
    /\ pc[p] = "patDecide"
    /\ IF EvalAllows(loc[p].ev, loc[p].x) THEN Goto(p, "sent") /\ UNCHANGED loc ELSE Finish(p)
    /\ UNCHANGED <<tables, policyVars, authorizeVars, samlVars, faVars>>

ForwardAuthNext ==
    \/ \E s \in Visits, t \in Pats, access \in Accesses, A \in SUBSET FaApps, b \in BOOLEAN :
           CreateToken(s, t, access, A, b)
    \/ \E s \in Sids, t \in Pats : RevokeToken(s, t)
    \/ \E n \in Nonces : SignOut(n)
    \/ \E x \in FaApps : VerifyRedirects(x)
    \/ \E p \in Procs :
        \/ \E x \in FaApps, n \in Nonces : Verify(p, x, n)
        \/ VerifyDecide(p) \/ VerifyRenews(p) \/ VerifyDenied(p) \/ VerifyPatDecide(p)
        \/ \E st, c \in Nonces : c <= handed /\ Callback(p, st, c)
        \/ CallbackMints(p)
        \/ \E x \in FaApps, t \in Pats : VerifyPat(p, x, t)
=============================================================================
