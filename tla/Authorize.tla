------------------------------ MODULE Authorize ------------------------------
(***************************************************************************)
(* The front half of OIDC: GET /oauth/authorize (authorize.go), forced     *)
(* re-authentication (authn/reauth.go) and consent (authn/consent.go,      *)
(* handle_consent.go, handle_me_consent.go).  Markers, tickets and codes   *)
(* are KV entries under random names; the token endpoint that redeems an   *)
(* OIDC client's code is the module AuthCode.                              *)
(***************************************************************************)
EXTENDS AppPolicy

CONSTANTS
    MaxNonce,    \* random names of KV entries are 1..MaxNonce
    Ages,        \* values of max_age
    Visitors,    \* accounts that use applications in most mixes
    TicketTTL,   \* lifetime of markers and tickets
    AuthCodeTTL  \* lifetime of authorization codes

ASSUME AuthorizeAssumption == TicketTTL \in Nat \ {0} /\ AuthCodeTTL \in Nat \ {0} /\ Ages \subseteq Nat

VARIABLES
    kv,        \* KV entries by random name
    handed,    \* the last name given to an entry
    consents,  \* oidc_consent, saml_consent: scopes granted (no row: {})
    used,      \* history: how often an entry was turned into something
    agreed,    \* history: scopes the account approved since it last revoked
    lapped,    \* history: consents written over a row read before a revocation
    demanded   \* history: re-authentications asked for, by account and time

authorizeHistory == <<used, agreed, lapped, demanded>>
authorizeVars == <<kv, handed, consents, authorizeHistory>>

Nonces == 1..MaxNonce
Clients == OidcApps \cup FaApps
NoVal == [kind |-> "", a |-> None, x |-> None, s |-> 0, sc |-> {}, at |-> 0, ref |-> None]

AuthorizeInit ==
    /\ used = [n \in Nonces |-> 0]
    /\ agreed = consents
    /\ lapped = {} /\ demanded = {}

\* An entry of the given kind; the prefix of a key keeps the kinds apart.
Has(n, kind) == n # None /\ Found(kv, n, clock) /\ kv[n].val.kind = kind

\* SetEx under a fresh random name.
Stash(store, v, ttl) ==
    /\ handed < MaxNonce
    /\ handed' = handed + 1
    /\ kv' = SetEx(store, handed + 1, v, ttl, clock)

\* Pop, the entry going away whoever asks for it.
PopKeeps(n) == kv
Pop(n) == Del(kv, n)

Use(n) == used' = [used EXCEPT ![n] = @ + 1]

-----------------------------------------------------------------------------
(* Re-authentication                                                         *)

\* DemandReauth.  No two readings of the clock are equal: a sign-in that is already
\* over was before the demand.
DemandReauth(kind, a, store) ==
    /\ clock < MaxClock
    /\ clock' = clock + 1
    /\ handed < MaxNonce
    /\ handed' = handed + 1
    /\ kv' = SetEx(store, handed + 1, [NoVal EXCEPT !.kind = kind, !.a = a, !.at = clock + 1], TicketTTL, clock + 1)
    /\ demanded' = demanded \cup {<<a, clock + 1>>}

\* ConsumeReauth: the marker is the account's and its sign-in is not older.
ReauthAnyTime(n, kind, a, at) == Has(n, kind) /\ kv[n].val.a = a
ReauthAnyone(n, kind, a, at) == Has(n, kind) /\ at >= kv[n].val.at
ReauthOK(n, kind, a, at) == Has(n, kind) /\ kv[n].val.a = a /\ at >= kv[n].val.at

\* A marker that does not do is gone all the same.
Spoiled(m, kind) == IF Has(m, kind) THEN Pop(m) ELSE kv

-----------------------------------------------------------------------------
(* Authorize                                                                 *)

GetOIDCClient(x) == apps[x].on /\ ~apps[x].dis

\* The client is enabled and may ask for the scopes, the caller has a session; the
\* first half of the policy is read.  m is the marker the request carries, ref the
\* forward-auth state its code challenge comes from.
Authorize(p, s, x, sc, prompt, age, m, ref) ==
    /\ Idle(p, "authorize")
    /\ GetOIDCClient(x) /\ sc \subseteq apps[x].scopes
    /\ Caller(s)
    /\ Evaluate(p, x, sess[s].a, [Blank EXCEPT !.op = "authorize", !.s = s, !.a = sess[s].a, !.x = x,
                    !.set = sc, !.val = prompt, !.age = age, !.n = m, !.g = ref, !.opt = apps[x].opt])
    /\ UNCHANGED <<tables, policyVars, authorizeVars>>

\* GetSession: the row is there and not revoked.
SessionRow(s) == sess[s].live /\ acct[sess[s].a].on

AuthorizeDenied(p) ==
    /\ pc[p] = "azDecide"
    /\ ~EvalAllows(loc[p].ev, loc[p].x) \/ ~SessionRow(loc[p].s)
    /\ Finish(p)
    /\ UNCHANGED <<tables, policyVars, authorizeVars>>

\* prompt=login, or a sign-in older than max_age.
Demands(p) ==
    \/ loc[p].val = "login"
    \/ loc[p].age # None /\ clock - sess[loc[p].s].at > loc[p].age

Decided(p) == pc[p] = "azDecide" /\ EvalAllows(loc[p].ev, loc[p].x) /\ SessionRow(loc[p].s)

AuthorizeFresh(p) ==
    /\ Decided(p) /\ ~Demands(p)
    /\ Goto(p, "azGrant") /\ UNCHANGED loc
    /\ UNCHANGED <<tables, policyVars, authorizeVars>>

AuthorizeReauthed(p) ==
    LET n == loc[p].n
    IN  /\ Decided(p) /\ Demands(p)
        /\ ReauthOK(n, "reauth", loc[p].a, sess[loc[p].s].at)
        /\ kv' = Pop(n) /\ Use(n)
        /\ Goto(p, "azGrant") /\ UNCHANGED loc
        /\ UNCHANGED <<tables, policyVars, handed, consents, agreed, lapped, demanded>>

\* Otherwise a new marker is demanded, except with prompt=none.
AuthorizeReauthFails(p) ==
    LET m == loc[p].n
        left == Spoiled(m, "reauth")
    IN  /\ Decided(p) /\ Demands(p)
        /\ ~ReauthOK(m, "reauth", loc[p].a, sess[loc[p].s].at)
        /\ IF loc[p].val = "none"
           THEN kv' = left /\ UNCHANGED <<clock, handed, demanded>>
           ELSE DemandReauth("reauth", loc[p].a, left)
        /\ Finish(p)
        /\ UNCHANGED <<ops, maint, acct, sess, factors, federated, policyVars, consents, used,
                       agreed, lapped>>

\* Consent is needed for scopes not granted yet, and asked for again on demand.
NeedsConsentNever(p) == FALSE
NeedsConsent(p) ==
    /\ loc[p].opt
    /\ loc[p].val = "consent" \/ ~(loc[p].set \subseteq consents[<<loc[p].a, loc[p].x>>])

\* DemandConsent; prompt=none only learns that consent is required.
AuthorizeAsks(p) ==
    /\ pc[p] = "azGrant" /\ NeedsConsent(p)
    /\ IF loc[p].val = "none"
       THEN UNCHANGED <<kv, handed>>
       ELSE Stash(kv, [NoVal EXCEPT !.kind = "ticket", !.a = loc[p].a, !.x = loc[p].x,
                          !.sc = loc[p].set], TicketTTL)
    /\ Finish(p)
    /\ UNCHANGED <<tables, policyVars, consents, authorizeHistory>>

AuthorizeMints(p) ==
    /\ pc[p] = "azGrant" /\ ~NeedsConsent(p)
    /\ Stash(kv, [NoVal EXCEPT !.kind = "code", !.a = loc[p].a, !.x = loc[p].x, !.s = loc[p].s,
                     !.sc = loc[p].set, !.ref = loc[p].g], AuthCodeTTL)
    /\ Goto(p, "sent") /\ UNCHANGED loc
    /\ UNCHANGED <<tables, policyVars, consents, authorizeHistory>>

-----------------------------------------------------------------------------
(* Required identities                                                       *)

NeedTicket(a, x, s, P) ==
    Stash(kv, [NoVal EXCEPT !.kind = "need", !.a = a, !.x = x, !.s = s, !.sc = P], TicketTTL)

\* GET require-identity: the client wants an identity of one of the providers P, all
\* of them enabled.  A hint that names another account ends on the page at once.
RequireIdentityMismatch(s, x, P) ==
    /\ "require" \in ops /\ GetOIDCClient(x) /\ Caller(s)
    /\ P # {} /\ \A i \in P : idps[i].on /\ ~idps[i].dis
    /\ NeedTicket(sess[s].a, x, s, P)
    /\ UNCHANGED <<tables, frame, policyVars, consents, authorizeHistory>>

RequireIdentity(p, s, x, P) ==
    /\ Idle(p, "require") /\ GetOIDCClient(x) /\ Caller(s)
    /\ P # {} /\ \A i \in P : idps[i].on /\ ~idps[i].dis
    /\ Evaluate(p, x, sess[s].a, [Blank EXCEPT !.op = "require", !.s = s, !.a = sess[s].a, !.x = x,
                    !.set = P])
    /\ UNCHANGED <<tables, policyVars, authorizeVars>>

\* Back to the client with a confirmed identity, else a ticket for the page.
HasIdentity(a, P) == \E l \in links : l.a = a /\ l.conf /\ l.idp \in P /\ ~idps[l.idp].dis

RequireIdentityDecide(p) ==
    /\ pc[p] = "needDecide"
    /\ IF ~EvalAllows(loc[p].ev, loc[p].x)
       THEN Finish(p) /\ UNCHANGED <<kv, handed>>
       ELSE IF HasIdentity(loc[p].a, loc[p].set)
       THEN Goto(p, "sent") /\ UNCHANGED <<loc, kv, handed>>
       ELSE NeedTicket(loc[p].a, loc[p].x, loc[p].s, loc[p].set) /\ Finish(p)
    /\ UNCHANGED <<tables, policyVars, consents, authorizeHistory>>

-----------------------------------------------------------------------------
(* Consent                                                                   *)

\* The ticket is popped, whoever shows it; an approval goes on if it is the
\* caller's and reads what was granted before ...
ConsentDecision(p, s, n, approve) ==
    LET mine == kv[n].val.a = sess[s].a
    IN  /\ Idle(p, "approve") /\ Caller(s) /\ Has(n, "ticket")
        /\ kv' = Pop(n)
        /\ IF mine /\ approve
           THEN /\ Use(n)
                /\ Set(p, [Blank EXCEPT !.op = "approve", !.a = sess[s].a, !.x = kv[n].val.x, !.n = n,
                               !.set = kv[n].val.sc, !.member = consents[<<sess[s].a, kv[n].val.x>>]])
                /\ Goto(p, "consentWrite")
           ELSE UNCHANGED <<used, frame>>
        /\ UNCHANGED <<tables, policyVars, handed, consents, agreed, lapped, demanded>>

\* ... and stores the union, over whatever is there by now.
ConsentApproved(p) ==
    LET a == loc[p].a x == loc[p].x
        union == loc[p].member \cup loc[p].set
        stored == acct[a].on /\ apps[x].on
    IN  /\ pc[p] = "consentWrite"
        /\ consents' = IF stored THEN [consents EXCEPT ![<<a, x>>] = union] ELSE consents
        /\ agreed' = IF stored THEN [agreed EXCEPT ![<<a, x>>] = @ \cup loc[p].set] ELSE agreed
        /\ lapped' = IF stored /\ ~(union \subseteq agreed[<<a, x>>] \cup loc[p].set)
                     THEN lapped \cup {<<a, x>>} ELSE lapped
        /\ Finish(p)
        /\ UNCHANGED <<tables, policyVars, kv, handed, used, demanded>>

\* DELETE of the consent row, of a client or of a service provider.
RevokedConsentAtAnother(a, x) ==
    [y \in Accounts \X Apps |-> IF y[1] = a /\ y[2] # x THEN {} ELSE consents[y]]
RevokedConsent(a, x) == [consents EXCEPT ![<<a, x>>] = {}]

RevokeConsent(s, x) ==
    LET a == sess[s].a
    IN  /\ "revoke" \in ops /\ Caller(s)
        /\ consents' = RevokedConsent(a, x)
        /\ agreed' = [agreed EXCEPT ![<<a, x>>] = {}]
        /\ lapped' = lapped \ {<<a, x>>}
        /\ UNCHANGED <<tables, frame, policyVars, kv, handed, used, demanded>>

\* The inputs of a request that make a difference in this mix.
Visits == {s \in Sids : "both" \in ops \/ sess[s].a \in Visitors}
Requested == IF "approve" \in ops THEN SUBSET Scopes ELSE {{}}
Prompts == {""} \cup (ops \cap {"none", "login", "consent"})
MaxAges == {None} \cup (IF "maxage" \in ops THEN Ages ELSE {})
Markers(kind) == {None} \cup {n \in Nonces : Has(n, kind)}

AuthorizeNext ==
    \/ \E s \in Visits, x \in Clients :
        \/ \E p \in Procs, sc \in Requested, prompt \in Prompts, age \in MaxAges :
           \E m \in Markers("reauth"), ref \in IF x \in FaApps THEN 0..handed ELSE {0} :
               Authorize(p, s, x, sc, prompt, age, m, ref)
        \/ \E P \in SUBSET Idps :
            \/ RequireIdentityMismatch(s, x, P)
            \/ \E p \in Procs : RequireIdentity(p, s, x, P)
    \/ \E s \in Visits, x \in Apps : RevokeConsent(s, x)
    \/ \E p \in Procs :
        \/ AuthorizeDenied(p) \/ AuthorizeFresh(p) \/ AuthorizeReauthed(p) \/ AuthorizeReauthFails(p)
        \/ AuthorizeAsks(p) \/ AuthorizeMints(p) \/ RequireIdentityDecide(p)
        \/ \E s \in Visits, n \in Nonces, b \in BOOLEAN : ConsentDecision(p, s, n, b)
        \/ ConsentApproved(p)
=============================================================================
