-------------------------------- MODULE Saml --------------------------------
(***************************************************************************)
(* The SAML identity provider (pkg/protocol/saml): single sign-on started  *)
(* by a service provider or from here, its consent screen, and single      *)
(* logout.  A request of a service provider is a message that the browser  *)
(* may deliver again.                                                      *)
(***************************************************************************)
EXTENDS Authorize

CONSTANTS
    Requests,        \* IDs of AuthnRequests and LogoutRequests
    Skews,           \* IssueInstant less the time of sending; None: no IssueInstant
    AuthnRequestTTL  \* freshness window, and lifetime of the replay entry

ASSUME SamlAssumption ==
    /\ AuthnRequestTTL \in Nat \ {0} /\ Skews \subseteq Int \cup {None}
    /\ None \notin Requests

VARIABLES
    reqs,      \* the messages sent: kind, sender, IssueInstant, flags, subject
    seen,      \* KV saml:authn_request_replay:<sp>:<id>, saml:slo_request_replay:...
    samlSess,  \* saml_session: session and service provider
    answers,   \* history: assertions and logouts a request was answered with
    first,     \* history: when a request was first consumed
    tardy      \* history: requests consumed by a handler that outlasted their window

consumption == <<seen, first, tardy>>
samlVars == <<reqs, samlSess, answers, consumption>>

NoReq == [kind |-> "none", x |-> None, at |-> 0, passive |-> FALSE, force |-> FALSE, a |-> None]

SamlInit ==
    /\ reqs = [r \in Requests |-> NoReq] /\ seen = [r \in Requests |-> NoEntry]
    /\ samlSess = {}
    /\ answers = [r \in Requests |-> 0] /\ first = [r \in Requests |-> None]
    /\ tardy = {}

\* A service provider sends a request, by its own clock.
SendRequest(r, kind, x, skew, passive, force, a) ==
    /\ IF kind = "authn" THEN "sso" \in ops ELSE "slo" \in ops
    /\ reqs[r].kind = "none" /\ apps[x].on
    /\ reqs' = [reqs EXCEPT ![r] = [kind |-> kind, x |-> x, passive |-> passive, force |-> force, a |-> a,
                                    at |-> IF skew = None THEN None ELSE clock + skew]]
    /\ UNCHANGED <<tables, frame, policyVars, authorizeVars, samlSess, answers, consumption>>

InWindow(r) == reqs[r].at # None => clock - reqs[r].at \in -AuthnRequestTTL..AuthnRequestTTL

\* The sender is enabled and the IssueInstant is within the window around now; only
\* a LogoutRequest has to carry one.
Acceptable(r, kind) ==
    /\ reqs[r].kind = kind /\ apps[reqs[r].x].on /\ ~apps[reqs[r].x].dis
    /\ kind = "logout" => reqs[r].at # None
    /\ InWindow(r)

\* consumeAuthnRequestID, and its twin for logout: SetNX.
Unseen(r) == ~Found(seen, r, clock)
ConsumeNothing(r) == UNCHANGED consumption
ConsumeRequest(r) ==
    /\ seen' = SetEx(seen, r, TRUE, AuthnRequestTTL, clock)
    /\ first' = [first EXCEPT ![r] = IF @ = None THEN clock ELSE @]
    /\ tardy' = IF InWindow(r) THEN tardy ELSE tardy \cup {r}

-----------------------------------------------------------------------------
(* Single sign-on                                                            *)

\* Without a session a passive request is refused, and used up; any other one waits
\* for a sign-in and is delivered again.
SsoNoSession(r) ==
    /\ "sso" \in ops /\ Acceptable(r, "authn") /\ reqs[r].passive /\ Unseen(r)
    /\ ConsumeRequest(r)
    /\ UNCHANGED <<tables, frame, policyVars, authorizeVars, reqs, samlSess, answers>>

Sso(p, s, r, m) ==
    /\ Idle(p, "sso") /\ Acceptable(r, "authn") /\ Caller(s)
    /\ Evaluate(p, reqs[r].x, sess[s].a, [Blank EXCEPT !.op = "sso", !.s = s, !.a = sess[s].a,
                    !.x = reqs[r].x, !.val = r, !.n = m])
    /\ UNCHANGED <<tables, policyVars, authorizeVars, samlVars>>

SsoAllowed(p) == pc[p] = "ssoDecide" /\ EvalAllows(loc[p].ev, loc[p].x)

SsoLosesSession(p) ==
    /\ SsoAllowed(p) /\ ~SessionRow(loc[p].s)
    /\ Finish(p)
    /\ UNCHANGED <<tables, policyVars, authorizeVars, samlVars>>

\* Denied, or a passive request for a fresh sign-in: a passive request is answered
\* with a status, and used up.
SsoRefused(p) ==
    LET r == loc[p].val
    IN  /\ pc[p] = "ssoDecide"
        /\ SsoAllowed(p) => SessionRow(loc[p].s) /\ reqs[r].force /\ reqs[r].passive
        /\ IF reqs[r].passive /\ Unseen(r) THEN ConsumeRequest(r) ELSE UNCHANGED consumption
        /\ Finish(p)
        /\ UNCHANGED <<tables, policyVars, authorizeVars, reqs, samlSess, answers>>

SsoFresh(p) ==
    LET r == loc[p].val n == loc[p].n
        reauthed == ReauthOK(n, "samlreauth", loc[p].a, sess[loc[p].s].at)
    IN  /\ SsoAllowed(p) /\ SessionRow(loc[p].s)
        /\ \/ ~reqs[r].force /\ UNCHANGED <<kv, used>>
           \/ /\ reqs[r].force /\ ~reqs[r].passive /\ reauthed
              /\ kv' = Pop(n) /\ Use(n)
        /\ Goto(p, "ssoConsume") /\ UNCHANGED loc
        /\ UNCHANGED <<tables, policyVars, handed, consents, agreed, lapped, demanded, samlVars>>

SsoReauthFails(p) ==
    LET m == loc[p].n
    IN  /\ SsoAllowed(p) /\ SessionRow(loc[p].s)
        /\ reqs[loc[p].val].force /\ ~reqs[loc[p].val].passive
        /\ ~ReauthOK(m, "samlreauth", loc[p].a, sess[loc[p].s].at)
        /\ DemandReauth("samlreauth", loc[p].a, Spoiled(m, "samlreauth"))
        /\ Finish(p)
        /\ UNCHANGED <<ops, maint, acct, sess, factors, federated, policyVars, consents, used,
                       agreed, lapped, samlVars>>

\* The request is used up before anything is sent; a replay stops here, and so does
\* one that asks for a format of NameID the service provider is not registered for.
SsoConsume(p) ==
    LET r == loc[p].val
    IN  /\ pc[p] = "ssoConsume"
        /\ \/ Unseen(r) /\ ConsumeRequest(r) /\ Goto(p, "ssoGrant") /\ UNCHANGED loc
           \/ Unseen(r) /\ ConsumeRequest(r) /\ Finish(p)
           \/ ~Unseen(r) /\ Finish(p) /\ UNCHANGED consumption
        /\ UNCHANGED <<tables, policyVars, authorizeVars, reqs, samlSess, answers>>

InsertSAMLSession(s, x) == samlSess \cup {<<s, x>>}

\* issueAssertion: the row is inserted before the response is written, and cannot be
\* once the service provider or the account is deleted.  Only sso has looked up the
\* row of the session before.
IssueAssertion(p, s, x, r) ==
    IF apps[x].on /\ acct[sess[s].a].on /\ (loc[p].op # "sso" => SessionRow(s))
    THEN /\ samlSess' = InsertSAMLSession(s, x)
         /\ answers' = IF r = None THEN answers ELSE [answers EXCEPT ![r] = @ + 1]
         /\ Goto(p, "sent") /\ UNCHANGED loc
    ELSE Finish(p) /\ UNCHANGED <<samlSess, answers>>

\* maybeDemandSAMLConsent: one approval per service provider; a passive request is
\* not asked.
SsoAsks(p) ==
    /\ pc[p] = "ssoGrant" /\ consents[<<loc[p].a, loc[p].x>>] = {}
    /\ loc[p].val # None => ~reqs[loc[p].val].passive
    /\ Stash(kv, [NoVal EXCEPT !.kind = "samlticket", !.a = loc[p].a, !.x = loc[p].x, !.ref = loc[p].val],
             TicketTTL)
    /\ Finish(p)
    /\ UNCHANGED <<tables, policyVars, consents, authorizeHistory, samlVars>>

SsoIssues(p) ==
    /\ pc[p] = "ssoGrant"
    /\ consents[<<loc[p].a, loc[p].x>>] # {} \/ (loc[p].val # None /\ reqs[loc[p].val].passive)
    /\ IssueAssertion(p, loc[p].s, loc[p].x, loc[p].val)
    /\ UNCHANGED <<tables, policyVars, authorizeVars, reqs, consumption>>

\* Started from here: no request, and no re-authentication.
SsoInit(p, s, x) ==
    /\ Idle(p, "ssoinit") /\ Caller(s) /\ apps[x].on /\ ~apps[x].dis /\ apps[x].opt
    /\ Evaluate(p, x, sess[s].a, [Blank EXCEPT !.op = "ssoinit", !.s = s, !.a = sess[s].a, !.x = x])
    /\ UNCHANGED <<tables, policyVars, authorizeVars, samlVars>>

SsoInitDecide(p) ==
    /\ pc[p] = "initDecide"
    /\ IF EvalAllows(loc[p].ev, loc[p].x)
       THEN Goto(p, "ssoGrant") /\ UNCHANGED loc
       ELSE Finish(p)
    /\ UNCHANGED <<tables, policyVars, authorizeVars, samlVars>>

-----------------------------------------------------------------------------
(* Consent                                                                   *)

\* Declining pops the ticket; approving only looks at it and sends the browser on.
SamlDecline(s, n) ==
    /\ "samlconsent" \in ops /\ Caller(s) /\ Has(n, "samlticket")
    /\ kv' = Pop(n)
    /\ UNCHANGED <<tables, frame, policyVars, handed, consents, authorizeHistory, samlVars>>

\* HandleConsentResume: the ticket is popped, the policy evaluated again ...
ConsentResume(p, s, n) ==
    LET t == kv[n].val
        ok == t.a = sess[s].a /\ apps[t.x].on /\ ~apps[t.x].dis
    IN  /\ Idle(p, "samlconsent") /\ Caller(s) /\ Has(n, "samlticket")
        /\ kv' = Pop(n)
        /\ IF ok
           THEN Evaluate(p, t.x, t.a, [Blank EXCEPT !.op = "resume", !.s = s, !.a = t.a, !.x = t.x,
                             !.val = t.ref, !.n = n])
           ELSE UNCHANGED frame
        /\ UNCHANGED <<tables, policyVars, handed, consents, authorizeHistory, samlVars>>

\* ... consent is recorded ...
ResumeRecords(p) ==
    LET a == loc[p].a x == loc[p].x
    IN  /\ pc[p] = "resume"
        /\ IF EvalAllows(loc[p].ev, x) /\ acct[a].on /\ apps[x].on
           THEN /\ consents' = [consents EXCEPT ![<<a, x>>] = {"saml"}]
                /\ agreed' = [agreed EXCEPT ![<<a, x>>] = {"saml"}]
                /\ Goto(p, "resumed") /\ UNCHANGED loc
           ELSE Finish(p) /\ UNCHANGED <<consents, agreed>>
        /\ UNCHANGED <<tables, policyVars, kv, handed, used, lapped, demanded, samlVars>>

\* ... and the assertion issued.
ResumeIssues(p) ==
    /\ pc[p] = "resumed"
    /\ Use(loc[p].n)
    /\ IssueAssertion(p, loc[p].s, loc[p].x, loc[p].val)
    /\ UNCHANGED <<tables, policyVars, kv, handed, consents, agreed, lapped, demanded, reqs, consumption>>

-----------------------------------------------------------------------------
(* Single logout                                                             *)

\* The name identifier stands for the account.
ListSAMLSessionsByNameID(x, a) == {s \in Sids : <<s, x>> \in samlSess /\ sess[s].a = a}

\* SessionIndex is the session's id: a request that has one is about that session only.
Indexed(S, index) == IF index = None THEN S ELSE S \cap {index}

\* The request is used up, then the sessions of its subject are looked up ...
Slo(p, r) ==
    LET x == reqs[r].x
    IN  /\ Idle(p, "slo") /\ Acceptable(r, "logout") /\ Unseen(r)
        /\ ConsumeRequest(r)
        /\ answers' = [answers EXCEPT ![r] = @ + 1]
        /\ \E index \in Sids \cup {None} :
              Set(p, [Blank EXCEPT !.op = "slo", !.x = x, !.a = reqs[r].a,
                             !.set = Indexed(ListSAMLSessionsByNameID(x, reqs[r].a), index)])
        /\ Goto(p, "slo")
        /\ UNCHANGED <<tables, policyVars, authorizeVars, reqs, samlSess>>

\* ... unless it names nobody, its RelayState is too long or the lookup fails: it is used
\* up for nothing.
SloAborts(r) ==
    /\ "slo" \in ops /\ Acceptable(r, "logout") /\ Unseen(r)
    /\ ConsumeRequest(r)
    /\ UNCHANGED <<tables, frame, policyVars, authorizeVars, reqs, samlSess, answers>>

\* ... and each one is revoked, or fails to be, and its rows deleted all the same.
SloRow(p, s, ok) ==
    /\ pc[p] = "slo" /\ s \in loc[p].set
    /\ sess' = IF ok THEN [sess EXCEPT ![s].live = FALSE] ELSE sess
    /\ samlSess' = {y \in samlSess : y[1] # s}
    /\ Set(p, [loc[p] EXCEPT !.set = @ \ {s}]) /\ UNCHANGED pc
    /\ UNCHANGED <<clock, ops, maint, acct, factors, federated, policyVars, authorizeVars,
                   reqs, answers, consumption>>

SloDone(p) ==
    /\ pc[p] = "slo" /\ loc[p].set = {}
    /\ Finish(p)
    /\ UNCHANGED <<tables, policyVars, authorizeVars, samlVars>>

SamlNext ==
    \/ \E r \in Requests :
        \/ \E x \in SamlApps, skew \in Skews :
            \/ \E pa \in BOOLEAN : \E fo \in {FALSE} \cup (IF "force" \in ops THEN {TRUE} ELSE {}) :
                   SendRequest(r, "authn", x, skew, pa, fo, None)
            \/ \E a \in Accounts : SendRequest(r, "logout", x, skew, FALSE, FALSE, a)
        \/ SsoNoSession(r) \/ SloAborts(r)
    \/ \E s \in Visits, n \in Nonces : SamlDecline(s, n)
    \/ \E p \in Procs :
        \/ \E s \in Visits, r \in Requests, m \in Markers("samlreauth") : Sso(p, s, r, m)
        \/ SsoRefused(p) \/ SsoLosesSession(p) \/ SsoFresh(p) \/ SsoConsume(p) \/ SsoIssues(p)
        \/ SsoReauthFails(p) \/ SsoAsks(p)
        \/ \E s \in Visits, x \in SamlApps : SsoInit(p, s, x)
        \/ SsoInitDecide(p)
        \/ \E s \in Visits, n \in Nonces : ConsentResume(p, s, n)
        \/ ResumeRecords(p) \/ ResumeIssues(p)
        \/ \E r \in Requests : Slo(p, r)
        \/ \E s \in Sids, ok \in BOOLEAN : SloRow(p, s, ok)
        \/ SloDone(p)
=============================================================================
