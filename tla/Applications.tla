---------------------------- MODULE Applications ----------------------------
(***************************************************************************)
(* What the identity core is for: applications ask who is there.  OIDC,    *)
(* SAML, forward auth, their policies and signing keys act on the same     *)
(* tables, while accounts, sessions and providers change under them.  A    *)
(* behaviour performs the operations of one mix.                           *)
(***************************************************************************)
EXTENDS Commands

CONSTANTS
    Root,  \* an admin
    User,  \* an account without rights of its own
    Idp    \* the provider configured from the start

ASSUME ApplicationsAssumption == Root \in Accounts /\ User \in Accounts \ {Root} /\ Idp \in Idps

VARIABLE grounds  \* history: what held at some instant of each request in flight

vars == <<directory, policyVars, authorizeVars, samlVars, faVars, keyVars, grounds>>

\* Words of a mix that are facts of its start: the policy of every application is
\* restricted, has its groups, User manages it, has approved everything...
Starts(word, v, default) == IF word \in ops THEN v ELSE default

FirstOf(S) == CHOOSE v \in S : TRUE

ProtocolOf(x) == IF x \in OidcApps THEN "oidc" ELSE IF x \in FaApps THEN "forward" ELSE "saml"

Init ==
    /\ clock = 1 /\ ops \in Mixes /\ maint = FALSE
    /\ acct = [a \in Accounts |-> [NoAccount EXCEPT !.on = a \in {Root, User}, !.admin = a = Root]]
    /\ sess = [s \in Sids |-> CASE s = 1 -> [NoSession EXCEPT !.a = Root, !.live = TRUE]
                                [] s = 2 -> [NoSession EXCEPT !.a = User, !.live = TRUE]
                                [] OTHER -> NoSession]
    /\ pw = [a \in Accounts |-> NoPw] /\ totp = [a \in Accounts |-> NoTotp]
    /\ codes = [a \in Accounts |-> {}] /\ nextCode = 1
    /\ keys = [k \in Creds |-> NoKey]
    /\ idps = [i \in Idps |-> IF i = Idp /\ "noidp" \notin ops THEN [NoIdp EXCEPT !.on = TRUE, !.signIn = TRUE] ELSE NoIdp]
    /\ links = Starts("linked", {[idp |-> Idp, sub |-> FirstOf(Subs), a |-> User, conf |-> TRUE]}, {})
    /\ groups = [g \in Groups |->
          CASE g = FirstOf(Groups) -> [kind |-> "manual", rule |-> None]
            [] "bare" \in ops -> NoGroup
            [] OTHER -> [kind |-> "rule", rule |-> [op |-> "", kids |-> <<>>, fact |-> <<"provider", Idp>>]]]
    /\ dec = [y \in Groups \X Accounts |-> IF groups[y[1]].kind = "manual" /\ y[2] = User
                                           THEN Starts("allowed", "allow", "none") ELSE "none"]
    /\ apps = [x \in Apps |->
          IF ProtocolOf(x) \notin ops THEN NoApp
          ELSE [on |-> TRUE, gone |-> FALSE, dis |-> FALSE, restricted |-> "closed" \in ops,
                opt |-> x \notin FaApps, scopes |-> IF x \in OidcApps THEN Scopes ELSE {},
                groups |-> Starts("grouped", Groups, {}), managers |-> Starts("managed", {User}, {})]]
    /\ consents = [y \in Accounts \X Apps |->
          IF y[1] # User \/ ~apps[y[2]].on \/ y[2] \in FaApps THEN {}
          ELSE Starts("consented", IF y[2] \in SamlApps THEN {"saml"} ELSE Scopes, {})]
    /\ handed = Starts("cookie", 1, 0)
    /\ kv = [n \in Nonces |->
          IF n <= handed
          THEN Entry([NoVal EXCEPT !.kind = "fa", !.a = User, !.x = FirstOf(FaApps)], clock + 1)
          ELSE NoEntry]
    /\ pats = [t \in Pats |->
          IF t = FirstOf(Pats)
          THEN Starts("token", [NoPat EXCEPT !.a = User, !.access = "selected_apps",
                                    !.apps = {FirstOf(FaApps)}, !.exp = clock + PatTTL], NoPat)
          ELSE NoPat]
    /\ strayed = {} /\ signedOut = {}
    /\ AuthorizeInit /\ SamlInit /\ SigningKeysInit
    /\ pc = [p \in Procs |-> "idle"] /\ loc = [p \in Procs |-> Blank]
    /\ grounds = [p \in Procs |-> {}]

-----------------------------------------------------------------------------
(* What changes under the applications                                       *)

\* An account is disabled; its sessions are revoked, or that fails and is not told.
DisableAccount(s, a) ==
    /\ Admin(s, "disable") /\ Enabled(a) /\ ~acct[a].admin
    /\ acct' = [acct EXCEPT ![a].dis = TRUE]
    /\ sess' \in {RevokedAll(a), Outlive(a)}
    /\ UNCHANGED <<clock, ops, maint, factors, federated, frame, policyVars, authorizeVars,
                   samlVars, faVars, keyVars>>

\* An account is deleted with all that references it.
DeleteAccount(s, a) ==
    /\ Admin(s, "delete") /\ HasFreshSudo(s) /\ acct[a].on /\ a # sess[s].a
    /\ acct' = [acct EXCEPT ![a] = [NoAccount EXCEPT !.gone = TRUE]]
    /\ sess' \in {RevokedAll(a), Outlive(a)}
    /\ links' = {l \in links : l.a # a}
    /\ dec' = [y \in Groups \X Accounts |-> IF y[2] = a THEN "none" ELSE dec[y]]
    /\ apps' = [x \in Apps |-> [apps[x] EXCEPT !.managers = @ \ {a}]]
    /\ consents' = [y \in Accounts \X Apps |-> IF y[1] = a THEN {} ELSE consents[y]]
    /\ agreed' = [y \in Accounts \X Apps |-> IF y[1] = a THEN {} ELSE agreed[y]]
    /\ pats' = [t \in Pats |-> IF pats[t].a = a THEN [pats[t] EXCEPT !.revoked = TRUE] ELSE pats[t]]
    /\ UNCHANGED <<clock, ops, maint, factors, idps, frame, groups, strayed, kv, handed, used, lapped,
                   demanded, samlVars, signedOut, keyVars>>

\* An application is deleted with all that references it.
DeleteApp(p) == pc[p] = "manage" /\ loc[p].op = "appdelete" /\ RowFree(p, loc[p].x) /\ Finish(p)
DeleteOIDCApplication(p) == loc[p].x \in OidcApps /\ DeleteApp(p) /\ DeleteOIDCClient(loc[p].x)
DeleteForwardAuthApp(p) == loc[p].x \in FaApps /\ DeleteApp(p) /\ DeleteOIDCClient(loc[p].x)
DeleteSAMLApplication(p) == DeleteApp(p) /\ DeleteSAMLSP(loc[p].x)

\* A provider is deleted with its identities and its scope.
DeleteIdp(s, i) ==
    /\ Admin(s, "idpdelete") /\ HasFreshSudo(s) /\ idps[i].on
    /\ ProviderDeleted(i)

\* The account links or unlinks an identity, signs in again or out; the settings cache
\* shows the start or the end of maintenance.
Relink(s) ==
    /\ "relink" \in ops /\ Caller(s)
    /\ LET l == [idp |-> Idp, sub |-> FirstOf(Subs), a |-> sess[s].a, conf |-> TRUE]
       IN  links' = IF l \in links THEN links \ {l} ELSE
                    IF idps[Idp].on /\ links = {} THEN {l} ELSE links
    /\ UNCHANGED <<clock, ops, maint, acct, sess, factors, idps, frame, policyVars, authorizeVars,
                   samlVars, faVars, keyVars>>

SignIn(a) ==
    /\ "signin" \in ops /\ Enabled(a) /\ ~MaintenanceLockout(a)
    /\ IssueSession(a)
    /\ UNCHANGED <<clock, ops, maint, acct, factors, federated, frame, policyVars, authorizeVars,
                   samlVars, faVars, keyVars>>

Logout(s) ==
    /\ "logout" \in ops /\ sess[s].live
    /\ sess' = [sess EXCEPT ![s].live = FALSE]
    /\ UNCHANGED <<clock, ops, maint, acct, factors, federated, frame, policyVars, authorizeVars,
                   samlVars, faVars, keyVars>>

MaintenanceShows ==
    /\ "maintenance" \in ops
    /\ maint' = ~maint
    /\ UNCHANGED <<clock, ops, acct, sess, factors, federated, frame, policyVars, authorizeVars,
                   samlVars, faVars, keyVars>>

\* The answer of a request reaches the application.
Deliver(p) ==
    /\ pc[p] = "sent"
    /\ Finish(p)
    /\ UNCHANGED <<others, keyVars>>

\* A request stops between two steps; its transaction and row lock end with it.
Abort(p) ==
    /\ "crash" \in ops /\ pc[p] \notin {"idle", "sent"}
    /\ Finish(p)
    /\ UNCHANGED <<others, keyVars>>

Tick ==
    /\ "time" \in ops /\ clock < MaxClock
    /\ clock' = clock + 1
    /\ UNCHANGED <<ops, maint, acct, sess, factors, federated, frame, policyVars, authorizeVars,
                   samlVars, faVars, keyVars>>

-----------------------------------------------------------------------------
(* What an answer may rest on                                                *)

Serving == {"authorize", "require", "sso", "ssoinit", "resume", "fa", "pat"}

RulesOf(x) == {<<g, groups[g].rule>> : g \in Attached(x, "rule")}

\* What of the policy is read before and after the manual decisions.
Weighed(p) == <<RulesOf(loc[p].x), Facts(loc[p].a), KnownProviders>>

Undecided(p) == pc[p] \in {"evManual"} \cup {Decision(op) : op \in Serving}

\* The grounds of request p that hold in the current state.
Holding(p) ==
    LET l == loc[p] a == l.a x == l.x
        true(k) == CASE k = "open" -> apps[x].on /\ ~apps[x].dis
                     [] k = "public" -> ~apps[x].restricted
                     [] k = "undenied" -> \A g \in apps[x].groups : dec[<<g, a>>] # "deny"
                     [] k = "allowed" -> \E g \in apps[x].groups : dec[<<g, a>>] = "allow"
                     [] k = "valid" -> \A r \in RulesOf(x) : ParseAndValidateRule(r[2], KnownProviders)
                     [] k = "matched" -> \E r \in RulesOf(x) : EvaluateCondition(r[2], Facts(a))
                     [] k = "account" -> Enabled(a) /\ ~MaintenanceLockout(a)
                     [] k = "session" -> sess[l.s].live /\ sess[l.s].a = a
                     [] k = "consent" -> IF x \in SamlApps THEN consents[<<a, x>>] # {}
                                         ELSE ~apps[x].opt \/ l.set \subseteq consents[<<a, x>>]
                     [] k = "young" -> l.age # None /\ clock - sess[l.s].at <= l.age
                     [] k = "identity" -> l.op = "require" /\ HasIdentity(a, l.set)
                     [] k = "cookie" -> l.op = "fa" /\ Has(l.n, "fa")
                                        /\ kv[l.n].val.x = x /\ kv[l.n].val.a = a
                     [] k = "pat" -> /\ l.op = "pat" /\ pats[l.val].a = a /\ ~pats[l.val].revoked
                                     /\ pats[l.val].exp # None => clock < pats[l.val].exp
                                     /\ pats[l.val].access = "selected_apps" => x \in pats[l.val].apps
    IN  {k \in {"open", "public", "undenied", "allowed", "valid", "matched", "account", "session",
                "consent", "young", "identity", "cookie", "pat"} : true(k)}

Observe ==
    grounds' = [p \in Procs |->
        IF loc'[p].op \notin Serving THEN {}
        ELSE grounds[p] \cup Holding(p)'
             \cup (IF Undecided(p) /\ Weighed(p)' # Weighed(p) THEN {"torn"} ELSE {})]

Environment ==
    \/ \E s \in Sids :
        \/ \E a \in Accounts : DisableAccount(s, a) \/ DeleteAccount(s, a)
        \/ \E i \in Idps : DeleteIdp(s, i)
        \/ Relink(s) \/ Logout(s)
    \/ \E a \in Accounts : SignIn(a)
    \/ MaintenanceShows
    \/ \E p \in Procs : DeleteOIDCApplication(p) \/ DeleteForwardAuthApp(p) \/ DeleteSAMLApplication(p)
                        \/ Deliver(p) \/ Abort(p)
    \/ Tick

Next ==
    /\ \/ PolicyNext /\ UNCHANGED <<authorizeVars, samlVars, faVars, keyVars>>
       \/ AuthorizeNext /\ UNCHANGED <<samlVars, faVars, keyVars>>
       \/ SamlNext /\ UNCHANGED <<faVars, keyVars>>
       \/ ForwardAuthNext /\ UNCHANGED keyVars
       \/ KeysNext
       \/ CommandsNext
       \/ Environment
    /\ Observe

Spec == Init /\ [][Next]_vars

-----------------------------------------------------------------------------

\* An answer that lets somebody in (code, assertion, pass, way back) rests on facts
\* that held while it was worked out: the application was open, its policy let the
\* account in, the account was enabled, the session live, consent given, the token
\* or cookie good, and a fresh sign-in there where one was wanted.  A rule is judged
\* by facts read before it (appaccess/service.go:509): only then may it be that the
\* two never went together ("torn").
IssuedOnGrounds ==
    \A p \in Procs : pc[p] = "sent" =>
        LET l == loc[p] G == grounds[p]
            forced == IF l.op = "authorize" THEN l.val = "login" \/ (l.age # None /\ "young" \notin G)
                      ELSE l.op \in {"sso", "resume"} /\ l.val # None /\ reqs[l.val].force
        IN  /\ {"open", "account"} \subseteq G
            /\ {"valid", "torn"} \cap G # {}
            /\ "public" \in G \/ ("undenied" \in G /\ {"allowed", "matched", "torn"} \cap G # {})
            /\ CASE l.op = "fa" -> "cookie" \in G
                 [] l.op = "pat" -> "pat" \in G
                 [] l.op = "require" -> {"session", "identity"} \subseteq G
                 [] l.op = "sso" -> "session" \in G /\ ("consent" \in G \/ reqs[l.val].passive)
                 [] OTHER -> {"session", "consent"} \subseteq G
            /\ forced => \E d \in demanded, s \in Sids :
                   /\ d[1] = l.a /\ sess[s].a = l.a /\ d[2] <= sess[s].at
                   /\ l.op # "resume" => s = l.s

\* Markers, tickets, states and codes are turned into something at most once, a
\* forward-auth session comes of a code for the very state its callback popped, and a
\* SAML request is answered once, but for one whose freshness window outlasts the
\* replay entry: it has no IssueInstant, or one not before its first use
\* (authnreq.go:333 and :408), or a handler took that long.
SpentOnce ==
    /\ \A n \in Nonces :
        /\ used[n] <= 1
        /\ Has(n, "fa") => LET st == kv[n].val.ref IN st # None => st \in Nonces /\ used[st] = 1
    /\ \A r \in Requests : answers[r] > 1 => 
        reqs[r].at = None \/ (first[r] # None /\ reqs[r].at >= first[r]) \/ r \in tardy

\* Stored consent is consent: scopes the account approved since it last revoked them
\* and since a provider of that name was deleted, except where an approval wrote back a row that it read
\* before the revocation (handle_consent.go:155).
ConsentHolds ==
    \A y \in Accounts \X Apps : consents[y] \subseteq agreed[y] \/ y \in lapped

\* There is one active key, and what is signed verifies until it expires: its key is
\* published, however keys are rotated and caches lag, unless a refresh failed,
\* installed rows older than its timestamp says, or left its signer waiting for the
\* lifetime of the cache (keys.go:61), or the grace period is configured too short.
KeysServe ==
    /\ Cardinality(Active) <= 1
    /\ "keyring" \in ops => Active # {}
    /\ GraceCovers => \A i \in signed : clock < i.exp => i.late \/ Published(i.k)

\* A forward-auth session that was signed out of stays out, whatever requests were
\* renewing it (forward_auth.go:87).
SignedOutStaysOut == \A n \in signedOut : ~Found(kv, n, clock)

\* A manager attaches only groups that were attached already or that counted him as a
\* member, however replacements interleave (handle_managed_applications.go:287).
ManagersInScope == strayed = {}
=============================================================================
