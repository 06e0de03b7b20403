------------------------------ MODULE Commands ------------------------------
(***************************************************************************)
(* The commands an operator runs beside the servers (cmd/prohibitorum).    *)
(* They write the tables the handlers write, but nobody has signed in, no  *)
(* manager's limits apply, the key caches of the servers are not told, and *)
(* few of them use a transaction or lock what they have read.  (The secret *)
(* of a client or provider, listings and previews are left out.)           *)
(***************************************************************************)
EXTENDS SigningKeys

commandVars == <<authorizeVars, samlVars, faVars>>

\* appPolicyCLI.resolve: the application exists and is of the command's kind.
Resolved(x) == apps[x].on

\* No transaction holds the row of the application.
Unlocked(x) == RowFree(None, x)

-----------------------------------------------------------------------------
(* Policy                                                                    *)

\* group select: one statement locks the row and replaces the groups, but it works
\* on the snapshot it began with: while it waits for the lock ...
ReplaceAppGroups(p, x, G) ==
    /\ Idle(p, "cligroups") /\ Resolved(x)
    /\ Set(p, [Blank EXCEPT !.op = "cligroups", !.x = x, !.set = G, !.member = apps[x].groups])
    /\ Goto(p, "select")
    /\ UNCHANGED <<others, keyVars>>

\* ... others attach groups, and those it does not see and leaves attached.  A group
\* that does not exist fails it as a whole.
SelectGroups(p) ==
    LET l == loc[p]
        kept == apps[l.x].groups \ l.member
    IN  /\ pc[p] = "select" /\ Unlocked(l.x)
        /\ apps' = IF apps[l.x].on /\ \A g \in l.set : GroupOn(g)
                   THEN [apps EXCEPT ![l.x].groups = l.set \cup kept] ELSE apps
        /\ Finish(p)
        /\ UNCHANGED <<tables, groups, dec, strayed, commandVars, keyVars>>

AccessSetRestricted(x, b) ==
    /\ "clirestrict" \in ops /\ Resolved(x) /\ Unlocked(x)
    /\ apps' = [apps EXCEPT ![x] = AccessRestricted(x, b)]
    /\ UNCHANGED <<tables, frame, groups, dec, strayed, commandVars, keyVars>>

\* The account is locked and has to be enabled.
ManagerAssign(x, a) ==
    /\ "climanagers" \in ops /\ Resolved(x) /\ Unlocked(x) /\ Enabled(a)
    /\ apps' = AddedManager(x, a)
    /\ UNCHANGED <<tables, frame, groups, dec, strayed, commandVars, keyVars>>

ManagerRemove(x, a) ==
    /\ "climanagers" \in ops /\ Resolved(x) /\ a \in apps[x].managers
    /\ apps' = RemovedManager(x, a)
    /\ UNCHANGED <<tables, frame, groups, dec, strayed, commandVars, keyVars>>

GetAppGroup(x, g) == g \in apps[x].groups

\* findBoundPolicyGroup: a manual group attached to the application ...
FindBoundPolicyGroup(p, x, g, a, effect) ==
    /\ Idle(p, "clidecide") /\ Resolved(x) /\ acct[a].on
    /\ GetAppGroup(x, g) /\ groups[g].kind = "manual"
    /\ Set(p, [Blank EXCEPT !.op = "clidecide", !.a = a, !.g = g, !.val = effect])
    /\ Goto(p, "decide")
    /\ UNCHANGED <<others, keyVars>>

\* ... may have lost its attachment, or be gone, when the decision is written.
DecisionSet(p) ==
    LET l == loc[p]
    IN  /\ pc[p] = "decide"
        /\ dec' = IF groups[l.g].kind = "manual" /\ acct[l.a].on
                  THEN UpsertManualDecision(l.g, l.a, l.val) ELSE dec
        /\ Finish(p)
        /\ UNCHANGED <<tables, apps, groups, strayed, commandVars, keyVars>>

-----------------------------------------------------------------------------
(* Applications                                                              *)

\* The scopes' providers are looked up, then the client is inserted, open to all.
ClientCreate(p, x, scopes) ==
    /\ Idle(p, "cliclients") /\ ValidScopes(scopes)
    /\ Set(p, [Blank EXCEPT !.op = "cliclients", !.x = x, !.set = scopes])
    /\ Goto(p, "cliInsert")
    /\ UNCHANGED <<others, keyVars>>

ClientInsert(p, consent) ==
    LET x == loc[p].x
    IN  /\ pc[p] = "cliInsert"
        /\ apps' = IF apps[x].on THEN apps
                   ELSE [apps EXCEPT ![x] = Created(FALSE, consent, loc[p].set)]
        /\ Finish(p)
        /\ UNCHANGED <<tables, groups, dec, strayed, commandVars, keyVars>>

\* A full replacement; unlike the handler, the command does not refuse the client of
\* a forward-auth application.
ClientUpdate(p, x, scopes) ==
    /\ Idle(p, "cliclients") /\ apps[x].on /\ ValidScopes(scopes)
    /\ Set(p, [Blank EXCEPT !.op = "cliupdate", !.x = x, !.set = scopes])
    /\ Goto(p, "manage")
    /\ UNCHANGED <<others, keyVars>>

ClientReplace(p, dis, consent) ==
    /\ Managed(p, "cliupdate", UpdatedOIDCClient(loc[p].x, dis, consent, loc[p].set))
    /\ UNCHANGED <<commandVars, keyVars>>

\* What references the row goes with it: groups, managers, consents, SAML sessions
\* and the tokens' right to the application.
RowDeleted(x) ==
    /\ apps' = [apps EXCEPT ![x] = DeletedApp]
    /\ consents' = [y \in Accounts \X Apps |-> IF y[2] = x THEN {} ELSE consents[y]]
    /\ agreed' = [y \in Accounts \X Apps |-> IF y[2] = x THEN {} ELSE agreed[y]]
    /\ samlSess' = {y \in samlSess : y[2] # x}
    /\ pats' = [t \in Pats |-> [pats[t] EXCEPT !.apps = @ \ {x}]]
    /\ UNCHANGED <<tables, groups, dec, strayed, kv, handed, used, lapped, demanded, reqs,
                   answers, consumption, signedOut, keyVars>>

DeleteOIDCClient(x) == x \in OidcApps \cup FaApps /\ RowDeleted(x)
DeleteSAMLSP(x) == x \in SamlApps /\ RowDeleted(x)

ClientDelete(x) ==
    /\ "cliclients" \in ops /\ apps[x].on /\ Unlocked(x)
    /\ DeleteOIDCClient(x) /\ UNCHANGED frame

\* The service provider, its endpoints and keys are one transaction.
SpCreate(x, initiated) ==
    /\ "clisps" \in ops /\ InsertSAMLSP(x, FALSE, initiated)
    /\ UNCHANGED <<tables, frame, groups, dec, strayed, commandVars, keyVars>>

SpUpdate(x, initiated) ==
    /\ "clisps" \in ops /\ apps[x].on /\ Unlocked(x)
    /\ apps' = [apps EXCEPT ![x] = UpdatedSAMLSP(x, initiated)]
    /\ UNCHANGED <<tables, frame, groups, dec, strayed, commandVars, keyVars>>

SpDelete(x) ==
    /\ "clisps" \in ops /\ apps[x].on /\ Unlocked(x)
    /\ DeleteSAMLSP(x) /\ UNCHANGED frame

ForwardAuthCreate(x) ==
    /\ "cliclients" \in ops /\ RegisterForwardAuthApp(x, FALSE)
    /\ UNCHANGED <<tables, frame, groups, dec, strayed, commandVars, keyVars>>

-----------------------------------------------------------------------------
(* Upstream providers                                                        *)

\* The provider is inserted without its secret ...
ProviderCreate(p, i, mode, signIn) ==
    /\ Idle(p, "cliidps") /\ ~idps[i].on /\ ~idps[i].gone
    /\ idps' = [idps EXCEPT ![i] = [NoIdp EXCEPT !.on = TRUE, !.signIn = signIn, !.mode = mode]]
    /\ Set(p, [Blank EXCEPT !.op = "cliidps", !.val = i]) /\ Goto(p, "cliSeal")
    /\ UNCHANGED <<clock, ops, maint, acct, sess, factors, links, policyVars, commandVars, keyVars>>

\* ... which is sealed for its id and stored.  If that fails the provider is deleted
\* again, unless an identity was linked by then, and its scope stays where it is.
ProviderSeal(p, failing) ==
    LET i == loc[p].val
    IN  /\ pc[p] = "cliSeal"
        /\ idps' = IF failing /\ idps[i].on /\ ~\E l \in links : l.idp = i
                   THEN [idps EXCEPT ![i] = [NoIdp EXCEPT !.gone = TRUE]] ELSE idps
        /\ Finish(p)
        /\ UNCHANGED <<clock, ops, maint, acct, sess, factors, links, policyVars, commandVars, keyVars>>

\* A full replacement, but for allow_sign_in, which is written back as it was read.
ProviderUpdate(p, i, mode, signIn) ==
    /\ Idle(p, "cliidps") /\ idps[i].on
    /\ Set(p, [Blank EXCEPT !.op = "cliidps", !.val = i, !.x = mode,
                            !.opt = IF signIn = None THEN idps[i].signIn ELSE signIn])
    /\ Goto(p, "cliReplace")
    /\ UNCHANGED <<others, keyVars>>

ProviderReplace(p) ==
    LET i == loc[p].val
    IN  /\ pc[p] = "cliReplace"
        /\ idps' = IF idps[i].on THEN UpdateUpstreamIDPConfig(i, loc[p].x, loc[p].opt) ELSE idps
        /\ Finish(p)
        /\ UNCHANGED <<clock, ops, maint, acct, sess, factors, links, policyVars, commandVars, keyVars>>

\* DeleteUpstreamIDPWithDependents: the identities there and the scope go too.
ProviderDeleted(i) ==
    /\ idps' = [idps EXCEPT ![i] = [NoIdp EXCEPT !.gone = TRUE]]
    /\ links' = DeleteAccountIdentitiesByUpstreamIDP(i)
    /\ apps' = [x \in Apps |-> [apps[x] EXCEPT !.scopes = @ \ {i}]]
    /\ consents' = [y \in Accounts \X Apps |-> consents[y] \ {i}]
    /\ agreed' = [y \in Accounts \X Apps |-> agreed[y] \ {i}]
    /\ UNCHANGED <<clock, ops, maint, acct, sess, factors, frame, groups, dec, strayed, kv, handed,
                   used, lapped, demanded, samlVars, faVars, keyVars>>

ProviderDelete(i) == "cliidps" \in ops /\ idps[i].on /\ ProviderDeleted(i)

-----------------------------------------------------------------------------
(* Signing keys                                                              *)

\* Activation is asked for, or there is no active key to go on with ...
KeyGenerate(p, activate) ==
    /\ Idle(p, "clikeys")
    /\ Set(p, [Blank EXCEPT !.op = "clikeys", !.opt = activate \/ Active = {}])
    /\ Goto(p, "keyInsert")
    /\ UNCHANGED <<others, keyVars>>

KeyInsert(p, k) ==
    /\ pc[p] = "keyInsert" /\ skeys[k].status = "none"
    /\ skeys' = [skeys EXCEPT ![k].status = "pending"]
    /\ IF loc[p].opt THEN Goto(p, "keyActivate") /\ Set(p, [loc[p] EXCEPT !.val = k]) ELSE Finish(p)
    /\ UNCHANGED <<others, cache, signed>>

\* ... and the caches of the servers are not told.
KeyActivate(p) ==
    LET k == loc[p].val
    IN  /\ pc[p] = "keyActivate"
        /\ skeys' = IF PromoteSigningKey(k) THEN Promoted(k) ELSE skeys
        /\ Finish(p)
        /\ UNCHANGED <<others, cache, signed>>

KeyRetire(p, k) ==
    /\ Idle(p, "clikeys") /\ skeys[k].status \notin {"none", "active"}
    /\ Set(p, [Blank EXCEPT !.op = "clikeys", !.val = k]) /\ Goto(p, "keyRetire")
    /\ UNCHANGED <<others, keyVars>>

KeyRetired(p) ==
    LET k == loc[p].val
    IN  /\ pc[p] = "keyRetire"
        /\ skeys' = IF Retirable(k)
                    THEN [skeys EXCEPT ![k] = [status |-> "decommissioning", until |-> clock + Grace]] ELSE skeys
        /\ Finish(p)
        /\ UNCHANGED <<others, cache, signed>>

-----------------------------------------------------------------------------

\* The words of the commands: a mix without one runs none of them.
CommandOps == {"cligroups", "clirestrict", "climanagers", "clidecide", "cliclients", "clisps", "cliidps", "clikeys"}

CommandsNext ==
    /\ ops \cap CommandOps # {}
    /\ \/ \E x \in Apps :
           \/ \E b \in BOOLEAN : AccessSetRestricted(x, b)
           \/ \E a \in Accounts : ManagerAssign(x, a) \/ ManagerRemove(x, a)
           \/ ClientDelete(x) \/ SpDelete(x)
       \/ \E x \in SamlApps, b \in BOOLEAN : SpCreate(x, b) \/ SpUpdate(x, b)
       \/ \E x \in FaApps : ForwardAuthCreate(x)
       \/ \E i \in Idps : ProviderDelete(i)
       \/ \E p \in Procs :
           \/ \E x \in Apps :
               \/ \E G \in SUBSET Groups : ReplaceAppGroups(p, x, G)
               \/ \E g \in Groups, a \in Accounts, e \in {"allow", "deny", "none"} :
                      FindBoundPolicyGroup(p, x, g, a, e)
           \/ SelectGroups(p) \/ DecisionSet(p)
           \/ \E sc \in SUBSET Scopes :
               \/ \E x \in OidcApps : ClientCreate(p, x, sc)
               \/ \E x \in OidcApps \cup FaApps : ClientUpdate(p, x, sc)
           \/ \E b, c \in BOOLEAN : ClientReplace(p, b, c)
           \/ \E b \in BOOLEAN : ClientInsert(p, b) \/ ProviderSeal(p, b) \/ KeyGenerate(p, b)
           \/ \E i \in Idps, m \in Modes :
               \/ \E b \in BOOLEAN : ProviderCreate(p, i, m, b)
               \/ \E b \in BOOLEAN \cup {None} : ProviderUpdate(p, i, m, b)
           \/ ProviderReplace(p)
           \/ \E k \in Kids : KeyInsert(p, k) \/ KeyRetire(p, k)
           \/ KeyActivate(p) \/ KeyRetired(p)
=============================================================================
