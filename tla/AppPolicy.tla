------------------------------ MODULE AppPolicy ------------------------------
(***************************************************************************)
(* Who may use which application (pkg/appaccess) and who may change that:  *)
(* applications, the global groups attached to them, manual decisions and  *)
(* rules over facts about the account, and application managers.           *)
(* Evaluating a policy takes several statements; each one that a change    *)
(* can observably separate from the next is a step of the request.         *)
(***************************************************************************)
EXTENDS Directory, Sequences
LOCAL INSTANCE SequencesExt

CONSTANTS
    OidcApps,        \* OIDC clients
    FaApps,          \* OIDC clients that guard a host by forward auth
    SamlApps,        \* SAML service providers
    Scopes,          \* OIDC scopes besides openid; that of a provider is the provider
    Groups,          \* global groups
    Conditions,      \* conditions of the instance, closed under their parts
    MaxRuleDepth, MaxRuleNodes, MaxRuleChildren

Apps == OidcApps \cup FaApps \cup SamlApps

ASSUME AppPolicyAssumption ==
    /\ OidcApps \cap FaApps = {} /\ (OidcApps \cup FaApps) \cap SamlApps = {}
    /\ {MaxRuleDepth, MaxRuleNodes, MaxRuleChildren} \subseteq Nat
    /\ \A c \in Conditions : \A i \in DOMAIN c.kids : c.kids[i] \in Conditions

VARIABLES
    apps,     \* oidc_client, saml_sp, and the group and manager rows of each
    groups,   \* user_group
    dec,      \* group_manual_decision
    strayed   \* history: attachments a manager had no right to make

policyVars == <<apps, groups, dec, strayed>>

\* opt: a client requires consent, a service provider may be started from here.
NoApp == [on |-> FALSE, gone |-> FALSE, dis |-> FALSE, restricted |-> FALSE,
          opt |-> FALSE, scopes |-> {}, groups |-> {}, managers |-> {}]
NoGroup == [kind |-> "none", rule |-> None]
NoEval == [restricted |-> TRUE, facts |-> {}, known |-> {}, manual |-> {}]

\* Local variables of a request.
Blank == [op |-> "none", s |-> 1, a |-> None, x |-> None, g |-> None, n |-> None, val |-> None,
          set |-> {}, member |-> {}, ev |-> NoEval, age |-> None, opt |-> FALSE]

Finish(p) == Goto(p, "idle") /\ Set(p, Blank)

-----------------------------------------------------------------------------
(* Rules                                                                     *)

\* GetAccountAccessFacts: confirmed providers and usable sign-in methods.
\* (Protocols and avatars are facts of the same form.)
Facts(a) ==
    LET mine == {l \in links : l.a = a /\ l.conf}
    IN  {<<"provider", l.idp>> : l \in mine}
        \cup (IF KeysOf(a) # {} THEN {<<"method", "passkey">>} ELSE {})
        \cup (IF pw[a].val # None /\ totp[a].sec # 0 THEN {<<"method", "password_totp">>} ELSE {})
        \cup (IF UsableSignIn(a, mine) # {} THEN {<<"method", "federation">>} ELSE {})

\* ListKnownUpstreamIDPSlugs.
KnownProviders == {i \in Idps : idps[i].on}

\* Whether a condition holds of an account with the facts F.
EvaluateCondition(c, F) ==
    LET holds[d \in Conditions] ==
            CASE d.op = "all" -> \A i \in DOMAIN d.kids : holds[d.kids[i]]
              [] d.op = "any" -> \E i \in DOMAIN d.kids : holds[d.kids[i]]
              [] d.op = "not" -> ~holds[d.kids[1]]
              [] OTHER -> d.fact \in F
    IN  holds[c]

ValidFact(f, known) == f[1] = "provider" => f[2] \in known

NodesOf(c) ==
    LET nodes[d \in Conditions] == 1 + FoldSeq(LAMBDA k, n : n + nodes[k], 0, d.kids)
    IN  nodes[c]

\* Shape of a combinator or fact, without what is below it.
ValidNode(c, known) ==
    CASE c.op \in {"all", "any"} -> Len(c.kids) \in 1..MaxRuleChildren
      [] c.op = "not" -> Len(c.kids) = 1 /\ c.kids[1].op = ""
      [] OTHER -> c.kids = <<>> /\ ValidFact(c.fact, known)

\* validateCondition, with the levels still allowed.
ValidCondition(c, known) ==
    LET valid[m \in 0..MaxRuleDepth] == [d \in Conditions |->
            /\ m > 0 /\ ValidNode(d, known)
            /\ \A i \in DOMAIN d.kids : valid[m - 1][d.kids[i]]]
    IN  valid[MaxRuleDepth][c]

ParseAndValidateRule(c, known) == NodesOf(c) <= MaxRuleNodes /\ ValidCondition(c, known)

-----------------------------------------------------------------------------
(* Evaluation                                                                *)

Attached(x, kind) == {g \in apps[x].groups : groups[g].kind = kind}

\* ListManualDecisionsForOIDCApp and its SAML twin.
Manual(x, a) == {<<g, dec[<<g, a>>]>> : g \in {h \in Attached(x, "manual") : dec[<<h, a>>] # "none"}}

\* The application row, the facts and the providers are read ...
EvalRead(x, a) == [NoEval EXCEPT !.restricted = apps[x].restricted, !.facts = Facts(a),
                       !.known = KnownProviders]

\* ... then the manual decisions ...
Evaluate(p, x, a, l) == Set(p, [l EXCEPT !.ev = EvalRead(x, a)]) /\ Goto(p, "evManual")

Decision(op) == CASE op = "authorize" -> "azDecide" [] op = "require" -> "needDecide"
                  [] op = "sso" -> "ssoDecide" [] op = "ssoinit" -> "initDecide"
                  [] op = "resume" -> "resume" [] op = "fa" -> "faDecide" [] op = "pat" -> "patDecide"

EvalManual(p) ==
    /\ pc[p] = "evManual"
    /\ Set(p, [loc[p] EXCEPT !.ev.manual = Manual(loc[p].x, loc[p].a)])
    /\ Goto(p, Decision(loc[p].op))
    /\ UNCHANGED <<tables, policyVars>>

\* Any deny wins, then an allow, then a rule; an application that is not restricted
\* is open to all.
DecideGroupsAllowFirst(restricted, manual, matches) ==
    \/ ~restricted
    \/ \E m \in manual : m[2] = "allow"
    \/ matches # {}
DecideGroups(restricted, manual, matches) ==
    \/ ~restricted
    \/ /\ \A m \in manual : m[2] # "deny"
       /\ manual # {} \/ matches # {}

\* ... then the rule groups.  One rule that is no longer valid (its provider was
\* deleted) fails the evaluation, and a failed evaluation lets nobody in.
EvalAllowsOpen(ev, x) ==
    LET matches == {g \in Attached(x, "rule") : EvaluateCondition(groups[g].rule, ev.facts)}
    IN  DecideGroups(ev.restricted, ev.manual, matches)
EvalAllows(ev, x) ==
    LET rules == Attached(x, "rule")
        matches == {g \in rules : EvaluateCondition(groups[g].rule, ev.facts)}
    IN  /\ \A g \in rules : ParseAndValidateRule(groups[g].rule, ev.known)
        /\ DecideGroups(ev.restricted, ev.manual, matches)

-----------------------------------------------------------------------------
(* Groups                                                                    *)

\* user_group and group_manual_decision
GroupOn(g) == groups[g].kind \in {"manual", "rule"}
RequireGlobalGroupKind(g, kind) == groups[g].kind = kind
CreateGlobalGroup(g, kind, c) ==
    [groups EXCEPT ![g] = [kind |-> kind, rule |-> IF kind = "rule" THEN c ELSE None]]
DeleteGlobalGroup(g) == [groups EXCEPT ![g] = [kind |-> "gone", rule |-> None]]
UpsertManualDecision(g, a, e) == [dec EXCEPT ![<<g, a>>] = e]
ClearManualDecision(g, a) == [dec EXCEPT ![<<g, a>>] = "none"]

CreateGroup(s, g, kind, c) ==
    /\ Admin(s, "groups") /\ groups[g].kind = "none"
    /\ kind = "rule" => ParseAndValidateRule(c, KnownProviders)
    /\ groups' = CreateGlobalGroup(g, kind, c)
    /\ UNCHANGED <<tables, frame, apps, dec, strayed>>

\* An update that names no rule writes back the one it read.
UpdateGroupRead(p, s, g, c) ==
    /\ Idle(p, "groups") /\ Admin(s, "groups") /\ GroupOn(g)
    /\ c # None => groups[g].kind = "rule" /\ ParseAndValidateRule(c, KnownProviders)
    /\ Set(p, [Blank EXCEPT !.op = "group", !.g = g, !.val = IF c = None THEN groups[g].rule ELSE c])
    /\ Goto(p, "groupWrite")
    /\ UNCHANGED <<tables, policyVars>>

UpdateGroupWrite(p) ==
    LET g == loc[p].g
    IN  /\ pc[p] = "groupWrite"
        /\ groups' = IF GroupOn(g) THEN [groups EXCEPT ![g].rule = loc[p].val] ELSE groups
        /\ Finish(p)
        /\ UNCHANGED <<tables, apps, dec, strayed>>

\* A group attached to an application cannot be deleted; its decisions go with it.
DeleteGroup(s, g) ==
    /\ Admin(s, "groups") /\ GroupOn(g)
    /\ \A x \in Apps : g \notin apps[x].groups
    /\ groups' = DeleteGlobalGroup(g)
    /\ dec' = [y \in Groups \X Accounts |-> IF y[1] = g THEN "none" ELSE dec[y]]
    /\ UNCHANGED <<tables, frame, apps, strayed>>

UpsertDecision(s, g, a, e) ==
    /\ Admin(s, "decisions") /\ RequireGlobalGroupKind(g, "manual") /\ acct[a].on
    /\ dec' = UpsertManualDecision(g, a, e)
    /\ UNCHANGED <<tables, frame, apps, groups, strayed>>

ClearDecision(s, g, a) ==
    /\ Admin(s, "decisions") /\ RequireGlobalGroupKind(g, "manual") /\ dec[<<g, a>>] # "none"
    /\ dec' = ClearManualDecision(g, a)
    /\ UNCHANGED <<tables, frame, apps, groups, strayed>>

-----------------------------------------------------------------------------
(* Managers                                                                  *)

AddedManager(x, a) == [apps EXCEPT ![x].managers = @ \cup {a}]
RemovedManager(x, a) == [apps EXCEPT ![x].managers = @ \ {a}]

AssignManager(s, x, a) ==
    /\ Admin(s, "managers") /\ apps[x].on /\ Enabled(a)
    /\ apps' = AddedManager(x, a)
    /\ UNCHANGED <<tables, frame, groups, dec, strayed>>

RemoveManager(s, x, a) ==
    /\ Admin(s, "managers") /\ a \in apps[x].managers
    /\ apps' = RemovedManager(x, a)
    /\ UNCHANGED <<tables, frame, groups, dec, strayed>>

AuthorizeManager(s, x) ==
    Caller(s) /\ apps[x].on /\ (acct[sess[s].a].admin \/ sess[s].a \in apps[x].managers)

\* ListAccountGroups: fails as a whole when some rule is no longer valid.
RulesValid == \A g \in Groups : groups[g].kind = "rule" =>
                  ParseAndValidateRule(groups[g].rule, KnownProviders)
AccountGroups(a) ==
    {g \in Groups : CASE groups[g].kind = "manual" -> dec[<<g, a>>] = "allow"
                      [] groups[g].kind = "rule" -> EvaluateCondition(groups[g].rule, Facts(a))
                      [] OTHER -> FALSE}

\* SELECT ... FOR UPDATE of the application row, held until the commit: nobody else
\* locks, updates or deletes the row.
RowFreeAlways(p, x) == TRUE
RowFree(p, x) == \A q \in Procs \ {p} : ~(pc[q] = "replace" /\ loc[q].x = x)

\* Existing groups, and for a manager only groups that are attached or that count
\* him as a member.
ValidateGroupReplacement(a, x, G) ==
    /\ \A g \in G : GroupOn(g)
    /\ \/ acct[a].admin \/ G \subseteq apps[x].groups
       \/ RulesValid /\ G \subseteq apps[x].groups \cup AccountGroups(a)

\* PUT .../groups: under the row lock the manager is authorized again and the list
\* is validated ...
ReplaceGroups(p, s, x, G) ==
    LET a == sess[s].a
    IN  /\ Idle(p, "replace") /\ AuthorizeManager(s, x) /\ RowFree(p, x)
        /\ ValidateGroupReplacement(a, x, G)
        /\ Set(p, [Blank EXCEPT !.op = "replace", !.x = x, !.a = a, !.set = G, !.member =
                      IF acct[a].admin THEN Groups ELSE IF RulesValid THEN AccountGroups(a) ELSE {}])
        /\ Goto(p, "replace")
        /\ UNCHANGED <<tables, policyVars>>

\* ... and the rows are replaced by one statement, which fails on a group that was
\* deleted meanwhile.
ReplaceGroupsCommit(p) ==
    LET x == loc[p].x
    IN  /\ pc[p] = "replace"
        /\ IF apps[x].on /\ \A g \in loc[p].set : GroupOn(g)
           THEN /\ apps' = [apps EXCEPT ![x].groups = loc[p].set]
                /\ strayed' = strayed \cup {<<x, g>> : g \in loc[p].set
                                                   \ (apps[x].groups \cup loc[p].member)}
           ELSE UNCHANGED <<apps, strayed>>
        /\ Finish(p)
        /\ UNCHANGED <<tables, groups, dec>>

-----------------------------------------------------------------------------
(* Applications                                                              *)

Created(restricted, opt, scopes) ==
    [NoApp EXCEPT !.on = TRUE, !.restricted = restricted, !.opt = opt, !.scopes = scopes]

\* validateOIDCScopes: the scope of a provider needs the provider.
ValidScopes(scopes) == scopes \cap Idps \subseteq KnownProviders

\* The scopes of an OIDC client are validated before it is inserted.
CreateOIDCApplication(p, s, x, scopes) ==
    /\ Idle(p, "apps") /\ Admin(s, "apps") /\ ValidScopes(scopes)
    /\ Set(p, [Blank EXCEPT !.op = "appcreate", !.x = x, !.set = scopes])
    /\ Goto(p, "insert")
    /\ UNCHANGED <<tables, policyVars>>

InsertOIDCClient(p, restricted, opt) ==
    LET x == loc[p].x
    IN  /\ pc[p] = "insert"
        /\ apps' = IF apps[x].on THEN apps
                   ELSE [apps EXCEPT ![x] = Created(restricted, opt, loc[p].set)]
        /\ Finish(p)
        /\ UNCHANGED <<tables, groups, dec, strayed>>

\* The id of a service provider is new.
InsertSAMLSP(x, restricted, opt) ==
    /\ ~apps[x].on /\ ~apps[x].gone
    /\ apps' = [apps EXCEPT ![x] = Created(restricted, opt, {})]

\* A service provider, its endpoints and keys are one transaction.
CreateSAMLApplication(s, x, restricted, opt) ==
    /\ Admin(s, "apps") /\ InsertSAMLSP(x, restricted, opt)
    /\ UNCHANGED <<tables, frame, groups, dec, strayed>>

\* A forward-auth client requires no consent and may ask for no provider's scope.
\* The client and its host are two statements, taken for one.
RegisterForwardAuthApp(x, restricted) ==
    /\ ~apps[x].on
    /\ apps' = [apps EXCEPT ![x] = Created(restricted, FALSE, {})]

CreateForwardAuthApp(s, x, restricted) ==
    /\ Admin(s, "apps") /\ RegisterForwardAuthApp(x, restricted)
    /\ UNCHANGED <<tables, frame, groups, dec, strayed>>

\* The handlers of one application authorize the manager and then write by a
\* statement of their own, whoever manages it by then.
ManageApp(p, s, x, op, scopes) ==
    /\ Idle(p, op) /\ AuthorizeManager(s, x) /\ ValidScopes(scopes)
    /\ Set(p, [Blank EXCEPT !.op = op, !.x = x, !.set = scopes])
    /\ Goto(p, "manage")
    /\ UNCHANGED <<tables, policyVars>>

Managed(p, op, b) ==
    /\ pc[p] = "manage" /\ loc[p].op = op /\ RowFree(p, loc[p].x)
    /\ IF apps[loc[p].x].on THEN apps' = [apps EXCEPT ![loc[p].x] = b] ELSE UNCHANGED apps
    /\ Finish(p)
    /\ UNCHANGED <<tables, groups, dec, strayed>>

\* The row of application x as a statement leaves it.
AccessRestricted(x, b) == [apps[x] EXCEPT !.restricted = b]
SAMLSPDisabled(x, b) == [apps[x] EXCEPT !.dis = b]
UpdatedOIDCClient(x, dis, consent, scopes) ==
    [apps[x] EXCEPT !.dis = dis, !.opt = consent, !.scopes = scopes]
UpdatedSAMLSP(x, initiated) == [apps[x] EXCEPT !.opt = initiated]

SetRestricted(p, b) == Managed(p, "restrict", AccessRestricted(loc[p].x, b))

SetOIDCApplicationDisabled(p, b) ==
    /\ loc[p].x \in OidcApps
    /\ Managed(p, "appdisable", [apps[loc[p].x] EXCEPT !.dis = b])

SetSAMLApplicationDisabled(p, b) ==
    /\ loc[p].x \in SamlApps
    /\ Managed(p, "appdisable", SAMLSPDisabled(loc[p].x, b))

SetForwardAuthAppDisabled(p, b) ==
    /\ loc[p].x \in FaApps
    /\ Managed(p, "appdisable", [apps[loc[p].x] EXCEPT !.dis = b])

UpdateOIDCApplication(p, dis, opt) ==
    /\ loc[p].x \in OidcApps
    /\ Managed(p, "appupdate", UpdatedOIDCClient(loc[p].x, dis, opt, loc[p].set))

UpdateSAMLApplication(p, opt) ==
    /\ loc[p].x \in SamlApps
    /\ Managed(p, "appupdate", UpdatedSAMLSP(loc[p].x, opt))

DeletedApp == [NoApp EXCEPT !.gone = TRUE]

PolicyNext ==
    \/ \E s \in Sids :
        \/ \E g \in Groups :
            \/ \E c \in Conditions : CreateGroup(s, g, "rule", c)
            \/ CreateGroup(s, g, "manual", None)
            \/ DeleteGroup(s, g)
            \/ \E a \in Accounts :
                \/ \E e \in {"allow", "deny"} : UpsertDecision(s, g, a, e)
                \/ ClearDecision(s, g, a)
        \/ \E x \in Apps :
            \/ \E a \in Accounts : AssignManager(s, x, a) \/ RemoveManager(s, x, a)
            \/ \E r \in BOOLEAN :
                \/ x \in FaApps /\ CreateForwardAuthApp(s, x, r)
                \/ x \in SamlApps /\ \E c \in BOOLEAN : CreateSAMLApplication(s, x, r, c)
    \/ \E p \in Procs :
        \/ \E s \in Sids, g \in Groups, c \in Conditions \cup {None} : UpdateGroupRead(p, s, g, c)
        \/ UpdateGroupWrite(p) \/ EvalManual(p)
        \/ \E s \in Sids, x \in Apps :
            \/ \E G \in SUBSET Groups : ReplaceGroups(p, s, x, G)
            \/ \E op \in {"restrict", "appdisable"} : ManageApp(p, s, x, op, {})
            \/ x \in OidcApps /\ \E sc \in SUBSET Scopes :
                \/ CreateOIDCApplication(p, s, x, sc)
                \/ ManageApp(p, s, x, "appupdate", sc)
            \/ x \in SamlApps /\ ManageApp(p, s, x, "appupdate", {})
            \/ HasFreshSudo(s) /\ ManageApp(p, s, x, "appdelete", {})
        \/ ReplaceGroupsCommit(p)
        \/ \E b, c \in BOOLEAN : InsertOIDCClient(p, b, c) \/ UpdateOIDCApplication(p, b, c)
        \/ \E b \in BOOLEAN :
            \/ SetRestricted(p, b) \/ SetOIDCApplicationDisabled(p, b)
            \/ SetSAMLApplicationDisabled(p, b) \/ SetForwardAuthAppDisabled(p, b)
            \/ UpdateSAMLApplication(p, b)
=============================================================================
