------------------------- MODULE ApplicationsProofs -------------------------
(***************************************************************************)
(* Applications, for any number of accounts, applications, processes,      *)
(* entries, requests and keys.  Every step is first shown to be one of a   *)
(* component that moves requests between the labels of that component and  *)
(* leaves the other tables alone (StepSplit); each invariant is then kept  *)
(* by going through the components:                                        *)
(*   - a row lock has one holder, whose groups are within his scope;       *)
(*   - consent that is stored was given, or the request that writes it     *)
(*     back is known;                                                      *)
(*   - names of entries are handed out once, so what is gone stays gone;   *)
(*   - a key lasts as long as what it may have signed;                     *)
(*   - what was turned into something is gone, and a request of a service  *)
(*     provider has one claimant or one answer.                            *)
(***************************************************************************)
EXTENDS Applications, KvProofs, FiniteSetTheorems

\* The labels between which the requests of each component move.
PolicyAt == {"idle", "groupWrite", "insert", "manage"}
AuthorizeAt == {"idle", "azDecide", "azGrant", "needDecide", "consentWrite", "sent"}
SamlAt == {"idle", "ssoDecide", "ssoConsume", "ssoGrant", "initDecide", "resume", "resumed", "slo", "sent"}
ForwardAuthAt == {"idle", "faDecide", "faRenew", "callback", "patDecide", "sent"}
KeysAt == {"idle", "retire", "install", "sign"}
CommandsAt == {"idle", "select", "decide", "cliInsert", "manage", "cliSeal", "cliReplace",
               "keyInsert", "keyActivate", "keyRetire"}

FrameOK == DOMAIN pc = Procs /\ DOMAIN loc = Procs

\* Only requests between labels of L move.
Moves(L) ==
    /\ DOMAIN pc' = Procs /\ DOMAIN loc' = Procs
    /\ \A q \in Procs : \/ pc'[q] = pc[q] /\ loc'[q] = loc[q]
                        \/ pc[q] \in L /\ pc'[q] \in L

\* Request p goes on, between labels of L.
Step(p, L) ==
    /\ pc[p] \in L /\ (\E l \in L : Goto(p, l))
    /\ UNCHANGED loc \/ \E v : Set(p, v)

LEMMA StepMoves ==
    ASSUME FrameOK, NEW L, NEW p \in Procs, Step(p, L)
    PROVE  Moves(L)
<1>1. PICK l \in L : Goto(p, l)  BY DEF Step
<1>2. CASE UNCHANGED loc  BY <1>1, <1>2 DEF Step, Moves, Goto, FrameOK
<1>3. CASE \E v : Set(p, v)
  <2>1. PICK v : Set(p, v)  BY <1>3
  <2> QED  BY <1>1, <2>1 DEF Step, Moves, Goto, Set, FrameOK
<1> QED  BY <1>2, <1>3 DEF Step

LEMMA QuietMoves ==
    ASSUME FrameOK, NEW L, UNCHANGED <<pc, loc>>
    PROVE  Moves(L)
BY DEF Moves, FrameOK

\* The fields of the local variables, and of the part an evaluation fills.
Fields == {"op", "s", "a", "x", "g", "n", "val", "set", "member", "ev", "age", "opt"}
EvalFields == {"restricted", "facts", "known", "manual"}

\* Request p of account a and application x starts with the first half of an evaluation.
Form(l, op, x, a) == DOMAIN l = Fields /\ l.op = op /\ l.x = x /\ l.a = a
Begin(p, x, a, l) ==
    /\ pc[p] = "idle" /\ (\E op \in Serving : Form(l, op, x, a))
    /\ Evaluate(p, x, a, l)
Begun(O) == \E p \in Procs : \E x, a, l : Begin(p, x, a, l) /\ l.op \in O

\* What the requests of each protocol are.
AuthorizeOps == {"authorize", "require"}
SamlOps == {"sso", "ssoinit", "resume"}
ForwardAuthOps == {"fa", "pat"}

LEMMA Begins ==
    ASSUME NEW p \in Procs, NEW word, Idle(p, word), NEW O, NEW op \in Serving \cap O, NEW x, NEW a, NEW l,
           Form(l, op, x, a), Evaluate(p, x, a, l)
    PROVE  Begun(O)
BY Zenon DEF Idle, Begin, Begun, Form

-----------------------------------------------------------------------------
(* The steps of each component                                               *)

\* The steps of the policy's handlers, but for evaluation and the replacement of groups.
PolicyRest ==
    \/ \E s \in Sids :
        \/ \E g \in Groups :
            \/ \E c \in Conditions : CreateGroup(s, g, "rule", c)
            \/ CreateGroup(s, g, "manual", None)
            \/ DeleteGroup(s, g)
            \/ \E a \in Accounts :
                \/ \E e \in {"allow", "deny"} : UpsertDecision(s, g, a, e)
                \/ ClearDecision(s, g, a)
        \/ \E x \in Apps :
            \/ \E a \in Accounts : AssignManager(s, x, a) \/ RemoveManager(s, x, a)
            \/ \E r \in BOOLEAN :
                \/ x \in FaApps /\ CreateForwardAuthApp(s, x, r)
                \/ x \in SamlApps /\ \E c \in BOOLEAN : CreateSAMLApplication(s, x, r, c)
    \/ \E p \in Procs :
        \/ \E s \in Sids, g \in Groups, c \in Conditions \cup {None} : UpdateGroupRead(p, s, g, c)
        \/ UpdateGroupWrite(p)
        \/ \E s \in Sids, x \in Apps :
            \/ \E op \in {"restrict", "appdisable"} : ManageApp(p, s, x, op, {})
            \/ x \in OidcApps /\ \E sc \in SUBSET Scopes :
                \/ CreateOIDCApplication(p, s, x, sc)
                \/ ManageApp(p, s, x, "appupdate", sc)
            \/ x \in SamlApps /\ ManageApp(p, s, x, "appupdate", {})
            \/ HasFreshSudo(s) /\ ManageApp(p, s, x, "appdelete", {})
        \/ \E b, c \in BOOLEAN : InsertOIDCClient(p, b, c) \/ UpdateOIDCApplication(p, b, c)
        \/ \E b \in BOOLEAN :
            \/ SetRestricted(p, b) \/ SetOIDCApplicationDisabled(p, b)
            \/ SetSAMLApplicationDisabled(p, b) \/ SetForwardAuthAppDisabled(p, b)
            \/ UpdateSAMLApplication(p, b)

LEMMA PolicySplit ==
    ASSUME PolicyNext
    PROVE  \/ PolicyRest
           \/ \E p \in Procs :
                \/ EvalManual(p) \/ ReplaceGroupsCommit(p)
                \/ \E s \in Sids, x \in Apps, G \in SUBSET Groups : ReplaceGroups(p, s, x, G)
BY Zenon DEF PolicyNext, PolicyRest

LEMMA PolicyMoves ==
    ASSUME FrameOK, PolicyRest
    PROVE  Moves(PolicyAt) /\ UNCHANGED <<tables, strayed>>
<1>1. ASSUME NEW p \in Procs, NEW s \in Sids,
             \/ \E g \in Groups, c \in Conditions \cup {None} : UpdateGroupRead(p, s, g, c)
             \/ \E x \in Apps : \E sc, op : CreateOIDCApplication(p, s, x, sc) \/ ManageApp(p, s, x, op, sc)
      PROVE  Step(p, PolicyAt) /\ UNCHANGED <<tables, strayed>>
  BY <1>1, Zenon DEF UpdateGroupRead, CreateOIDCApplication, ManageApp, Step, PolicyAt, Idle, policyVars
<1>2. ASSUME NEW p \in Procs, UpdateGroupWrite(p) \/ \E b, c \in BOOLEAN : InsertOIDCClient(p, b, c)
      PROVE  Step(p, PolicyAt) /\ UNCHANGED <<tables, strayed>>
  BY <1>2, Zenon DEF UpdateGroupWrite, InsertOIDCClient, Finish, Step, PolicyAt
<1>3. ASSUME NEW p \in Procs, NEW op, NEW b, Managed(p, op, b)
      PROVE  Step(p, PolicyAt) /\ UNCHANGED <<tables, strayed>>
  BY <1>3, Zenon DEF Managed, Finish, Step, PolicyAt
<1>4. ASSUME NEW p \in Procs, NEW b, NEW c,
             \/ UpdateOIDCApplication(p, b, c) \/ SetRestricted(p, b) \/ SetOIDCApplicationDisabled(p, b)
             \/ SetSAMLApplicationDisabled(p, b) \/ SetForwardAuthAppDisabled(p, b) \/ UpdateSAMLApplication(p, b)
      PROVE  \E op, r : Managed(p, op, r)
  BY <1>4, Zenon DEF UpdateOIDCApplication, SetRestricted, SetOIDCApplicationDisabled, SetSAMLApplicationDisabled,
     SetForwardAuthAppDisabled, UpdateSAMLApplication
<1>5. ASSUME NEW s \in Sids, NEW g \in Groups,
             \/ \E c, kind : CreateGroup(s, g, kind, c)
             \/ DeleteGroup(s, g)
             \/ \E a \in Accounts : ClearDecision(s, g, a) \/ \E e : UpsertDecision(s, g, a, e)
      PROVE  UNCHANGED <<tables, frame, strayed>>
  BY <1>5, Zenon DEF CreateGroup, DeleteGroup, ClearDecision, UpsertDecision
<1>6. ASSUME NEW s \in Sids, NEW x \in Apps,
             \/ \E a \in Accounts : AssignManager(s, x, a) \/ RemoveManager(s, x, a)
             \/ \E r : CreateForwardAuthApp(s, x, r) \/ \E c : CreateSAMLApplication(s, x, r, c)
      PROVE  UNCHANGED <<tables, frame, strayed>>
  BY <1>6, Zenon DEF AssignManager, RemoveManager, CreateForwardAuthApp, CreateSAMLApplication
<1>7. ASSUME UNCHANGED <<tables, frame, strayed>>
      PROVE  Moves(PolicyAt) /\ UNCHANGED <<tables, strayed>>
  BY <1>7, QuietMoves DEF frame
<1>8. ASSUME NEW p \in Procs, Step(p, PolicyAt) /\ UNCHANGED <<tables, strayed>>
      PROVE  Moves(PolicyAt) /\ UNCHANGED <<tables, strayed>>
  BY <1>8, StepMoves
<1> QED  BY <1>1, <1>2, <1>3, <1>4, <1>5, <1>6, <1>7, <1>8, Zenon DEF PolicyRest

\* The clock may move, by one.
Passes == clock' = clock \/ clock' = clock + 1

AuthorizeKept == UNCHANGED <<ops, maint, acct, sess, factors, federated, policyVars>> /\ Passes

\* The input of the authorization endpoint.
AuthorizeRequest(s, a, x, sc) == [Blank EXCEPT !.op = "authorize", !.s = s, !.a = a, !.x = x, !.set = sc]
AuthorizeInput(s, a, x, sc, prompt, age, m, ref, opt) ==
    [AuthorizeRequest(s, a, x, sc) EXCEPT !.val = prompt, !.age = age, !.n = m, !.g = ref, !.opt = opt]

LEMMA AuthorizeForm ==
    ASSUME NEW s, NEW a, NEW x, NEW sc, NEW prompt, NEW age, NEW m, NEW ref, NEW opt
    PROVE  LET l == AuthorizeInput(s, a, x, sc, prompt, age, m, ref, opt)
           IN  /\ Form(l, "authorize", x, a)
               /\ l.s = s /\ l.set = sc /\ l.val = prompt /\ l.age = age /\ l.n = m /\ l.opt = opt
<1> DEFINE k == AuthorizeRequest(s, a, x, sc)
           l == AuthorizeInput(s, a, x, sc, prompt, age, m, ref, opt)
<1>1. DOMAIN k = Fields /\ k.op = "authorize" /\ k.s = s /\ k.a = a /\ k.x = x /\ k.set = sc
  BY DEF AuthorizeRequest, Blank, Fields
<1>2. l = [k EXCEPT !.val = prompt, !.age = age, !.n = m, !.g = ref, !.opt = opt]  BY DEF AuthorizeInput
<1> HIDE DEF k, l
<1>3. DOMAIN l = Fields /\ l.op = "authorize" /\ l.s = s /\ l.a = a /\ l.x = x /\ l.set = sc  BY <1>1, <1>2 DEF Fields
<1>4. l.val = prompt /\ l.age = age /\ l.n = m /\ l.opt = opt  BY <1>1, <1>2 DEF Fields
<1>5. Form(l, "authorize", x, a)  BY <1>3 DEF Form
<1> QED  BY <1>3, <1>4, <1>5 DEF l

LEMMA AuthorizeMoves ==
    ASSUME FrameOK, AuthorizeNext
    PROVE  (Moves(AuthorizeAt) \/ Begun(AuthorizeOps)) /\ AuthorizeKept
<1>1. ASSUME NEW p \in Procs, NEW s, NEW x, NEW sc, NEW prompt, NEW age, NEW m, NEW ref,
             Authorize(p, s, x, sc, prompt, age, m, ref)
      PROVE  Begun(AuthorizeOps) /\ AuthorizeKept
  <2> DEFINE l == AuthorizeInput(s, sess[s].a, x, sc, prompt, age, m, ref, apps[x].opt)
  <2>1. Form(l, "authorize", x, sess[s].a)  BY AuthorizeForm
  <2>2. Idle(p, "authorize") /\ Evaluate(p, x, sess[s].a, l)  BY <1>1, Zenon DEF Authorize, AuthorizeInput, AuthorizeRequest
  <2>3. AuthorizeKept  BY <1>1, Zenon DEF Authorize, AuthorizeKept, Passes, tables
  <2> HIDE DEF l
  <2> QED  BY <2>1, <2>2, <2>3, Begins DEF Serving, AuthorizeOps
<1>9. ASSUME NEW p \in Procs, NEW s, NEW x, NEW P, RequireIdentity(p, s, x, P)
      PROVE  Begun(AuthorizeOps) /\ AuthorizeKept
  <2> DEFINE l == [Blank EXCEPT !.op = "require", !.s = s, !.a = sess[s].a, !.x = x, !.set = P]
  <2>1. Form(l, "require", x, sess[s].a)  BY DEF Form, Blank, Fields
  <2>2. Idle(p, "require") /\ Evaluate(p, x, sess[s].a, l)  BY <1>9, Zenon DEF RequireIdentity
  <2>3. AuthorizeKept  BY <1>9, Zenon DEF RequireIdentity, AuthorizeKept, Passes, tables
  <2> HIDE DEF l
  <2> QED  BY <2>1, <2>2, <2>3, Begins DEF Serving, AuthorizeOps
<1>2. ASSUME NEW p \in Procs,
             AuthorizeDenied(p) \/ AuthorizeFresh(p) \/ AuthorizeReauthed(p) \/ AuthorizeAsks(p) \/ AuthorizeMints(p)
      PROVE  Step(p, AuthorizeAt) /\ AuthorizeKept
  BY <1>2, Zenon DEF AuthorizeDenied, AuthorizeFresh, AuthorizeReauthed, AuthorizeAsks, AuthorizeMints, Decided,
     Finish, Step, AuthorizeAt, AuthorizeKept, Passes, tables
<1>3. ASSUME NEW p \in Procs, AuthorizeReauthFails(p)
      PROVE  Step(p, AuthorizeAt) /\ AuthorizeKept
  <2>1. Step(p, AuthorizeAt)  BY <1>3, Zenon DEF AuthorizeReauthFails, Decided, Finish, Step, AuthorizeAt
  <2>2. UNCHANGED <<ops, maint, acct, sess, factors, federated, policyVars>>  BY <1>3, Zenon DEF AuthorizeReauthFails
  <2>3. Passes  BY <1>3, Zenon DEF AuthorizeReauthFails, DemandReauth, Passes
  <2> QED  BY <2>1, <2>2, <2>3, Zenon DEF AuthorizeKept
<1>4. ASSUME NEW p \in Procs,
             RequireIdentityDecide(p) \/ ConsentApproved(p)
      PROVE  Step(p, AuthorizeAt) /\ AuthorizeKept
  BY <1>4, Zenon DEF RequireIdentityDecide, ConsentApproved, Finish, Step, AuthorizeAt, AuthorizeKept, Passes, tables
<1>5. ASSUME NEW p \in Procs, NEW s, NEW n, NEW b, ConsentDecision(p, s, n, b)
      PROVE  (Step(p, AuthorizeAt) \/ UNCHANGED <<pc, loc>>) /\ AuthorizeKept
  BY <1>5, Zenon DEF ConsentDecision, Idle, Step, AuthorizeAt, AuthorizeKept, Passes, tables, frame
<1>6. ASSUME NEW s, NEW x, RevokeConsent(s, x) \/ \E P : RequireIdentityMismatch(s, x, P)
      PROVE  UNCHANGED <<pc, loc>> /\ AuthorizeKept
  BY <1>6, Zenon DEF RevokeConsent, RequireIdentityMismatch, AuthorizeKept, Passes, tables, frame
<1>7. ASSUME NEW p \in Procs, Step(p, AuthorizeAt)  PROVE Moves(AuthorizeAt)  BY <1>7, StepMoves
<1>8. ASSUME UNCHANGED <<pc, loc>>  PROVE Moves(AuthorizeAt)  BY <1>8, QuietMoves
<1> QED  BY <1>1, <1>2, <1>3, <1>4, <1>5, <1>6, <1>7, <1>8, <1>9, Zenon DEF AuthorizeNext

SamlKept == UNCHANGED <<ops, maint, acct, factors, federated, policyVars, lapped>> /\ Passes

LEMMA IssuedMoves ==
    ASSUME NEW p, NEW s, NEW x, NEW r, IssueAssertion(p, s, x, r)
    PROVE  \/ Goto(p, "sent") /\ UNCHANGED loc
           \/ Finish(p) /\ UNCHANGED <<samlSess, answers>>
BY Zenon DEF IssueAssertion

LEMMA SamlMoves ==
    ASSUME FrameOK, SamlNext
    PROVE  (Moves(SamlAt) \/ Begun(SamlOps)) /\ SamlKept
<1>1. ASSUME NEW p \in Procs, NEW s, NEW r, NEW m, Sso(p, s, r, m)
      PROVE  Begun(SamlOps) /\ SamlKept
  <2> DEFINE l == [Blank EXCEPT !.op = "sso", !.s = s, !.a = sess[s].a, !.x = reqs[r].x, !.val = r, !.n = m]
  <2>1. Form(l, "sso", reqs[r].x, sess[s].a)  BY DEF Form, Blank, Fields
  <2>2. Idle(p, "sso") /\ Evaluate(p, reqs[r].x, sess[s].a, l)  BY <1>1, Zenon DEF Sso
  <2>3. SamlKept  BY <1>1, Zenon DEF Sso, SamlKept, Passes, tables, authorizeVars, authorizeHistory
  <2> HIDE DEF l
  <2> QED  BY <2>1, <2>2, <2>3, Begins DEF Serving, SamlOps
<1>13. ASSUME NEW p \in Procs, NEW s, NEW x, SsoInit(p, s, x)
       PROVE  Begun(SamlOps) /\ SamlKept
  <2> DEFINE l == [Blank EXCEPT !.op = "ssoinit", !.s = s, !.a = sess[s].a, !.x = x]
  <2>1. Form(l, "ssoinit", x, sess[s].a)  BY DEF Form, Blank, Fields
  <2>2. Idle(p, "ssoinit") /\ Evaluate(p, x, sess[s].a, l)  BY <1>13, Zenon DEF SsoInit
  <2>3. SamlKept  BY <1>13, Zenon DEF SsoInit, SamlKept, Passes, tables, authorizeVars, authorizeHistory
  <2> HIDE DEF l
  <2> QED  BY <2>1, <2>2, <2>3, Begins DEF Serving, SamlOps
<1>2. ASSUME NEW p \in Procs, SsoRefused(p) \/ SsoLosesSession(p) \/ SsoFresh(p)
      PROVE  Step(p, SamlAt) /\ SamlKept
  BY <1>2, Zenon DEF SsoRefused, SsoLosesSession, SsoFresh, SsoAllowed, Finish,
     Step, SamlAt, SamlKept, Passes, tables, authorizeVars, authorizeHistory
<1>3. ASSUME NEW p \in Procs, SsoReauthFails(p)
      PROVE  Step(p, SamlAt) /\ SamlKept
  <2>1. Step(p, SamlAt)  BY <1>3, Zenon DEF SsoReauthFails, SsoAllowed, Finish, Step, SamlAt
  <2>2. UNCHANGED <<ops, maint, acct, factors, federated, policyVars, lapped>>  BY <1>3, Zenon DEF SsoReauthFails
  <2>3. Passes  BY <1>3, Zenon DEF SsoReauthFails, DemandReauth, Passes
  <2> QED  BY <2>1, <2>2, <2>3, Zenon DEF SamlKept
<1>4. ASSUME NEW p \in Procs, SsoConsume(p) \/ SsoAsks(p) \/ SsoInitDecide(p)
      PROVE  Step(p, SamlAt) /\ SamlKept
  BY <1>4, Zenon DEF SsoConsume, SsoAsks, SsoInitDecide, Finish, Step, SamlAt, SamlKept, Passes, tables,
     authorizeVars, authorizeHistory
<1>5. ASSUME NEW p \in Procs, SsoIssues(p) \/ ResumeIssues(p)
      PROVE  Step(p, SamlAt) /\ SamlKept
  <2>1. pc[p] \in SamlAt /\ IssueAssertion(p, loc[p].s, loc[p].x, loc[p].val)
    BY <1>5, Zenon DEF SsoIssues, ResumeIssues, SamlAt
  <2>2. SamlKept  BY <1>5, Zenon DEF SsoIssues, ResumeIssues, SamlKept, Passes, tables, authorizeVars, authorizeHistory
  <2> QED  BY <2>1, <2>2, IssuedMoves, Zenon DEF Step, SamlAt, Finish
<1>6. ASSUME NEW p \in Procs, NEW s, NEW n, ConsentResume(p, s, n)
      PROVE  (Begun(SamlOps) \/ UNCHANGED <<pc, loc>>) /\ SamlKept
  <2> DEFINE t == kv[n].val
             l == [Blank EXCEPT !.op = "resume", !.s = s, !.a = t.a, !.x = t.x, !.val = t.ref, !.n = n]
  <2>1. Form(l, "resume", t.x, t.a)  BY DEF Form, Blank, Fields
  <2>2. Idle(p, "samlconsent") /\ (Evaluate(p, t.x, t.a, l) \/ UNCHANGED <<pc, loc>>)
    BY <1>6, Zenon DEF ConsentResume, frame
  <2>3. SamlKept  BY <1>6, Zenon DEF ConsentResume, SamlKept, Passes, tables, authorizeHistory
  <2> HIDE DEF l, t
  <2> QED  BY <2>1, <2>2, <2>3, Begins DEF Serving, SamlOps
<1>7. ASSUME NEW p \in Procs, ResumeRecords(p) \/ SloDone(p) \/ \E r : Slo(p, r)
      PROVE  Step(p, SamlAt) /\ SamlKept
  BY <1>7, Zenon DEF ResumeRecords, SloDone, Slo, Idle, Finish, Step, SamlAt, SamlKept, Passes, tables,
     authorizeVars, authorizeHistory
<1>8. ASSUME NEW p \in Procs, NEW s, NEW ok, SloRow(p, s, ok)
      PROVE  Moves(SamlAt) /\ SamlKept
  <2>1. SamlKept  BY <1>8, Zenon DEF SloRow, SamlKept, Passes, authorizeVars, authorizeHistory
  <2>2. Moves(SamlAt)  BY <1>8 DEF SloRow, Set, Moves, FrameOK, SamlAt
  <2> QED  BY <2>1, <2>2
<1>9. ASSUME \/ \E r, kind, x, skew, pa, fo, a : SendRequest(r, kind, x, skew, pa, fo, a)
             \/ \E r : SsoNoSession(r) \/ SloAborts(r)
             \/ \E s, n : SamlDecline(s, n)
      PROVE  UNCHANGED <<pc, loc>> /\ SamlKept
  BY <1>9, Zenon DEF SendRequest, SsoNoSession, SloAborts, SamlDecline, SamlKept, Passes, tables, frame, authorizeVars, authorizeHistory
<1>10. ASSUME NEW p \in Procs, Step(p, SamlAt)  PROVE Moves(SamlAt)  BY <1>10, StepMoves
<1>11. ASSUME UNCHANGED <<pc, loc>>  PROVE Moves(SamlAt)  BY <1>11, QuietMoves
<1>12. CASE \E p \in Procs :
        \/ \E s \in Visits, r \in Requests, m \in Markers("samlreauth") : Sso(p, s, r, m)
        \/ SsoRefused(p) \/ SsoLosesSession(p) \/ SsoFresh(p) \/ SsoConsume(p) \/ SsoIssues(p)
        \/ SsoReauthFails(p) \/ SsoAsks(p)
        \/ \E s \in Visits, x \in SamlApps : SsoInit(p, s, x)
        \/ SsoInitDecide(p)
        \/ \E s \in Visits, n \in Nonces : ConsentResume(p, s, n)
        \/ ResumeRecords(p) \/ ResumeIssues(p)
        \/ \E r \in Requests : Slo(p, r)
        \/ \E s \in Sids, ok \in BOOLEAN : SloRow(p, s, ok)
        \/ SloDone(p)
  BY <1>1, <1>2, <1>3, <1>4, <1>5, <1>6, <1>7, <1>8, <1>10, <1>11, <1>12, <1>13, Zenon
<1> QED  BY <1>9, <1>11, <1>12, Zenon DEF SamlNext

ForwardAuthKept == UNCHANGED <<tables, policyVars, consents, agreed, lapped, demanded, samlVars>>

LEMMA ForwardAuthMoves ==
    ASSUME FrameOK, ForwardAuthNext
    PROVE  (Moves(ForwardAuthAt) \/ Begun(ForwardAuthOps)) /\ ForwardAuthKept
<1>1. ASSUME NEW p \in Procs, NEW x, NEW n, Verify(p, x, n)
      PROVE  Begun(ForwardAuthOps) /\ ForwardAuthKept
  <2> DEFINE l == [Blank EXCEPT !.op = "fa", !.a = kv[n].val.a, !.x = x, !.n = n, !.val = kv[n].val]
  <2>1. Form(l, "fa", x, kv[n].val.a)  BY DEF Form, Blank, Fields
  <2>2. Idle(p, "verify") /\ Evaluate(p, x, kv[n].val.a, l)  BY <1>1, Zenon DEF Verify
  <2>3. ForwardAuthKept  BY <1>1, Zenon DEF Verify, ForwardAuthKept, authorizeVars, authorizeHistory
  <2> HIDE DEF l
  <2> QED  BY <2>1, <2>2, <2>3, Begins DEF Serving, ForwardAuthOps
<1>8. ASSUME NEW p \in Procs, NEW x, NEW t, VerifyPat(p, x, t)
      PROVE  Begun(ForwardAuthOps) /\ ForwardAuthKept
  <2> DEFINE l == [Blank EXCEPT !.op = "pat", !.a = pats[t].a, !.x = x, !.val = t]
  <2>1. Form(l, "pat", x, pats[t].a)  BY DEF Form, Blank, Fields
  <2>2. Idle(p, "pat") /\ Evaluate(p, x, pats[t].a, l)  BY <1>8, Zenon DEF VerifyPat
  <2>3. ForwardAuthKept  BY <1>8, Zenon DEF VerifyPat, ForwardAuthKept, authorizeVars, authorizeHistory
  <2> HIDE DEF l
  <2> QED  BY <2>1, <2>2, <2>3, Begins DEF Serving, ForwardAuthOps
<1>2. ASSUME NEW p \in Procs, VerifyDecide(p)
      PROVE  Step(p, ForwardAuthAt) /\ ForwardAuthKept
  <2>1. CASE kv[loc[p].n].exp - clock > FaTTL \div 4
    BY <1>2, <2>1, Zenon DEF VerifyDecide, Finish, Step, ForwardAuthAt, ForwardAuthKept, authorizeVars, authorizeHistory
  <2>2. CASE ~(kv[loc[p].n].exp - clock > FaTTL \div 4)
    BY <1>2, <2>2, Zenon DEF VerifyDecide, Finish, Step, ForwardAuthAt, ForwardAuthKept, authorizeVars, authorizeHistory
  <2> QED  BY <2>1, <2>2
<1>3. ASSUME NEW p \in Procs, VerifyRenews(p) \/ VerifyDenied(p) \/ VerifyPatDecide(p) \/ CallbackMints(p)
      PROVE  Step(p, ForwardAuthAt) /\ ForwardAuthKept
  BY <1>3, Zenon DEF VerifyRenews, VerifyDenied, VerifyPatDecide, CallbackMints, Finish,
     Step, ForwardAuthAt, ForwardAuthKept, authorizeVars, authorizeHistory
<1>4. ASSUME NEW p \in Procs, NEW st, NEW n, Callback(p, st, n)
      PROVE  Step(p, ForwardAuthAt) /\ ForwardAuthKept
  BY <1>4, Zenon DEF Callback, Idle, Step, ForwardAuthAt, ForwardAuthKept
<1>5. ASSUME \/ \E s, t, access, A, b : CreateToken(s, t, access, A, b)
             \/ \E s, t : RevokeToken(s, t)
             \/ \E n : SignOut(n)
             \/ \E x : VerifyRedirects(x)
      PROVE  UNCHANGED <<pc, loc>> /\ ForwardAuthKept
  BY <1>5, Zenon DEF CreateToken, RevokeToken, SignOut, VerifyRedirects, frame, ForwardAuthKept, authorizeVars, authorizeHistory
<1>6. ASSUME NEW p \in Procs, Step(p, ForwardAuthAt)  PROVE Moves(ForwardAuthAt)  BY <1>6, StepMoves
<1>7. ASSUME UNCHANGED <<pc, loc>>  PROVE Moves(ForwardAuthAt)  BY <1>7, QuietMoves
<1> QED  BY <1>1, <1>2, <1>3, <1>4, <1>5, <1>6, <1>7, <1>8, Zenon DEF ForwardAuthNext

LEMMA KeysMoves ==
    ASSUME FrameOK, KeysNext
    PROVE  Moves(KeysAt) /\ UNCHANGED others
<1>1. ASSUME NEW p \in Procs, (\E s, c, k : RetireKeyRead(p, s, c, k)) \/ (\E c : RefreshRead(p, c))
      PROVE  Step(p, KeysAt) /\ UNCHANGED others
  BY <1>1, Zenon DEF RetireKeyRead, RefreshRead, Idle, Step, KeysAt
<1>2. ASSUME NEW p \in Procs, RetireKeyWrite(p) \/ RefreshInstall(p) \/ RefreshFails(p) \/ Sign(p)
      PROVE  Step(p, KeysAt) /\ UNCHANGED others
  BY <1>2, Zenon DEF RetireKeyWrite, RefreshInstall, RefreshFails, Sign, Finish, Step, KeysAt
<1>3. ASSUME \/ \E s, c, k : GenerateKey(s, c, k) \/ ActivateKey(s, c, k)
             \/ \E k : Bootstrap(k)
             \/ Reconcile
             \/ \E c : SignCached(c)
      PROVE  UNCHANGED <<pc, loc>> /\ UNCHANGED others
  BY <1>3, Zenon DEF GenerateKey, ActivateKey, Bootstrap, Reconcile, SignCached, frame
<1>4. ASSUME NEW p \in Procs, Step(p, KeysAt)  PROVE Moves(KeysAt)  BY <1>4, StepMoves
<1>5. ASSUME UNCHANGED <<pc, loc>>  PROVE Moves(KeysAt)  BY <1>5, QuietMoves
<1> QED  BY <1>1, <1>2, <1>3, <1>4, <1>5, Zenon DEF KeysNext

CommandsKept ==
    UNCHANGED <<clock, ops, maint, acct, sess, factors, groups, strayed, kv, handed, used, lapped, demanded,
                reqs, answers, consumption, signedOut, cache, signed>>

\* The commands that change keys, and the labels of the others.
KeyCommand(p) ==
    \/ \E b \in BOOLEAN : KeyGenerate(p, b)
    \/ \E k \in Kids : KeyInsert(p, k) \/ KeyRetire(p, k)
    \/ KeyActivate(p) \/ KeyRetired(p)
CliAt == CommandsAt \ {"keyInsert", "keyActivate", "keyRetire"}
CliMoves == Moves(CliAt) /\ UNCHANGED skeys

LEMMA CommandsMoves ==
    ASSUME FrameOK, CommandsNext
    PROVE  Moves(CommandsAt) /\ CommandsKept /\ (CliMoves \/ \E p \in Procs : KeyCommand(p))
<1> USE DEF commandVars, authorizeVars, authorizeHistory, samlVars, faVars, keyVars, tables, others, policyVars
<1>0. /\ CliAt \subseteq CommandsAt /\ {"idle", "select", "decide", "cliInsert", "manage", "cliSeal", "cliReplace"} \subseteq CliAt
  BY DEF CliAt, CommandsAt
<1>1. ASSUME NEW p \in Procs,
             \/ \E x, G : ReplaceAppGroups(p, x, G)
             \/ \E x, g, a, e : FindBoundPolicyGroup(p, x, g, a, e)
             \/ \E x, sc : ClientCreate(p, x, sc) \/ ClientUpdate(p, x, sc)
      PROVE  Step(p, CliAt) /\ CommandsKept /\ UNCHANGED skeys
  BY <1>0, <1>1, Zenon DEF ReplaceAppGroups, FindBoundPolicyGroup, ClientCreate, ClientUpdate, Idle, Step, CommandsKept
<1>2. ASSUME NEW p \in Procs, SelectGroups(p) \/ DecisionSet(p) \/ \E b : ClientInsert(p, b)
      PROVE  Step(p, CliAt) /\ CommandsKept /\ UNCHANGED skeys
  BY <1>0, <1>2, Zenon DEF SelectGroups, DecisionSet, ClientInsert, Finish, Step, CommandsKept
<1>3. ASSUME NEW p \in Procs, NEW b, NEW c, ClientReplace(p, b, c)
      PROVE  Step(p, CliAt) /\ CommandsKept /\ UNCHANGED skeys
  BY <1>0, <1>3, Zenon DEF ClientReplace, Managed, Finish, Step, CommandsKept
<1>4. ASSUME NEW p \in Procs,
             \/ \E i, m, b : ProviderCreate(p, i, m, b) \/ ProviderUpdate(p, i, m, b)
             \/ ProviderReplace(p)
             \/ \E b : ProviderSeal(p, b)
      PROVE  Step(p, CliAt) /\ CommandsKept /\ UNCHANGED skeys
  BY <1>0, <1>4, Zenon DEF ProviderCreate, ProviderUpdate, ProviderReplace, ProviderSeal, Idle, Finish, Step, CommandsKept
<1>5. ASSUME NEW p \in Procs, KeyCommand(p)
      PROVE  Step(p, CommandsAt) /\ CommandsKept
  BY <1>5, Zenon DEF KeyCommand, KeyGenerate, KeyInsert, KeyRetire, KeyActivate, KeyRetired, Idle, Finish, Step, CommandsAt,
     CommandsKept
<1>6. ASSUME NEW x,
             \/ \E b : AccessSetRestricted(x, b) \/ SpCreate(x, b) \/ SpUpdate(x, b)
             \/ \E a : ManagerAssign(x, a) \/ ManagerRemove(x, a)
             \/ ForwardAuthCreate(x)
      PROVE  UNCHANGED <<pc, loc, skeys>> /\ CommandsKept
  BY <1>6, Zenon DEF AccessSetRestricted, SpCreate, SpUpdate, ManagerAssign, ManagerRemove, ForwardAuthCreate, frame, CommandsKept
<1>7. ASSUME (\E x : ClientDelete(x) \/ SpDelete(x)) \/ \E i : ProviderDelete(i)
      PROVE  UNCHANGED <<pc, loc, skeys>> /\ CommandsKept
  BY <1>7, Zenon DEF ClientDelete, SpDelete, DeleteOIDCClient, DeleteSAMLSP, RowDeleted, ProviderDelete, ProviderDeleted,
     frame, CommandsKept
<1>8. ASSUME NEW p \in Procs, Step(p, CliAt), UNCHANGED skeys  PROVE Moves(CommandsAt) /\ CliMoves
  BY <1>0, <1>8, StepMoves DEF Moves, CliMoves
<1>9. ASSUME UNCHANGED <<pc, loc, skeys>>  PROVE Moves(CommandsAt) /\ CliMoves  BY <1>9, QuietMoves DEF CliMoves
<1>10. ASSUME NEW p \in Procs, Step(p, CommandsAt)  PROVE Moves(CommandsAt)  BY <1>10, StepMoves
<1>11. ASSUME NEW p \in Procs,
           \/ \E x \in Apps :
               \/ \E G \in SUBSET Groups : ReplaceAppGroups(p, x, G)
               \/ \E g \in Groups, a \in Accounts, e \in {"allow", "deny", "none"} :
                      FindBoundPolicyGroup(p, x, g, a, e)
           \/ SelectGroups(p) \/ DecisionSet(p)
           \/ \E sc \in SUBSET Scopes :
               \/ \E x \in OidcApps : ClientCreate(p, x, sc)
               \/ \E x \in OidcApps \cup FaApps : ClientUpdate(p, x, sc)
           \/ \E b, c \in BOOLEAN : ClientReplace(p, b, c)
           \/ \E b \in BOOLEAN : ClientInsert(p, b) \/ ProviderSeal(p, b)
           \/ \E i \in Idps, m \in Modes :
               \/ \E b \in BOOLEAN : ProviderCreate(p, i, m, b)
               \/ \E b \in BOOLEAN \cup {None} : ProviderUpdate(p, i, m, b)
           \/ ProviderReplace(p)
       PROVE  Moves(CommandsAt) /\ CommandsKept /\ CliMoves
  BY <1>1, <1>2, <1>3, <1>4, <1>8, <1>11, Zenon
<1>12. ASSUME NEW p \in Procs, KeyCommand(p)  PROVE Moves(CommandsAt) /\ CommandsKept
  BY <1>5, <1>10, <1>12
<1>13. ASSUME \/ \E x \in Apps :
                 \/ \E b \in BOOLEAN : AccessSetRestricted(x, b)
                 \/ \E a \in Accounts : ManagerAssign(x, a) \/ ManagerRemove(x, a)
                 \/ ClientDelete(x) \/ SpDelete(x)
              \/ \E x \in SamlApps, b \in BOOLEAN : SpCreate(x, b) \/ SpUpdate(x, b)
              \/ \E x \in FaApps : ForwardAuthCreate(x)
              \/ \E i \in Idps : ProviderDelete(i)
       PROVE  Moves(CommandsAt) /\ CommandsKept /\ CliMoves
  BY <1>6, <1>7, <1>9, <1>13, Zenon
<1> QED  BY <1>11, <1>12, <1>13, Zenon DEF CommandsNext, KeyCommand

\* What changes under the applications and moves no request.
Surroundings ==
    \/ \E s \in Sids :
        \/ \E a \in Accounts : DisableAccount(s, a) \/ DeleteAccount(s, a)
        \/ \E i \in Idps : DeleteIdp(s, i)
        \/ Relink(s) \/ Logout(s)
    \/ \E a \in Accounts : SignIn(a)
    \/ MaintenanceShows
    \/ Tick

SurroundingsKept ==
    /\ UNCHANGED <<frame, ops, factors, groups, strayed, kv, handed, used, lapped, demanded, samlVars, signedOut, keyVars>>
    /\ Passes

LEMMA SurroundingsKeep ==
    ASSUME Surroundings
    PROVE  SurroundingsKept
<1> USE DEF SurroundingsKept, Passes, policyVars, authorizeVars, authorizeHistory, faVars
<1>1. ASSUME NEW s, (\E a : DisableAccount(s, a) \/ DeleteAccount(s, a)) \/ (\E i : DeleteIdp(s, i))
      PROVE  SurroundingsKept
  BY <1>1, Zenon DEF DisableAccount, DeleteAccount, DeleteIdp, ProviderDeleted
<1>2. ASSUME NEW s, Relink(s) \/ Logout(s) \/ \E a : SignIn(a)
      PROVE  SurroundingsKept
  BY <1>2, Zenon DEF Relink, Logout, SignIn
<1>3. ASSUME MaintenanceShows \/ Tick  PROVE SurroundingsKept  BY <1>3, Zenon DEF MaintenanceShows, Tick
<1> QED  BY <1>1, <1>2, <1>3, Zenon DEF Surroundings

\* A request ends without another word, or deletes an application in its last step.
Ends(p) == Finish(p) /\ UNCHANGED <<others, keyVars>>
Deletes(p) ==
    /\ pc[p] = "manage" /\ RowFree(p, loc[p].x) /\ loc[p].x \in Apps
    /\ Finish(p) /\ RowDeleted(loc[p].x)

LEMMA EnvironmentSplit ==
    ASSUME Environment
    PROVE  Surroundings \/ \E p \in Procs : Ends(p) \/ Deletes(p)
<1>1. ASSUME NEW p \in Procs, DeleteOIDCApplication(p) \/ DeleteForwardAuthApp(p) \/ DeleteSAMLApplication(p)
      PROVE  Deletes(p)
  <2>1. DeleteApp(p) /\ RowDeleted(loc[p].x) /\ loc[p].x \in OidcApps \cup FaApps \cup SamlApps
    BY <1>1, Zenon DEF DeleteOIDCApplication, DeleteForwardAuthApp, DeleteSAMLApplication, DeleteOIDCClient, DeleteSAMLSP
  <2> QED  BY <2>1, Zenon DEF DeleteApp, Deletes, Apps
<1>2. ASSUME NEW p \in Procs, Deliver(p) \/ Abort(p)
      PROVE  Ends(p)
  BY <1>2, Zenon DEF Deliver, Abort, Ends
<1> QED  BY <1>1, <1>2, Zenon DEF Environment, Surroundings

-----------------------------------------------------------------------------
(* What one step may be                                                      *)

policyRest == <<authorizeVars, samlVars, faVars, keyVars>>

\* A step is one of a component, moving its requests only, or of the surroundings.
ComponentStep ==
    \/ PolicyRest /\ Moves(PolicyAt) /\ UNCHANGED <<tables, strayed>> /\ UNCHANGED policyRest
    \/ \E p \in Procs : EvalManual(p) /\ UNCHANGED policyRest
    \/ \E p \in Procs : ReplaceGroupsCommit(p) /\ UNCHANGED policyRest
    \/ \E p \in Procs, s \in Sids, x \in Apps, G \in SUBSET Groups : ReplaceGroups(p, s, x, G) /\ UNCHANGED policyRest
    \/ AuthorizeNext /\ (Moves(AuthorizeAt) \/ Begun(AuthorizeOps)) /\ AuthorizeKept /\ UNCHANGED <<samlVars, faVars, keyVars>>
    \/ SamlNext /\ (Moves(SamlAt) \/ Begun(SamlOps)) /\ SamlKept /\ UNCHANGED <<faVars, keyVars>>
    \/ ForwardAuthNext /\ (Moves(ForwardAuthAt) \/ Begun(ForwardAuthOps)) /\ ForwardAuthKept /\ UNCHANGED keyVars
    \/ KeysNext /\ Moves(KeysAt) /\ UNCHANGED others
    \/ CommandsNext /\ Moves(CommandsAt) /\ CommandsKept /\ (CliMoves \/ \E p \in Procs : KeyCommand(p))
    \/ Surroundings /\ SurroundingsKept
    \/ \E p \in Procs : Ends(p) \/ Deletes(p)

LEMMA StepSplit ==
    ASSUME FrameOK, Next
    PROVE  ComponentStep /\ Observe
<1>1. CASE PolicyNext /\ UNCHANGED <<authorizeVars, samlVars, faVars, keyVars>>
  BY <1>1, PolicySplit, PolicyMoves, Zenon DEF Next, ComponentStep, policyRest
<1>2. CASE AuthorizeNext /\ UNCHANGED <<samlVars, faVars, keyVars>>
  BY <1>2, AuthorizeMoves, Zenon DEF Next, ComponentStep
<1>3. CASE SamlNext /\ UNCHANGED <<faVars, keyVars>>
  BY <1>3, SamlMoves, Zenon DEF Next, ComponentStep
<1>4. CASE ForwardAuthNext /\ UNCHANGED keyVars
  BY <1>4, ForwardAuthMoves, Zenon DEF Next, ComponentStep
<1>5. CASE KeysNext  BY <1>5, KeysMoves, Zenon DEF Next, ComponentStep
<1>6. CASE CommandsNext  BY <1>6, CommandsMoves, Zenon DEF Next, ComponentStep
<1>7. CASE Environment  BY <1>7, EnvironmentSplit, SurroundingsKeep, Zenon DEF Next, ComponentStep
<1> QED  BY <1>1, <1>2, <1>3, <1>4, <1>5, <1>6, <1>7, Zenon DEF Next

-----------------------------------------------------------------------------
(* The frame                                                                 *)

\* Requests at labels of W stay where they are and none joins them.
Apart(W) == \A q \in Procs : pc[q] \in W \/ pc'[q] \in W => pc'[q] = pc[q] /\ loc'[q] = loc[q]

LEMMA MovesApart ==
    ASSUME NEW L, NEW W, L \cap W = {}, Moves(L)
    PROVE  Apart(W)
BY DEF Moves, Apart

LEMMA QuietApart ==
    ASSUME NEW W, UNCHANGED <<pc, loc>>
    PROVE  Apart(W)
BY DEF Apart

\* Where an evaluation leads.
Decisions == {"azDecide", "needDecide", "ssoDecide", "initDecide", "resume", "faDecide", "patDecide"}

LEMMA DecisionLabels == \A op \in Serving : Decision(op) \in Decisions
BY DEF Serving, Decision, Decisions

\* Between the two halves of an evaluation.
EvalInv ==
    \A p \in Procs : pc[p] = "evManual" =>
        DOMAIN loc[p] = Fields /\ DOMAIN loc[p].ev = EvalFields /\ loc[p].op \in Serving

FrameInv == FrameOK /\ EvalInv

\* The first half: what is read, into which local variables.
LEMMA BeginFacts ==
    ASSUME FrameOK, NEW p \in Procs, NEW x, NEW a, NEW l, Begin(p, x, a, l)
    PROVE  /\ pc[p] = "idle" /\ pc'[p] = "evManual" /\ DOMAIN pc' = Procs /\ DOMAIN loc' = Procs
           /\ \A q \in Procs \ {p} : pc'[q] = pc[q] /\ loc'[q] = loc[q]
           /\ DOMAIN loc'[p] = Fields /\ DOMAIN loc'[p].ev = EvalFields
           /\ \A f \in Fields \ {"ev"} : loc'[p][f] = l[f]
           /\ loc'[p].ev.restricted = apps[x].restricted /\ loc'[p].ev.facts = Facts(a)
           /\ loc'[p].ev.known = KnownProviders /\ loc'[p].ev.manual = {}
           /\ loc'[p].op \in Serving /\ loc'[p].op = l.op /\ loc'[p].x = x /\ loc'[p].a = a
<1>1. DOMAIN l = Fields /\ l.op \in Serving /\ l.x = x /\ l.a = a /\ pc[p] = "idle"  BY DEF Begin, Form
<1> DEFINE e == EvalRead(x, a)
           v == [l EXCEPT !.ev = e]
<1>2. /\ DOMAIN e = EvalFields /\ e.restricted = apps[x].restricted /\ e.facts = Facts(a)
      /\ e.known = KnownProviders /\ e.manual = {}
  BY DEF EvalRead, NoEval, EvalFields
<1>3. DOMAIN v = Fields /\ v.ev = e /\ v.op = l.op /\ v.x = x /\ v.a = a /\ \A f \in Fields \ {"ev"} : v[f] = l[f]
  BY <1>1 DEF Fields
<1>4. pc' = [pc EXCEPT ![p] = "evManual"] /\ loc' = [loc EXCEPT ![p] = v]  BY DEF Begin, Evaluate, Goto, Set
<1> HIDE DEF e, v
<1> QED  BY <1>1, <1>2, <1>3, <1>4 DEF FrameOK

\* The second half.
LEMMA EvalManualFacts ==
    ASSUME FrameInv, NEW p \in Procs, EvalManual(p)
    PROVE  /\ pc[p] = "evManual" /\ pc'[p] = Decision(loc[p].op) /\ pc'[p] \in Decisions
           /\ DOMAIN pc' = Procs /\ DOMAIN loc' = Procs
           /\ \A q \in Procs \ {p} : pc'[q] = pc[q] /\ loc'[q] = loc[q]
           /\ \A f \in Fields \ {"ev"} : loc'[p][f] = loc[p][f]
           /\ loc'[p].ev.restricted = loc[p].ev.restricted /\ loc'[p].ev.facts = loc[p].ev.facts
           /\ loc'[p].ev.known = loc[p].ev.known /\ loc'[p].ev.manual = Manual(loc[p].x, loc[p].a)
           /\ DOMAIN loc'[p] = Fields
<1>1. DOMAIN loc[p] = Fields /\ DOMAIN loc[p].ev = EvalFields /\ loc[p].op \in Serving /\ pc[p] = "evManual"
  BY DEF FrameInv, EvalInv, EvalManual
<1> DEFINE m == Manual(loc[p].x, loc[p].a)
           v == [loc[p] EXCEPT !.ev.manual = m]
<1>2. /\ DOMAIN v = Fields /\ (\A f \in Fields \ {"ev"} : v[f] = loc[p][f])
      /\ v.ev.restricted = loc[p].ev.restricted /\ v.ev.facts = loc[p].ev.facts
      /\ v.ev.known = loc[p].ev.known /\ v.ev.manual = m
  BY <1>1 DEF Fields, EvalFields
<1>3. loc' = [loc EXCEPT ![p] = v] /\ pc' = [pc EXCEPT ![p] = Decision(loc[p].op)]  BY DEF EvalManual, Set, Goto
<1>4. Decision(loc[p].op) \in Decisions  BY <1>1, DecisionLabels
<1> HIDE DEF m, v
<1>5. loc'[p] = v /\ DOMAIN pc' = Procs /\ DOMAIN loc' = Procs /\ pc'[p] = Decision(loc[p].op)
      /\ \A q \in Procs \ {p} : pc'[q] = pc[q] /\ loc'[q] = loc[q]
  BY <1>3 DEF FrameInv, FrameOK
<1> QED  BY <1>1, <1>2, <1>4, <1>5 DEF m

LEMMA FinishFacts ==
    ASSUME FrameOK, NEW p \in Procs, Finish(p)
    PROVE  /\ pc'[p] = "idle" /\ loc'[p] = Blank /\ DOMAIN pc' = Procs /\ DOMAIN loc' = Procs
           /\ \A q \in Procs \ {p} : pc'[q] = pc[q] /\ loc'[q] = loc[q]
BY DEF FrameOK, Finish, Goto, Set

LEMMA ReplaceFacts ==
    ASSUME FrameOK, NEW p \in Procs, NEW s, NEW x, NEW G, ReplaceGroups(p, s, x, G)
    PROVE  /\ pc[p] = "idle" /\ pc'[p] = "replace" /\ DOMAIN pc' = Procs /\ DOMAIN loc' = Procs
           /\ \A q \in Procs \ {p} : pc'[q] = pc[q] /\ loc'[q] = loc[q]
           /\ loc'[p].op = "replace" /\ loc'[p].x = x /\ loc'[p].set = G
           /\ loc'[p].member = IF acct[sess[s].a].admin THEN Groups ELSE IF RulesValid THEN AccountGroups(sess[s].a) ELSE {}
<1> DEFINE a == sess[s].a
           m == IF acct[a].admin THEN Groups ELSE IF RulesValid THEN AccountGroups(a) ELSE {}
           v == [Blank EXCEPT !.op = "replace", !.x = x, !.a = a, !.set = G, !.member = m]
<1>1. v.op = "replace" /\ v.x = x /\ v.set = G /\ v.member = m  BY DEF Blank
<1>2. pc[p] = "idle" /\ pc' = [pc EXCEPT ![p] = "replace"] /\ loc' = [loc EXCEPT ![p] = v]
  BY DEF ReplaceGroups, Idle, Goto, Set
<1> HIDE DEF v
<1> QED  BY <1>1, <1>2 DEF FrameOK

LEMMA FrameStep ==
    ASSUME FrameInv, [Next]_vars
    PROVE  FrameInv'
<1>1. CASE UNCHANGED vars  BY <1>1 DEF vars, directory, frame, FrameInv, FrameOK, EvalInv
<1>2. ASSUME NEW L, Moves(L), "evManual" \notin L  PROVE FrameInv'
  BY <1>2 DEF FrameInv, FrameOK, EvalInv, Moves
<1>3. ASSUME NEW O, Begun(O)  PROVE FrameInv'
  <2>1. PICK p \in Procs : \E x, a, l : Begin(p, x, a, l)  BY <1>3 DEF Begun
  <2> QED  BY <2>1, BeginFacts DEF FrameInv, FrameOK, EvalInv
<1>4. ASSUME NEW p \in Procs, Finish(p)  PROVE FrameInv'
  BY <1>4, FinishFacts DEF FrameInv, FrameOK, EvalInv
<1>5. ASSUME NEW p \in Procs, EvalManual(p)  PROVE FrameInv'
  BY <1>5, EvalManualFacts DEF FrameInv, FrameOK, EvalInv, Decisions
<1>6. ASSUME NEW p \in Procs, NEW s, NEW x, NEW G, ReplaceGroups(p, s, x, G)  PROVE FrameInv'
  BY <1>6, ReplaceFacts DEF FrameInv, FrameOK, EvalInv
<1>7. ASSUME UNCHANGED frame  PROVE FrameInv'
  BY <1>7 DEF frame, FrameInv, FrameOK, EvalInv
<1>8. \A L \in {PolicyAt, AuthorizeAt, SamlAt, ForwardAuthAt, KeysAt, CommandsAt} : "evManual" \notin L
  BY DEF PolicyAt, AuthorizeAt, SamlAt, ForwardAuthAt, KeysAt, CommandsAt
<1>9. CASE Next
  <2>1. ComponentStep  BY <1>9, StepSplit DEF FrameInv
  <2>2. \A p \in Procs : ReplaceGroupsCommit(p) \/ Ends(p) \/ Deletes(p) => Finish(p)  BY DEF ReplaceGroupsCommit, Ends, Deletes
  <2> QED  BY <2>1, <2>2, <1>2, <1>3, <1>4, <1>5, <1>6, <1>7, <1>8 DEF ComponentStep, SurroundingsKept
<1> QED  BY <1>1, <1>9

LEMMA FrameInit == Init => FrameInv
BY DEF Init, FrameInv, FrameOK, EvalInv

-----------------------------------------------------------------------------
(* Managers and the row lock                                                 *)

AppFields == {"on", "gone", "dis", "restricted", "opt", "scopes", "groups", "managers"}
RowOK(r) == DOMAIN r = AppFields /\ r.groups \subseteq Groups
AppsOK == DOMAIN apps = Apps /\ \A x \in Apps : RowOK(apps[x])

Locked(x) == \E q \in Procs : pc[q] = "replace" /\ loc[q].x = x

\* No step but that of the transaction that holds the row creates or deletes the
\* application or changes its groups.
RowsKept == \A x \in Apps : Locked(x) => apps'[x].on = apps[x].on /\ apps'[x].groups = apps[x].groups

\* A transaction that holds a row: the application exists, what is to be attached was
\* attached or is in the manager's reach, and nobody else holds the row.
LockInv ==
    \A p \in Procs : pc[p] = "replace" =>
        /\ loc[p].x \in Apps /\ apps[loc[p].x].on /\ loc[p].set \subseteq Groups
        /\ loc[p].set \subseteq apps[loc[p].x].groups \cup loc[p].member
        /\ \A q \in Procs \ {p} : pc[q] = "replace" => loc[q].x # loc[p].x

\* A command that waits for the row has groups to select.
SelectInv == \A p \in Procs : pc[p] = "select" => loc[p].set \subseteq Groups

ScopeInv == AppsOK /\ LockInv /\ SelectInv /\ ManagersInScope

\* One row is replaced.
LEMMA RowStep ==
    ASSUME AppsOK, NEW x \in Apps, NEW r, RowOK(r), apps' = [apps EXCEPT ![x] = r],
           Locked(x) => r.on = apps[x].on /\ r.groups = apps[x].groups
    PROVE  AppsOK' /\ RowsKept
BY DEF AppsOK, RowsKept

LEMMA FreeRow ==
    ASSUME NEW p, NEW x, RowFree(p, x), p \in Procs => pc[p] # "replace"
    PROVE  ~Locked(x)
BY DEF RowFree, Locked

LEMMA LockedOn ==
    ASSUME LockInv, NEW x, Locked(x)
    PROVE  x \in Apps /\ apps[x].on
BY DEF LockInv, Locked

\* An application is created only where there is none.
LEMMA CreateRow ==
    ASSUME AppsOK, LockInv, NEW x \in Apps, NEW b, NEW c, NEW d, ~apps[x].on,
           apps' = [apps EXCEPT ![x] = Created(b, c, d)]
    PROVE  AppsOK' /\ RowsKept
<1>1. ~Locked(x)  BY LockedOn
<1>2. RowOK(Created(b, c, d))  BY DEF RowOK, AppFields, Created, NoApp
<1> QED  BY <1>1, <1>2, RowStep

LEMMA ManagedRow ==
    ASSUME AppsOK, NEW p \in Procs, NEW op, NEW b, loc[p].x \in Apps => RowOK(b), Managed(p, op, b)
    PROVE  AppsOK' /\ RowsKept
<1>1. CASE UNCHANGED apps  BY <1>1 DEF AppsOK, RowsKept
<1>2. CASE apps' = [apps EXCEPT ![loc[p].x] = b] /\ loc[p].x \in Apps
  <2>1. ~Locked(loc[p].x)  BY FreeRow DEF Managed
  <2> QED  BY <1>2, <2>1, RowStep
<1>3. CASE apps' = [apps EXCEPT ![loc[p].x] = b] /\ loc[p].x \notin Apps  BY <1>3 DEF AppsOK, RowsKept
<1> QED  BY <1>1, <1>2, <1>3 DEF Managed

LEMMA QuietRows ==
    ASSUME AppsOK, UNCHANGED apps
    PROVE  AppsOK' /\ RowsKept
BY DEF AppsOK, RowsKept

LEMMA ManagersRow ==
    ASSUME AppsOK, NEW x, NEW a, apps' = AddedManager(x, a) \/ apps' = RemovedManager(x, a)
    PROVE  AppsOK' /\ RowsKept
<1>1. CASE x \in Apps
  <2>1. PICK M : apps' = [apps EXCEPT ![x].managers = M]  BY DEF AddedManager, RemovedManager
  <2> DEFINE v == [apps[x] EXCEPT !.managers = M]
  <2>2. apps' = [apps EXCEPT ![x] = v]  BY <2>1
  <2>3. RowOK(v) /\ v.on = apps[x].on /\ v.groups = apps[x].groups  BY <1>1 DEF AppsOK, RowOK, AppFields
  <2> HIDE DEF v
  <2> QED  BY <1>1, <2>2, <2>3, RowStep
<1>2. CASE x \notin Apps  BY <1>2 DEF AppsOK, RowsKept, AddedManager, RemovedManager
<1> QED  BY <1>1, <1>2

LEMMA PolicyRows ==
    ASSUME FrameOK, AppsOK, LockInv, PolicyRest
    PROVE  AppsOK' /\ RowsKept
<1>1. ASSUME NEW p \in Procs, NEW b, NEW c,
             \/ UpdateOIDCApplication(p, b, c) \/ SetRestricted(p, b) \/ SetOIDCApplicationDisabled(p, b)
             \/ SetSAMLApplicationDisabled(p, b) \/ SetForwardAuthAppDisabled(p, b) \/ UpdateSAMLApplication(p, b)
      PROVE  AppsOK' /\ RowsKept
  <2> DEFINE r == apps[loc[p].x]
             x == loc[p].x
  <2>1. \/ \E op : Managed(p, op, UpdatedOIDCClient(x, b, c, loc[p].set))
        \/ \E op : Managed(p, op, AccessRestricted(x, b))
        \/ \E op : Managed(p, op, SAMLSPDisabled(x, b))
        \/ \E op : Managed(p, op, UpdatedSAMLSP(x, b))
    BY <1>1, Zenon DEF UpdateOIDCApplication, SetRestricted, SetOIDCApplicationDisabled, SetSAMLApplicationDisabled,
       SetForwardAuthAppDisabled, UpdateSAMLApplication, SAMLSPDisabled
  <2>2. x \in Apps => /\ RowOK(UpdatedOIDCClient(x, b, c, loc[p].set)) /\ RowOK(AccessRestricted(x, b))
                      /\ RowOK(SAMLSPDisabled(x, b)) /\ RowOK(UpdatedSAMLSP(x, b))
    BY DEF AppsOK, RowOK, AppFields, UpdatedOIDCClient, AccessRestricted, SAMLSPDisabled, UpdatedSAMLSP
  <2> QED  BY <2>1, <2>2, ManagedRow
<1>2. ASSUME NEW p \in Procs, NEW b, NEW c, InsertOIDCClient(p, b, c)
      PROVE  AppsOK' /\ RowsKept
  <2>1. CASE UNCHANGED apps  BY <2>1, QuietRows
  <2>2. CASE apps' = [apps EXCEPT ![loc[p].x] = Created(b, c, loc[p].set)] /\ ~apps[loc[p].x].on /\ loc[p].x \in Apps
    BY <2>2, CreateRow, Zenon
  <2>3. CASE apps' = [apps EXCEPT ![loc[p].x] = Created(b, c, loc[p].set)] /\ loc[p].x \notin Apps
    BY <2>3 DEF AppsOK, RowsKept
  <2> QED  BY <1>2, <2>1, <2>2, <2>3, Zenon DEF InsertOIDCClient
<1>3. ASSUME NEW s \in Sids, NEW x \in Apps, NEW r,
             CreateForwardAuthApp(s, x, r) \/ \E c : CreateSAMLApplication(s, x, r, c)
      PROVE  AppsOK' /\ RowsKept
  <2>1. \E b, c, d : ~apps[x].on /\ apps' = [apps EXCEPT ![x] = Created(b, c, d)]
    BY <1>3, Zenon DEF CreateForwardAuthApp, RegisterForwardAuthApp, CreateSAMLApplication, InsertSAMLSP
  <2> QED  BY <2>1, CreateRow
<1>4. ASSUME NEW s \in Sids, NEW x \in Apps, NEW a, AssignManager(s, x, a) \/ RemoveManager(s, x, a)
      PROVE  AppsOK' /\ RowsKept
  BY <1>4, ManagersRow DEF AssignManager, RemoveManager
<1>5. ASSUME \/ \E s, g, c, kind : CreateGroup(s, g, kind, c)
             \/ \E s, g : DeleteGroup(s, g)
             \/ \E s, g, a : ClearDecision(s, g, a) \/ \E e : UpsertDecision(s, g, a, e)
             \/ \E p, s, g, c : UpdateGroupRead(p, s, g, c)
             \/ \E p : UpdateGroupWrite(p)
             \/ \E p, s, x, sc, op : CreateOIDCApplication(p, s, x, sc) \/ ManageApp(p, s, x, op, sc)
      PROVE  UNCHANGED apps
  BY <1>5, Zenon DEF CreateGroup, DeleteGroup, ClearDecision, UpsertDecision, UpdateGroupRead, UpdateGroupWrite,
     CreateOIDCApplication, ManageApp, policyVars
<1> QED  BY <1>1, <1>2, <1>3, <1>4, <1>5, QuietRows, Zenon DEF PolicyRest

LEMMA DeletedRow ==
    ASSUME AppsOK, NEW x, ~Locked(x), RowDeleted(x)
    PROVE  AppsOK' /\ RowsKept
<1>1. CASE x \in Apps
  <2>1. RowOK(DeletedApp)  BY DEF DeletedApp, NoApp, RowOK, AppFields
  <2> QED  BY <1>1, <2>1, RowStep DEF RowDeleted
<1>2. CASE x \notin Apps  BY <1>2 DEF RowDeleted, AppsOK, RowsKept
<1> QED  BY <1>1, <1>2

LEMMA ProviderRows ==
    ASSUME AppsOK, NEW i, ProviderDeleted(i)
    PROVE  AppsOK' /\ RowsKept
<1>1. apps' = [x \in Apps |-> [apps[x] EXCEPT !.scopes = apps[x].scopes \ {i}]]  BY DEF ProviderDeleted
<1> QED  BY <1>1 DEF AppsOK, RowOK, RowsKept, AppFields

LEMMA UnlockedRow ==
    ASSUME NEW x, Unlocked(x)
    PROVE  ~Locked(x)
BY DirectoryAssumption DEF Unlocked, RowFree, Locked

LEMMA CommandRows ==
    ASSUME FrameOK, AppsOK, LockInv, SelectInv, CommandsNext
    PROVE  AppsOK' /\ RowsKept
<1>1. ASSUME NEW p \in Procs, SelectGroups(p)  PROVE AppsOK' /\ RowsKept
  <2> DEFINE x == loc[p].x
  <2>1. CASE UNCHANGED apps  BY <2>1, QuietRows
  <2>2. ASSUME apps' = [apps EXCEPT ![x].groups = loc[p].set \cup (apps[x].groups \ loc[p].member)]
        PROVE  AppsOK' /\ RowsKept
    <3> DEFINE S == loc[p].set \cup (apps[x].groups \ loc[p].member)
    <3>1. ~Locked(x)  BY <1>1, UnlockedRow DEF SelectGroups
    <3>2. CASE x \in Apps
      <4> DEFINE v == [apps[x] EXCEPT !.groups = S]
      <4>1. apps' = [apps EXCEPT ![x] = v]  BY <2>2
      <4>2. S \subseteq Groups  BY <1>1, <3>2 DEF SelectGroups, SelectInv, AppsOK, RowOK
      <4>3. RowOK(v)  BY <3>2, <4>2 DEF AppsOK, RowOK, AppFields
      <4> HIDE DEF v
      <4> QED  BY <3>1, <3>2, <4>1, <4>3, RowStep
    <3>3. CASE x \notin Apps  BY <2>2, <3>3 DEF AppsOK, RowsKept
    <3> QED  BY <3>2, <3>3
  <2> QED  BY <1>1, <2>1, <2>2, Zenon DEF SelectGroups
<1>2. ASSUME NEW p \in Procs, NEW b, ClientInsert(p, b)
      PROVE  AppsOK' /\ RowsKept
  <2>1. CASE UNCHANGED apps  BY <2>1, QuietRows
  <2>2. CASE apps' = [apps EXCEPT ![loc[p].x] = Created(FALSE, b, loc[p].set)] /\ ~apps[loc[p].x].on /\ loc[p].x \in Apps
    BY <2>2, CreateRow, Zenon
  <2>3. CASE apps' = [apps EXCEPT ![loc[p].x] = Created(FALSE, b, loc[p].set)] /\ loc[p].x \notin Apps
    BY <2>3 DEF AppsOK, RowsKept
  <2> QED  BY <1>2, <2>1, <2>2, <2>3, Zenon DEF ClientInsert
<1>3. ASSUME NEW p \in Procs, NEW b, NEW c, ClientReplace(p, b, c)
      PROVE  AppsOK' /\ RowsKept
  <2>1. loc[p].x \in Apps => RowOK(UpdatedOIDCClient(loc[p].x, b, c, loc[p].set))
    BY DEF AppsOK, RowOK, AppFields, UpdatedOIDCClient
  <2> QED  BY <1>3, <2>1, ManagedRow DEF ClientReplace
<1>4. ASSUME NEW x \in Apps, NEW b, AccessSetRestricted(x, b) \/ SpUpdate(x, b)
      PROVE  AppsOK' /\ RowsKept
  <2>1. ~Locked(x)  BY <1>4, UnlockedRow DEF AccessSetRestricted, SpUpdate
  <2>2. RowOK(AccessRestricted(x, b)) /\ RowOK(UpdatedSAMLSP(x, b))
    BY DEF AppsOK, RowOK, AppFields, AccessRestricted, UpdatedSAMLSP
  <2> QED  BY <1>4, <2>1, <2>2, RowStep DEF AccessSetRestricted, SpUpdate
<1>5. ASSUME NEW x \in Apps, (\E b : SpCreate(x, b)) \/ ForwardAuthCreate(x)
      PROVE  AppsOK' /\ RowsKept
  <2>1. \E b, c, d : ~apps[x].on /\ apps' = [apps EXCEPT ![x] = Created(b, c, d)]
    BY <1>5, Zenon DEF ForwardAuthCreate, RegisterForwardAuthApp, SpCreate, InsertSAMLSP
  <2> QED  BY <2>1, CreateRow
<1>6. ASSUME NEW x \in Apps, NEW a, ManagerAssign(x, a) \/ ManagerRemove(x, a)
      PROVE  AppsOK' /\ RowsKept
  BY <1>6, ManagersRow DEF ManagerAssign, ManagerRemove
<1>7. ASSUME NEW x \in Apps, ClientDelete(x) \/ SpDelete(x)
      PROVE  AppsOK' /\ RowsKept
  <2>1. Unlocked(x) /\ RowDeleted(x)  BY <1>7, Zenon DEF ClientDelete, SpDelete, DeleteOIDCClient, DeleteSAMLSP
  <2> QED  BY <2>1, UnlockedRow, DeletedRow
<1>8. ASSUME NEW i, ProviderDelete(i)  PROVE AppsOK' /\ RowsKept
  BY <1>8, ProviderRows DEF ProviderDelete
<1>9. ASSUME NEW p,
             \/ \E x, G : ReplaceAppGroups(p, x, G)
             \/ \E x, g, a, e : FindBoundPolicyGroup(p, x, g, a, e)
             \/ \E x, sc : ClientCreate(p, x, sc) \/ ClientUpdate(p, x, sc)
             \/ DecisionSet(p)
      PROVE  UNCHANGED apps
  BY <1>9, Zenon DEF ReplaceAppGroups, FindBoundPolicyGroup, ClientCreate, ClientUpdate, DecisionSet, others, policyVars
<1>10. ASSUME NEW p,
             \/ \E i, m, b : ProviderCreate(p, i, m, b) \/ ProviderUpdate(p, i, m, b)
             \/ ProviderReplace(p)
             \/ \E b : ProviderSeal(p, b) \/ KeyGenerate(p, b)
             \/ \E k : KeyInsert(p, k) \/ KeyRetire(p, k)
             \/ KeyActivate(p) \/ KeyRetired(p)
      PROVE  UNCHANGED apps
  BY <1>10, Zenon DEF ProviderCreate, ProviderUpdate, ProviderReplace, ProviderSeal, KeyGenerate, KeyInsert, KeyRetire,
     KeyActivate, KeyRetired, others, policyVars
<1>11. SamlApps \subseteq Apps /\ FaApps \subseteq Apps  BY DEF Apps
<1>12. CASE \E p \in Procs :
           \/ \E x \in Apps :
               \/ \E G \in SUBSET Groups : ReplaceAppGroups(p, x, G)
               \/ \E g \in Groups, a \in Accounts, e \in {"allow", "deny", "none"} :
                      FindBoundPolicyGroup(p, x, g, a, e)
           \/ SelectGroups(p) \/ DecisionSet(p)
           \/ \E sc \in SUBSET Scopes :
               \/ \E x \in OidcApps : ClientCreate(p, x, sc)
               \/ \E x \in OidcApps \cup FaApps : ClientUpdate(p, x, sc)
           \/ \E b, c \in BOOLEAN : ClientReplace(p, b, c)
           \/ \E b \in BOOLEAN : ClientInsert(p, b) \/ ProviderSeal(p, b) \/ KeyGenerate(p, b)
           \/ \E i \in Idps, m \in Modes :
               \/ \E b \in BOOLEAN : ProviderCreate(p, i, m, b)
               \/ \E b \in BOOLEAN \cup {None} : ProviderUpdate(p, i, m, b)
           \/ ProviderReplace(p)
           \/ \E k \in Kids : KeyInsert(p, k) \/ KeyRetire(p, k)
           \/ KeyActivate(p) \/ KeyRetired(p)
  BY <1>1, <1>2, <1>3, <1>9, <1>10, <1>12, QuietRows, Zenon
<1> QED  BY <1>4, <1>5, <1>6, <1>7, <1>8, <1>11, <1>12, Zenon DEF CommandsNext

LEMMA SurroundingRows ==
    ASSUME AppsOK, Surroundings
    PROVE  AppsOK' /\ RowsKept
<1>1. ASSUME NEW s, NEW a, DeleteAccount(s, a)  PROVE AppsOK' /\ RowsKept
  <2>1. apps' = [x \in Apps |-> [apps[x] EXCEPT !.managers = apps[x].managers \ {a}]]  BY <1>1 DEF DeleteAccount
  <2> QED  BY <2>1 DEF AppsOK, RowOK, RowsKept, AppFields
<1>2. ASSUME NEW s, NEW i, DeleteIdp(s, i)  PROVE AppsOK' /\ RowsKept  BY <1>2, ProviderRows DEF DeleteIdp
<1>3. ASSUME (\E s : Relink(s) \/ Logout(s) \/ \E a : DisableAccount(s, a)) \/ (\E a : SignIn(a)) \/ MaintenanceShows \/ Tick
      PROVE  UNCHANGED apps
  BY <1>3, Zenon DEF Relink, Logout, MaintenanceShows, DisableAccount, SignIn, Tick, policyVars
<1> QED  BY <1>1, <1>2, <1>3, QuietRows, Zenon DEF Surroundings

\* Who holds a row, after a step of somebody else.
LEMMA LocksKept ==
    ASSUME LockInv, AppsOK, RowsKept, \A q \in Procs : pc'[q] = "replace" => pc[q] = "replace" /\ loc'[q] = loc[q]
    PROVE  LockInv'
<1>1. \A q \in Procs : pc'[q] = "replace" => Locked(loc[q].x)  BY DEF Locked
<1> QED  BY <1>1 DEF LockInv, RowsKept

\* What a command holds between its two halves: groups to select, a decision to write.
Effects == {"allow", "deny", "none"}
HoldMoves(q) ==
    /\ pc'[q] = "select" => (pc[q] = "select" /\ loc'[q] = loc[q]) \/ loc'[q].set \subseteq Groups
    /\ pc'[q] = "decide" => (pc[q] = "decide" /\ loc'[q] = loc[q]) \/ loc'[q].val \in Effects

LEMMA CommandHolds ==
    ASSUME FrameOK, CommandsNext
    PROVE  \A q \in Procs : HoldMoves(q)
<1>1. ASSUME NEW p \in Procs, NEW l, NEW v, Goto(p, l), Set(p, v), l = "select" => v.set \subseteq Groups,
             l = "decide" => v.val \in Effects
      PROVE  \A q \in Procs : HoldMoves(q)
  BY <1>1 DEF Goto, Set, FrameOK, HoldMoves
<1>2. ASSUME NEW p \in Procs, NEW x, NEW G \in SUBSET Groups, ReplaceAppGroups(p, x, G)  PROVE \A q \in Procs : HoldMoves(q)
  <2> DEFINE v == [Blank EXCEPT !.op = "cligroups", !.x = x, !.set = G, !.member = apps[x].groups]
  <2>1. v.set = G  BY DEF Blank
  <2>2. Goto(p, "select") /\ Set(p, v)  BY <1>2, Zenon DEF ReplaceAppGroups
  <2> HIDE DEF v
  <2> QED  BY <1>1, <2>1, <2>2
<1>3. ASSUME NEW p \in Procs, NEW x, NEW g, NEW a, NEW e \in Effects, FindBoundPolicyGroup(p, x, g, a, e)
      PROVE  \A q \in Procs : HoldMoves(q)
  <2> DEFINE v == [Blank EXCEPT !.op = "clidecide", !.a = a, !.g = g, !.val = e]
  <2>1. v.val = e  BY DEF Blank
  <2>2. Goto(p, "decide") /\ Set(p, v)  BY <1>3, Zenon DEF FindBoundPolicyGroup
  <2> HIDE DEF v
  <2> QED  BY <1>1, <2>1, <2>2
<1>4. ASSUME NEW p \in Procs,
             \/ \E x, sc : ClientCreate(p, x, sc) \/ ClientUpdate(p, x, sc)
             \/ SelectGroups(p) \/ DecisionSet(p) \/ \E b : ClientInsert(p, b)
      PROVE  \E l, v : Goto(p, l) /\ Set(p, v) /\ l \in {"idle", "cliInsert", "manage"}
  BY <1>4, Zenon DEF ClientCreate, ClientUpdate, SelectGroups, DecisionSet, ClientInsert, Finish
<1>5. ASSUME NEW p \in Procs,
             \/ \E b, c : ClientReplace(p, b, c)
             \/ \E i, m, b : ProviderCreate(p, i, m, b) \/ ProviderUpdate(p, i, m, b)
             \/ ProviderReplace(p) \/ \E b : ProviderSeal(p, b)
      PROVE  \E l, v : Goto(p, l) /\ Set(p, v) /\ l \in {"idle", "cliSeal", "cliReplace"}
  BY <1>5, Zenon DEF ClientReplace, Managed, ProviderCreate, ProviderUpdate, ProviderReplace, ProviderSeal, Finish
<1>6. ASSUME NEW p \in Procs, KeyCommand(p)
      PROVE  \E l, v : Goto(p, l) /\ Set(p, v) /\ l \in {"idle", "keyInsert", "keyActivate", "keyRetire"}
  BY <1>6, Zenon DEF KeyCommand, KeyGenerate, KeyInsert, KeyRetire, KeyActivate, KeyRetired, Finish
<1>7. ASSUME NEW p \in Procs, NEW l, NEW v, Goto(p, l), Set(p, v),
             l \in {"idle", "cliInsert", "manage", "cliSeal", "cliReplace", "keyInsert", "keyActivate", "keyRetire"}
      PROVE  \A q \in Procs : HoldMoves(q)
  BY <1>1, <1>7
<1>8. ASSUME UNCHANGED <<pc, loc>>  PROVE \A q \in Procs : HoldMoves(q)  BY <1>8 DEF HoldMoves
<1>9. ASSUME NEW x,
             \/ \E b : AccessSetRestricted(x, b) \/ SpCreate(x, b) \/ SpUpdate(x, b)
             \/ \E a : ManagerAssign(x, a) \/ ManagerRemove(x, a)
             \/ ForwardAuthCreate(x) \/ ClientDelete(x) \/ SpDelete(x) \/ ProviderDelete(x)
      PROVE  UNCHANGED <<pc, loc>>
  BY <1>9, Zenon DEF AccessSetRestricted, SpCreate, SpUpdate, ManagerAssign, ManagerRemove, ForwardAuthCreate,
     ClientDelete, SpDelete, ProviderDelete, ProviderDeleted, frame
<1>10. CASE \E p \in Procs :
           \/ \E x \in Apps :
               \/ \E G \in SUBSET Groups : ReplaceAppGroups(p, x, G)
               \/ \E g \in Groups, a \in Accounts, e \in Effects : FindBoundPolicyGroup(p, x, g, a, e)
           \/ SelectGroups(p) \/ DecisionSet(p)
           \/ \E sc \in SUBSET Scopes :
               \/ \E x \in OidcApps : ClientCreate(p, x, sc)
               \/ \E x \in OidcApps \cup FaApps : ClientUpdate(p, x, sc)
           \/ \E b, c \in BOOLEAN : ClientReplace(p, b, c)
           \/ \E b \in BOOLEAN : ClientInsert(p, b) \/ ProviderSeal(p, b)
           \/ \E i \in Idps, m \in Modes :
               \/ \E b \in BOOLEAN : ProviderCreate(p, i, m, b)
               \/ \E b \in BOOLEAN \cup {None} : ProviderUpdate(p, i, m, b)
           \/ ProviderReplace(p)
           \/ KeyCommand(p)
  <2>1. PICK p \in Procs :
           \/ \E x : \E G \in SUBSET Groups : ReplaceAppGroups(p, x, G)
           \/ \E x, g, a : \E e \in Effects : FindBoundPolicyGroup(p, x, g, a, e)
           \/ \E l, v : Goto(p, l) /\ Set(p, v) /\ l \in {"idle", "cliInsert", "manage"}
           \/ \E l, v : Goto(p, l) /\ Set(p, v) /\ l \in {"idle", "cliSeal", "cliReplace"}
           \/ \E l, v : Goto(p, l) /\ Set(p, v) /\ l \in {"idle", "keyInsert", "keyActivate", "keyRetire"}
    BY <1>4, <1>5, <1>6, <1>10, Zenon
  <2> QED  BY <1>2, <1>3, <1>7, <2>1
<1>11. CASE \E x :
             \/ \E b : AccessSetRestricted(x, b) \/ SpCreate(x, b) \/ SpUpdate(x, b)
             \/ \E a : ManagerAssign(x, a) \/ ManagerRemove(x, a)
             \/ ForwardAuthCreate(x) \/ ClientDelete(x) \/ SpDelete(x) \/ ProviderDelete(x)
  BY <1>8, <1>9, <1>11
<1> QED  BY <1>10, <1>11, Zenon DEF CommandsNext, KeyCommand, Effects

\* Who waits for a row or holds it did so before.
Waiting == \A q \in Procs : pc'[q] \in {"replace", "select"} => pc[q] = pc'[q] /\ loc'[q] = loc[q]

LEMMA ScopeStep ==
    ASSUME FrameInv, ScopeInv, [Next]_vars
    PROVE  ScopeInv'
<1> USE DEF ScopeInv
<1>1. ASSUME AppsOK', RowsKept, strayed' = strayed, Waiting  PROVE ScopeInv'
  BY <1>1, LocksKept DEF Waiting, SelectInv, ManagersInScope
<1>2. ASSUME NEW L, Moves(L), "replace" \notin L, "select" \notin L  PROVE Waiting
  BY <1>2 DEF Moves, Waiting
<1>3. \A w \in {"replace", "select"} : w \notin PolicyAt \cup AuthorizeAt \cup SamlAt \cup ForwardAuthAt \cup KeysAt
  BY DEF PolicyAt, AuthorizeAt, SamlAt, ForwardAuthAt, KeysAt
<1>4. ASSUME NEW O, Begun(O)  PROVE Waiting  BY <1>4, BeginFacts DEF Begun, FrameInv, Waiting
<1>5. ASSUME NEW p \in Procs, Finish(p)  PROVE Waiting  BY <1>5, FinishFacts DEF FrameInv, Waiting
<1>6. ASSUME NEW p \in Procs, EvalManual(p)  PROVE Waiting  BY <1>6, EvalManualFacts DEF Decisions, Waiting
<1>7. ASSUME PolicyRest, Moves(PolicyAt), UNCHANGED strayed  PROVE ScopeInv'
  BY <1>1, <1>2, <1>3, <1>7, PolicyRows DEF FrameInv
<1>8. ASSUME NEW p \in Procs, EvalManual(p)  PROVE ScopeInv'
  <2>1. UNCHANGED <<apps, strayed>>  BY <1>8 DEF EvalManual, policyVars
  <2> QED  BY <1>1, <1>6, <1>8, <2>1, QuietRows
<1>9. ASSUME NEW p \in Procs, ReplaceGroupsCommit(p)  PROVE ScopeInv'
  <2> DEFINE x == loc[p].x
             v == [apps[x] EXCEPT !.groups = loc[p].set]
  <2>1. pc[p] = "replace" /\ x \in Apps /\ apps[x].on /\ RowOK(apps[x]) /\ loc[p].set \subseteq Groups
    BY <1>9 DEF ReplaceGroupsCommit, LockInv, AppsOK
  <2>2. Finish(p)  BY <1>9 DEF ReplaceGroupsCommit
  <2>3. pc'[p] = "idle" /\ \A q \in Procs \ {p} : pc'[q] = pc[q] /\ loc'[q] = loc[q]  BY <2>2, FinishFacts DEF FrameInv
  <2>4. CASE UNCHANGED <<apps, strayed>>
    BY <1>1, <1>5, <2>2, <2>4, QuietRows
  <2>5. CASE apps' = [apps EXCEPT ![x].groups = loc[p].set]
    <3>1. apps' = [apps EXCEPT ![x] = v]  BY <2>5
    <3>2. RowOK(v)  BY <2>1 DEF RowOK, AppFields
    <3> HIDE DEF v
    <3>3. AppsOK'  BY <2>1, <3>1, <3>2 DEF AppsOK
    <3>4. strayed' = {}
      <4>1. loc[p].set \subseteq apps[x].groups \cup loc[p].member /\ strayed = {}
        BY <2>1 DEF LockInv, ManagersInScope
      <4>2. strayed' = strayed \/ strayed' = strayed \cup {<<x, g>> : g \in loc[p].set \ (apps[x].groups \cup loc[p].member)}
        BY <1>9, Zenon DEF ReplaceGroupsCommit
      <4>3. loc[p].set \ (apps[x].groups \cup loc[p].member) = {}  BY <4>1
      <4> QED  BY <4>1, <4>2, <4>3
    <3>5. \A y \in Apps \ {x} : apps'[y] = apps[y]  BY <3>1 DEF AppsOK
    <3>6. \A q \in Procs : pc'[q] = "replace" => pc[q] = "replace" /\ loc'[q] = loc[q] /\ loc[q].x # x
      BY <2>1, <2>3 DEF LockInv
    <3>7. LockInv'  BY <3>5, <3>6 DEF LockInv
    <3>8. SelectInv'  BY <2>3 DEF SelectInv
    <3> QED  BY <3>3, <3>4, <3>7, <3>8 DEF ManagersInScope
  <2> QED  BY <1>9, <2>4, <2>5, Zenon DEF ReplaceGroupsCommit
<1>10. ASSUME NEW p \in Procs, NEW s, NEW x \in Apps, NEW G, G \subseteq Groups, ReplaceGroups(p, s, x, G)  PROVE ScopeInv'
  <2> DEFINE a == sess[s].a
  <2>1. UNCHANGED <<apps, strayed>>  BY <1>10 DEF ReplaceGroups, policyVars
  <2>2. RowFree(p, x) /\ apps[x].on /\ ValidateGroupReplacement(a, x, G)
    BY <1>10, Zenon DEF ReplaceGroups, AuthorizeManager
  <2>3. /\ pc'[p] = "replace" /\ loc'[p].x = x /\ loc'[p].set = G
        /\ loc'[p].member = IF acct[a].admin THEN Groups ELSE IF RulesValid THEN AccountGroups(a) ELSE {}
        /\ \A q \in Procs \ {p} : pc'[q] = pc[q] /\ loc'[q] = loc[q]
    BY <1>10, ReplaceFacts DEF FrameInv
  <2>4. G \subseteq apps[x].groups \cup loc'[p].member
    <3>1. CASE acct[a].admin  BY <1>10, <2>3, <3>1
    <3>2. CASE ~acct[a].admin /\ G \subseteq apps[x].groups  BY <3>2
    <3>3. CASE ~acct[a].admin /\ RulesValid /\ G \subseteq apps[x].groups \cup AccountGroups(a)  BY <2>3, <3>3
    <3> QED  BY <2>2, <3>1, <3>2, <3>3, Zenon DEF ValidateGroupReplacement
  <2>5. \A q \in Procs \ {p} : pc[q] = "replace" => loc[q].x # x  BY <2>2 DEF RowFree
  <2>6. LockInv'  BY <2>1, <2>2, <2>3, <2>4, <2>5, <1>10 DEF LockInv
  <2>7. SelectInv'  BY <2>3 DEF SelectInv
  <2> QED  BY <2>1, <2>6, <2>7, QuietRows DEF ManagersInScope
<1>11. ASSUME CommandsNext, Moves(CommandsAt), CommandsKept  PROVE ScopeInv'
  <2>1. AppsOK' /\ RowsKept /\ strayed' = strayed  BY <1>11, CommandRows DEF FrameInv, CommandsKept
  <2>2. \A q \in Procs : pc'[q] = "replace" => pc[q] = "replace" /\ loc'[q] = loc[q]
    <3>1. "replace" \notin CommandsAt  BY DEF CommandsAt
    <3> QED  BY <1>11, <3>1 DEF Moves
  <2>3. LockInv'  BY <2>1, <2>2, LocksKept
  <2>4. SelectInv'  BY <1>11, CommandHolds DEF FrameInv, SelectInv, HoldMoves
  <2> QED  BY <2>1, <2>3, <2>4 DEF ManagersInScope
<1>12. ASSUME Surroundings, SurroundingsKept  PROVE ScopeInv'
  BY <1>1, <1>12, SurroundingRows DEF SurroundingsKept, frame, Waiting
<1>13. ASSUME NEW p \in Procs, Ends(p)  PROVE ScopeInv'
  BY <1>1, <1>5, <1>13, QuietRows DEF Ends, others, policyVars
<1>14. ASSUME NEW p \in Procs, Deletes(p)  PROVE ScopeInv'
  <2>1. ~Locked(loc[p].x) /\ RowDeleted(loc[p].x) /\ Finish(p)  BY <1>14, FreeRow DEF Deletes
  <2> QED  BY <1>1, <1>5, <2>1, DeletedRow DEF RowDeleted
<1>15. ASSUME NEW L, NEW O, Moves(L) \/ Begun(O), "replace" \notin L, "select" \notin L, UNCHANGED policyVars  PROVE ScopeInv'
  BY <1>1, <1>2, <1>4, <1>15, QuietRows DEF policyVars
<1>16. CASE Next
  <2>1. ComponentStep  BY <1>16, StepSplit DEF FrameInv
  <2>2. CASE AuthorizeNext /\ (Moves(AuthorizeAt) \/ Begun(AuthorizeOps)) /\ AuthorizeKept
    BY <1>3, <1>15, <2>2 DEF AuthorizeKept
  <2>3. CASE SamlNext /\ (Moves(SamlAt) \/ Begun(SamlOps)) /\ SamlKept  BY <1>3, <1>15, <2>3 DEF SamlKept
  <2>4. CASE ForwardAuthNext /\ (Moves(ForwardAuthAt) \/ Begun(ForwardAuthOps)) /\ ForwardAuthKept  BY <1>3, <1>15, <2>4 DEF ForwardAuthKept
  <2>5. CASE KeysNext /\ Moves(KeysAt) /\ UNCHANGED others  BY <1>3, <1>15, <2>5 DEF others
  <2> QED  BY <1>7, <1>8, <1>9, <1>10, <1>11, <1>12, <1>13, <1>14, <2>1, <2>2, <2>3, <2>4, <2>5, Zenon DEF ComponentStep
<1>17. CASE UNCHANGED vars
  BY <1>1, <1>17, QuietRows DEF vars, directory, frame, policyVars, Waiting
<1> QED  BY <1>16, <1>17

LEMMA ScopeInit == Init => ScopeInv
<1> SUFFICES ASSUME Init  PROVE ScopeInv
  OBVIOUS
<1>1. pc = [p \in Procs |-> "idle"] /\ strayed = {}  BY Zenon DEF Init
<1>2. apps = [x \in Apps |->
          IF ProtocolOf(x) \notin ops THEN NoApp
          ELSE [on |-> TRUE, gone |-> FALSE, dis |-> FALSE, restricted |-> "closed" \in ops,
                opt |-> x \notin FaApps, scopes |-> IF x \in OidcApps THEN Scopes ELSE {},
                groups |-> Starts("grouped", Groups, {}), managers |-> Starts("managed", {User}, {})]]
  BY Zenon DEF Init
<1>3. DOMAIN apps = Apps /\ \A x \in Apps : RowOK(apps[x])  BY <1>2 DEF NoApp, RowOK, AppFields, Starts
<1> QED  BY <1>1, <1>3 DEF ScopeInv, AppsOK, LockInv, SelectInv, ManagersInScope

\* ManagersInScope for every number of requests, groups and applications: what a
\* manager attaches was attached already or within his reach when the row was locked,
\* because every other statement that changes the groups waits for the row.
THEOREM ManagersAlwaysInScope == Spec => []ManagersInScope
<1>1. Init => FrameInv /\ ScopeInv  BY FrameInit, ScopeInit
<1>2. FrameInv /\ ScopeInv /\ [Next]_vars => (FrameInv /\ ScopeInv)'  BY FrameStep, ScopeStep
<1>3. FrameInv /\ ScopeInv => ManagersInScope  BY DEF ScopeInv
<1> QED  BY <1>1, <1>2, <1>3, PTL DEF Spec

-----------------------------------------------------------------------------
(* Consent                                                                   *)

consentVars == <<consents, agreed, lapped>>

\* The steps that write consents.
ConsentWrite ==
    \/ \E p : ConsentApproved(p) \/ ResumeRecords(p)
    \/ \E s, x : RevokeConsent(s, x)
    \/ \E x : RowDeleted(x)
    \/ \E i : ProviderDeleted(i)
    \/ \E s, a : DeleteAccount(s, a)

LEMMA AuthorizeConsents ==
    ASSUME AuthorizeNext
    PROVE  ConsentWrite \/ UNCHANGED consentVars
<1> USE DEF consentVars, authorizeVars, authorizeHistory
<1>1. ASSUME NEW p \in Procs,
             \/ \E s, x, sc, prompt, age, m, ref : Authorize(p, s, x, sc, prompt, age, m, ref)
             \/ \E s, x, P : RequireIdentity(p, s, x, P)
             \/ \E s, n, b : ConsentDecision(p, s, n, b)
      PROVE  UNCHANGED consentVars
  BY <1>1, Zenon DEF Authorize, RequireIdentity, ConsentDecision
<1>2. ASSUME NEW p \in Procs,
             \/ AuthorizeDenied(p) \/ AuthorizeFresh(p) \/ AuthorizeReauthed(p) \/ AuthorizeReauthFails(p)
             \/ AuthorizeAsks(p) \/ AuthorizeMints(p) \/ RequireIdentityDecide(p)
      PROVE  UNCHANGED consentVars
  BY <1>2, Zenon DEF AuthorizeDenied, AuthorizeFresh, AuthorizeReauthed, AuthorizeReauthFails, AuthorizeAsks,
     AuthorizeMints, RequireIdentityDecide
<1>3. ASSUME NEW s, NEW x, NEW P, RequireIdentityMismatch(s, x, P)  PROVE UNCHANGED consentVars
  BY <1>3, Zenon DEF RequireIdentityMismatch
<1> QED  BY <1>1, <1>2, <1>3, Zenon DEF AuthorizeNext, ConsentWrite

LEMMA SamlConsents ==
    ASSUME SamlNext
    PROVE  ConsentWrite \/ UNCHANGED consentVars
<1> USE DEF consentVars, authorizeVars, authorizeHistory
<1>1. ASSUME NEW p \in Procs,
             \/ \E s, r, m : Sso(p, s, r, m)
             \/ \E s, x : SsoInit(p, s, x)
             \/ \E s, n : ConsentResume(p, s, n)
             \/ \E r : Slo(p, r)
             \/ \E s, ok : SloRow(p, s, ok)
      PROVE  UNCHANGED consentVars
  BY <1>1, Zenon DEF Sso, SsoInit, ConsentResume, Slo, SloRow
<1>2. ASSUME NEW p \in Procs,
             \/ SsoRefused(p) \/ SsoLosesSession(p) \/ SsoFresh(p) \/ SsoConsume(p) \/ SsoIssues(p)
             \/ SsoReauthFails(p) \/ SsoAsks(p) \/ SsoInitDecide(p) \/ ResumeIssues(p) \/ SloDone(p)
      PROVE  UNCHANGED consentVars
  BY <1>2, Zenon DEF SsoRefused, SsoLosesSession, SsoFresh, SsoConsume, SsoIssues, SsoReauthFails, SsoAsks,
     SsoInitDecide, ResumeIssues, SloDone
<1>3. ASSUME \/ \E r, kind, x, skew, pa, fo, a : SendRequest(r, kind, x, skew, pa, fo, a)
             \/ \E r : SsoNoSession(r) \/ SloAborts(r)
             \/ \E s, n : SamlDecline(s, n)
      PROVE  UNCHANGED consentVars
  BY <1>3, Zenon DEF SendRequest, SsoNoSession, SloAborts, SamlDecline
<1>4. CASE \E p \in Procs :
        \/ \E s \in Visits, r \in Requests, m \in Markers("samlreauth") : Sso(p, s, r, m)
        \/ SsoRefused(p) \/ SsoLosesSession(p) \/ SsoFresh(p) \/ SsoConsume(p) \/ SsoIssues(p)
        \/ SsoReauthFails(p) \/ SsoAsks(p)
        \/ \E s \in Visits, x \in SamlApps : SsoInit(p, s, x)
        \/ SsoInitDecide(p)
        \/ \E s \in Visits, n \in Nonces : ConsentResume(p, s, n)
        \/ ResumeRecords(p) \/ ResumeIssues(p)
        \/ \E r \in Requests : Slo(p, r)
        \/ \E s \in Sids, ok \in BOOLEAN : SloRow(p, s, ok)
        \/ SloDone(p)
  BY <1>1, <1>2, <1>4, Zenon DEF ConsentWrite
<1> QED  BY <1>3, <1>4, Zenon DEF SamlNext

LEMMA CommandConsents ==
    ASSUME CommandsNext
    PROVE  ConsentWrite \/ UNCHANGED consentVars
<1> USE DEF consentVars, commandVars, authorizeVars, authorizeHistory, others
<1>1. ASSUME NEW p \in Procs,
             \/ \E x, G : ReplaceAppGroups(p, x, G)
             \/ \E x, g, a, e : FindBoundPolicyGroup(p, x, g, a, e)
             \/ \E x, sc : ClientCreate(p, x, sc) \/ ClientUpdate(p, x, sc)
             \/ SelectGroups(p) \/ DecisionSet(p)
             \/ \E b, c : ClientReplace(p, b, c)
             \/ \E b : ClientInsert(p, b)
      PROVE  UNCHANGED consentVars
  BY <1>1, Zenon DEF ReplaceAppGroups, FindBoundPolicyGroup, ClientCreate, ClientUpdate, SelectGroups, DecisionSet,
     ClientReplace, ClientInsert
<1>2. ASSUME NEW p \in Procs,
             \/ \E i, m, b : ProviderCreate(p, i, m, b) \/ ProviderUpdate(p, i, m, b)
             \/ ProviderReplace(p)
             \/ \E b : ProviderSeal(p, b) \/ KeyGenerate(p, b)
             \/ \E k : KeyInsert(p, k) \/ KeyRetire(p, k)
             \/ KeyActivate(p) \/ KeyRetired(p)
      PROVE  UNCHANGED consentVars
  BY <1>2, Zenon DEF ProviderCreate, ProviderUpdate, ProviderReplace, ProviderSeal, KeyGenerate, KeyInsert, KeyRetire,
     KeyActivate, KeyRetired
<1>3. ASSUME NEW x,
             \/ \E b : AccessSetRestricted(x, b) \/ SpCreate(x, b) \/ SpUpdate(x, b)
             \/ \E a : ManagerAssign(x, a) \/ ManagerRemove(x, a)
             \/ ForwardAuthCreate(x)
      PROVE  UNCHANGED consentVars
  BY <1>3, Zenon DEF AccessSetRestricted, SpCreate, SpUpdate, ManagerAssign, ManagerRemove, ForwardAuthCreate
<1>4. ASSUME (\E x : ClientDelete(x) \/ SpDelete(x)) \/ \E i : ProviderDelete(i)
      PROVE  ConsentWrite
  BY <1>4, Zenon DEF ClientDelete, SpDelete, DeleteOIDCClient, DeleteSAMLSP, ProviderDelete, ConsentWrite
<1>5. CASE \E p \in Procs :
           \/ \E x \in Apps :
               \/ \E G \in SUBSET Groups : ReplaceAppGroups(p, x, G)
               \/ \E g \in Groups, a \in Accounts, e \in {"allow", "deny", "none"} :
                      FindBoundPolicyGroup(p, x, g, a, e)
           \/ SelectGroups(p) \/ DecisionSet(p)
           \/ \E sc \in SUBSET Scopes :
               \/ \E x \in OidcApps : ClientCreate(p, x, sc)
               \/ \E x \in OidcApps \cup FaApps : ClientUpdate(p, x, sc)
           \/ \E b, c \in BOOLEAN : ClientReplace(p, b, c)
           \/ \E b \in BOOLEAN : ClientInsert(p, b) \/ ProviderSeal(p, b) \/ KeyGenerate(p, b)
           \/ \E i \in Idps, m \in Modes :
               \/ \E b \in BOOLEAN : ProviderCreate(p, i, m, b)
               \/ \E b \in BOOLEAN \cup {None} : ProviderUpdate(p, i, m, b)
           \/ ProviderReplace(p)
           \/ \E k \in Kids : KeyInsert(p, k) \/ KeyRetire(p, k)
           \/ KeyActivate(p) \/ KeyRetired(p)
  BY <1>1, <1>2, <1>5, Zenon
<1> QED  BY <1>3, <1>4, <1>5, Zenon DEF CommandsNext

LEMMA ConsentSteps ==
    ASSUME FrameOK, [Next]_vars
    PROVE  ConsentWrite \/ UNCHANGED consentVars
<1> USE DEF consentVars, authorizeVars, authorizeHistory
<1>1. CASE UNCHANGED vars  BY <1>1, Zenon DEF vars
<1>2. ASSUME Surroundings  PROVE ConsentWrite \/ UNCHANGED consentVars
  <2>1. ASSUME NEW s, (\E a : DisableAccount(s, a)) \/ Relink(s) \/ Logout(s)
        PROVE  UNCHANGED consentVars
    BY <2>1, Zenon DEF DisableAccount, Relink, Logout
  <2>2. ASSUME (\E a : SignIn(a)) \/ MaintenanceShows \/ Tick  PROVE UNCHANGED consentVars
    BY <2>2, Zenon DEF SignIn, MaintenanceShows, Tick
  <2>3. ASSUME NEW s, (\E i : DeleteIdp(s, i)) \/ (\E a : DeleteAccount(s, a))  PROVE ConsentWrite
    BY <2>3, Zenon DEF DeleteIdp, ConsentWrite
  <2> QED  BY <1>2, <2>1, <2>2, <2>3, Zenon DEF Surroundings
<1>3. ASSUME NEW p \in Procs, Ends(p) \/ Deletes(p)  PROVE ConsentWrite \/ UNCHANGED consentVars
  BY <1>3, Zenon DEF Ends, Deletes, others, ConsentWrite
<1>4. CASE Next
  <2>1. ComponentStep  BY <1>4, StepSplit
  <2>2. ASSUME UNCHANGED policyRest  PROVE UNCHANGED consentVars  BY <2>2, Zenon DEF policyRest
  <2>3. ASSUME UNCHANGED others  PROVE UNCHANGED consentVars  BY <2>3, Zenon DEF others
  <2>4. ASSUME ForwardAuthKept  PROVE UNCHANGED consentVars  BY <2>4, Zenon DEF ForwardAuthKept
  <2> QED  BY <1>2, <1>3, <2>1, <2>2, <2>3, <2>4, AuthorizeConsents, SamlConsents, CommandConsents, Zenon DEF ComponentStep
<1> QED  BY <1>1, <1>4

ConsentInv == DOMAIN consents = Accounts \X Apps /\ DOMAIN agreed = Accounts \X Apps /\ ConsentHolds

LEMMA ConsentStep ==
    ASSUME FrameInv, ConsentInv, [Next]_vars
    PROVE  ConsentInv'
<1> USE DEF ConsentInv
<1>1. CASE UNCHANGED consentVars  BY <1>1 DEF consentVars, ConsentHolds
<1>2. ASSUME NEW p, ConsentApproved(p)  PROVE ConsentInv'
  <2> DEFINE z == <<loc[p].a, loc[p].x>>
             new == loc[p].set
             union == loc[p].member \cup new
  <2>1. CASE UNCHANGED consentVars  BY <1>1, <2>1
  <2>2. CASE /\ consents' = [consents EXCEPT ![z] = union] /\ agreed' = [agreed EXCEPT ![z] = agreed[z] \cup new]
             /\ lapped' = IF ~(union \subseteq agreed[z] \cup new) THEN lapped \cup {z} ELSE lapped
    <3> HIDE DEF z, new, union
    <3> QED  BY <2>2 DEF ConsentHolds
  <2> QED  BY <1>2, <2>1, <2>2 DEF ConsentApproved, consentVars
<1>3. ASSUME NEW p, ResumeRecords(p)  PROVE ConsentInv'
  <2> DEFINE z == <<loc[p].a, loc[p].x>>
  <2>1. UNCHANGED lapped  BY <1>3 DEF ResumeRecords
  <2>2. CASE UNCHANGED <<consents, agreed>>  BY <1>1, <2>1, <2>2 DEF consentVars
  <2>3. CASE consents' = [consents EXCEPT ![z] = {"saml"}] /\ agreed' = [agreed EXCEPT ![z] = {"saml"}]
    <3> HIDE DEF z
    <3> QED  BY <2>1, <2>3 DEF ConsentHolds
  <2> QED  BY <1>3, <2>2, <2>3, Zenon DEF ResumeRecords
<1>4. ASSUME NEW s, NEW x, RevokeConsent(s, x)  PROVE ConsentInv'
  <2> DEFINE z == <<sess[s].a, x>>
  <2>1. /\ consents' = [consents EXCEPT ![z] = {}] /\ agreed' = [agreed EXCEPT ![z] = {}] /\ lapped' = lapped \ {z}
    BY <1>4 DEF RevokeConsent, RevokedConsent
  <2> HIDE DEF z
  <2> QED  BY <2>1 DEF ConsentHolds
<1>5. ASSUME NEW x, RowDeleted(x)  PROVE ConsentInv'
  <2>1. /\ consents' = [y \in Accounts \X Apps |-> IF y[2] = x THEN {} ELSE consents[y]]
        /\ agreed' = [y \in Accounts \X Apps |-> IF y[2] = x THEN {} ELSE agreed[y]] /\ lapped' = lapped
    BY <1>5 DEF RowDeleted
  <2> QED  BY <2>1 DEF ConsentHolds
<1>6. ASSUME NEW i, ProviderDeleted(i)  PROVE ConsentInv'
  <2>1. /\ consents' = [y \in Accounts \X Apps |-> consents[y] \ {i}]
        /\ agreed' = [y \in Accounts \X Apps |-> agreed[y] \ {i}] /\ lapped' = lapped
    BY <1>6 DEF ProviderDeleted
  <2> QED  BY <2>1 DEF ConsentHolds
<1>7. ASSUME NEW s, NEW a, DeleteAccount(s, a)  PROVE ConsentInv'
  <2>1. /\ consents' = [y \in Accounts \X Apps |-> IF y[1] = a THEN {} ELSE consents[y]]
        /\ agreed' = [y \in Accounts \X Apps |-> IF y[1] = a THEN {} ELSE agreed[y]] /\ lapped' = lapped
    BY <1>7 DEF DeleteAccount
  <2> QED  BY <2>1 DEF ConsentHolds
<1> QED  BY <1>1, <1>2, <1>3, <1>4, <1>5, <1>6, <1>7, ConsentSteps DEF ConsentWrite, FrameInv

\* ConsentHolds for every instance: whatever is revoked, deleted or approved at the
\* same time, a stored scope was approved and not taken back, but for the approval
\* that wrote back a row it had read before.
THEOREM ConsentAlwaysHolds == Spec => []ConsentHolds
<1>1. Init => FrameInv /\ ConsentInv
  <2>1. Init => ConsentInv  BY DEF Init, AuthorizeInit, ConsentInv, ConsentHolds
  <2> QED  BY <2>1, FrameInit
<1>2. FrameInv /\ ConsentInv /\ [Next]_vars => (FrameInv /\ ConsentInv)'  BY FrameStep, ConsentStep
<1>3. FrameInv /\ ConsentInv => ConsentHolds  BY DEF ConsentInv
<1> QED  BY <1>1, <1>2, <1>3, PTL DEF Spec

-----------------------------------------------------------------------------
(* Entries of the key-value store                                            *)

NameOK == clock \in Nat /\ handed \in Nat /\ DOMAIN kv = Nonces /\ \A n \in Nonces : kv[n].exp \in Nat

\* An entry stays, goes, is stored under the next name, and is of a kind of K, or lives
\* longer, its value kept.
KvMoves(K) ==
    /\ DOMAIN kv' = Nonces /\ (handed' = handed \/ handed' = handed + 1)
    /\ \A n \in Nonces :
        \/ kv'[n] = kv[n] \/ kv'[n] = NoEntry
        \/ n = handed + 1 /\ handed' = handed + 1 /\ kv'[n].exp \in Nat /\ kv'[n].val.kind \in K
        \/ Found(kv, n, clock) /\ kv'[n].val = kv[n].val /\ kv'[n].exp \in Nat

kvVars == <<kv, handed>>

LEMMA QuietKv ==
    ASSUME NameOK, UNCHANGED kvVars
    PROVE  KvMoves({})
BY DEF NameOK, kvVars, KvMoves

LEMMA GoneKv ==
    ASSUME NameOK, NEW n, kv' = Pop(n), UNCHANGED handed
    PROVE  KvMoves({})
BY DEF NameOK, Pop, Del, KvMoves

LEMMA WiderKv ==
    ASSUME NEW K, NEW L, K \subseteq L, KvMoves(K)
    PROVE  KvMoves(L)
BY DEF KvMoves

LEMMA SetKv ==
    ASSUME NameOK, NEW store, store = kv \/ (\E m : store = Pop(m)), NEW v, NEW ttl \in Nat, NEW now \in Nat,
           handed' = handed + 1, kv' = SetEx(store, handed + 1, v, ttl, now)
    PROVE  KvMoves({v.kind})
<1>1. DOMAIN store = Nonces /\ \A n \in Nonces : store[n] = kv[n] \/ store[n] = NoEntry  BY DEF NameOK, Pop, Del
<1> DEFINE e == Entry(v, now + ttl)
<1>2. e.exp \in Nat /\ e.val = v  BY DEF Entry
<1>3. kv' = [store EXCEPT ![handed + 1] = e]  BY DEF SetEx
<1> HIDE DEF e
<1> QED  BY <1>1, <1>2, <1>3 DEF KvMoves

LEMMA StashKv ==
    ASSUME NameOK, NEW store, store = kv \/ (\E m : store = Pop(m)), NEW v, NEW ttl \in Nat, Stash(store, v, ttl)
    PROVE  KvMoves({v.kind})
BY SetKv, Zenon DEF Stash, NameOK

LEMMA SpoiledKv == \A m, kind : Spoiled(m, kind) = kv \/ Spoiled(m, kind) = Pop(m)
BY DEF Spoiled

\* The kinds of the values stored.
LEMMA Values ==
    ASSUME NEW kind, NEW a, NEW x, NEW s, NEW sc, NEW at, NEW ref
    PROVE  /\ [NoVal EXCEPT !.kind = kind, !.a = a, !.at = at].kind = kind
           /\ [NoVal EXCEPT !.kind = kind, !.a = a, !.x = x, !.sc = sc].kind = kind
           /\ [NoVal EXCEPT !.kind = kind, !.a = a, !.x = x, !.s = s, !.sc = sc, !.ref = ref].kind = kind
           /\ [NoVal EXCEPT !.kind = kind, !.a = a, !.x = x, !.s = s, !.sc = sc].kind = kind
           /\ [NoVal EXCEPT !.kind = kind, !.a = a, !.x = x, !.ref = ref].kind = kind
           /\ [NoVal EXCEPT !.kind = kind, !.a = a, !.x = x, !.ref = ref].ref = ref
           /\ [NoVal EXCEPT !.kind = kind, !.x = x].kind = kind
BY DEF NoVal

LEMMA DemandKv ==
    ASSUME NameOK, NEW kind, NEW a, NEW m, DemandReauth(kind, a, Spoiled(m, kind))
    PROVE  KvMoves({kind})
<1> DEFINE store == Spoiled(m, kind)
           v == [NoVal EXCEPT !.kind = kind, !.a = a, !.at = clock + 1]
<1>1. store = kv \/ \E n : store = Pop(n)  BY SpoiledKv
<1>2. handed' = handed + 1 /\ kv' = SetEx(store, handed + 1, v, TicketTTL, clock + 1)  BY Zenon DEF DemandReauth
<1>3. clock + 1 \in Nat /\ TicketTTL \in Nat  BY AuthorizeAssumption DEF NameOK
<1>4. v.kind = kind  BY Values
<1> HIDE DEF store, v
<1> QED  BY <1>1, <1>2, <1>3, <1>4, SetKv

LEMMA AuthorizeKv ==
    ASSUME NameOK, AuthorizeNext
    PROVE  KvMoves({"reauth", "ticket", "code", "need"})
<1> DEFINE K == {"reauth", "ticket", "code", "need"}
<1>0. TicketTTL \in Nat /\ AuthCodeTTL \in Nat  BY AuthorizeAssumption
<1>1. ASSUME NEW p \in Procs,
             \/ \E s, x, sc, prompt, age, m, ref : Authorize(p, s, x, sc, prompt, age, m, ref)
             \/ \E s, x, P : RequireIdentity(p, s, x, P)
             \/ AuthorizeDenied(p) \/ AuthorizeFresh(p) \/ ConsentApproved(p)
      PROVE  KvMoves({})
  <2>1. UNCHANGED kvVars  BY <1>1, Zenon DEF Authorize, RequireIdentity, AuthorizeDenied, AuthorizeFresh, ConsentApproved,
     authorizeVars, kvVars
  <2> QED  BY <2>1, QuietKv
<1>2. ASSUME NEW p \in Procs, (\E s, n, b : ConsentDecision(p, s, n, b)) \/ AuthorizeReauthed(p)
      PROVE  KvMoves({})
  <2>1. (\E n : kv' = Pop(n)) /\ UNCHANGED handed  BY <1>2, Zenon DEF ConsentDecision, AuthorizeReauthed
  <2> QED  BY <2>1, GoneKv
<1>3. ASSUME NEW p \in Procs, AuthorizeReauthFails(p)  PROVE KvMoves({}) \/ KvMoves({"reauth"})
  <2>1. CASE kv' = Spoiled(loc[p].n, "reauth") /\ UNCHANGED handed
    BY <2>1, SpoiledKv, GoneKv, QuietKv DEF kvVars
  <2>2. CASE DemandReauth("reauth", loc[p].a, Spoiled(loc[p].n, "reauth"))  BY <2>2, DemandKv
  <2> QED  BY <1>3, <2>1, <2>2, Zenon DEF AuthorizeReauthFails
<1>4. ASSUME NEW p \in Procs, AuthorizeAsks(p)  PROVE KvMoves({}) \/ KvMoves({"ticket"})
  <2> DEFINE v == [NoVal EXCEPT !.kind = "ticket", !.a = loc[p].a, !.x = loc[p].x, !.sc = loc[p].set]
  <2>1. UNCHANGED kvVars \/ Stash(kv, v, TicketTTL)  BY <1>4, Zenon DEF AuthorizeAsks, kvVars
  <2>2. v.kind = "ticket"  BY Values
  <2> HIDE DEF v
  <2> QED  BY <1>0, <2>1, <2>2, QuietKv, StashKv
<1>5. ASSUME NEW p \in Procs, AuthorizeMints(p)  PROVE KvMoves({"code"})
  <2> DEFINE v == [NoVal EXCEPT !.kind = "code", !.a = loc[p].a, !.x = loc[p].x, !.s = loc[p].s, !.sc = loc[p].set,
                                !.ref = loc[p].g]
  <2>1. Stash(kv, v, AuthCodeTTL)  BY <1>5, Zenon DEF AuthorizeMints
  <2>2. v.kind = "code"  BY Values
  <2> HIDE DEF v
  <2> QED  BY <1>0, <2>1, <2>2, StashKv
<1>6. ASSUME NEW a, NEW x, NEW s, NEW P, NeedTicket(a, x, s, P)  PROVE KvMoves({"need"})
  <2> DEFINE v == [NoVal EXCEPT !.kind = "need", !.a = a, !.x = x, !.s = s, !.sc = P]
  <2>1. Stash(kv, v, TicketTTL)  BY <1>6, Zenon DEF NeedTicket
  <2>2. v.kind = "need"  BY Values
  <2> HIDE DEF v
  <2> QED  BY <1>0, <2>1, <2>2, StashKv
<1>7. ASSUME NEW p \in Procs, RequireIdentityDecide(p)  PROVE KvMoves({}) \/ KvMoves({"need"})
  BY <1>6, <1>7, QuietKv, Zenon DEF RequireIdentityDecide, kvVars
<1>8. ASSUME NEW s, NEW x, RevokeConsent(s, x) \/ \E P : RequireIdentityMismatch(s, x, P)  PROVE KvMoves({}) \/ KvMoves({"need"})
  BY <1>6, <1>8, QuietKv, Zenon DEF RequireIdentityMismatch, RevokeConsent, kvVars
<1>9. KvMoves({}) \/ KvMoves({"reauth"}) \/ KvMoves({"ticket"}) \/ KvMoves({"code"}) \/ KvMoves({"need"}) => KvMoves(K)
  BY WiderKv
<1> QED  BY <1>1, <1>2, <1>3, <1>4, <1>5, <1>7, <1>8, <1>9, Zenon DEF AuthorizeNext

LEMMA SamlKv ==
    ASSUME NameOK, SamlNext
    PROVE  KvMoves({"samlreauth"}) \/ (KvMoves({"samlticket"}) /\ \E p \in Procs : SsoAsks(p))
<1>0. TicketTTL \in Nat  BY AuthorizeAssumption
<1>1. ASSUME NEW p \in Procs,
             \/ \E s, r, m : Sso(p, s, r, m)
             \/ \E s, x : SsoInit(p, s, x)
             \/ \E r : Slo(p, r)
             \/ \E s, ok : SloRow(p, s, ok)
      PROVE  KvMoves({})
  <2>1. UNCHANGED kvVars  BY <1>1, Zenon DEF Sso, SsoInit, Slo, SloRow, authorizeVars, kvVars
  <2> QED  BY <2>1, QuietKv
<1>2. ASSUME NEW p \in Procs,
             \/ SsoRefused(p) \/ SsoLosesSession(p) \/ SsoConsume(p) \/ SsoIssues(p)
             \/ SsoInitDecide(p) \/ ResumeRecords(p) \/ ResumeIssues(p) \/ SloDone(p)
      PROVE  KvMoves({})
  <2>1. UNCHANGED kvVars  BY <1>2, Zenon DEF SsoRefused, SsoLosesSession, SsoConsume, SsoIssues,
     SsoInitDecide, ResumeRecords, ResumeIssues, SloDone, authorizeVars, kvVars
  <2> QED  BY <2>1, QuietKv
<1>3. ASSUME \/ \E r, kind, x, skew, pa, fo, a : SendRequest(r, kind, x, skew, pa, fo, a)
             \/ \E r : SsoNoSession(r) \/ SloAborts(r)
      PROVE  KvMoves({})
  <2>1. UNCHANGED kvVars  BY <1>3, Zenon DEF SendRequest, SsoNoSession, SloAborts, authorizeVars, kvVars
  <2> QED  BY <2>1, QuietKv
<1>4. ASSUME (\E p, s, n : ConsentResume(p, s, n)) \/ (\E s, n : SamlDecline(s, n)) \/ \E p : SsoFresh(p)
      PROVE  KvMoves({})
  <2>1. (UNCHANGED kv \/ \E n : kv' = Pop(n)) /\ UNCHANGED handed  BY <1>4, Zenon DEF ConsentResume, SamlDecline, SsoFresh
  <2> QED  BY <2>1, GoneKv, QuietKv DEF kvVars
<1>5. ASSUME NEW p, SsoReauthFails(p)  PROVE KvMoves({"samlreauth"})
  BY <1>5, DemandKv, Zenon DEF SsoReauthFails
<1>6. ASSUME NEW p, SsoAsks(p)  PROVE KvMoves({"samlticket"})
  <2> DEFINE v == [NoVal EXCEPT !.kind = "samlticket", !.a = loc[p].a, !.x = loc[p].x, !.ref = loc[p].val]
  <2>1. Stash(kv, v, TicketTTL)  BY <1>6, Zenon DEF SsoAsks
  <2>2. v.kind = "samlticket"  BY Values
  <2> HIDE DEF v
  <2> QED  BY <1>0, <2>1, <2>2, StashKv
<1>7. KvMoves({}) => KvMoves({"samlreauth"})  BY WiderKv
<1>8. CASE \E p \in Procs :
        \/ \E s \in Visits, r \in Requests, m \in Markers("samlreauth") : Sso(p, s, r, m)
        \/ SsoRefused(p) \/ SsoLosesSession(p) \/ SsoFresh(p) \/ SsoConsume(p) \/ SsoIssues(p)
        \/ SsoReauthFails(p) \/ SsoAsks(p)
        \/ \E s \in Visits, x \in SamlApps : SsoInit(p, s, x)
        \/ SsoInitDecide(p)
        \/ \E s \in Visits, n \in Nonces : ConsentResume(p, s, n)
        \/ ResumeRecords(p) \/ ResumeIssues(p)
        \/ \E r \in Requests : Slo(p, r)
        \/ \E s \in Sids, ok \in BOOLEAN : SloRow(p, s, ok)
        \/ SloDone(p)
  BY <1>1, <1>2, <1>4, <1>5, <1>6, <1>7, <1>8, Zenon
<1> QED  BY <1>3, <1>4, <1>7, <1>8, Zenon DEF SamlNext

LEMMA ForwardAuthKv ==
    ASSUME NameOK, ForwardAuthNext
    PROVE  KvMoves({"fastate"}) \/ (KvMoves({"fa"}) /\ \E p \in Procs : CallbackMints(p))
<1>0. FaTTL \in Nat /\ StateTTL \in Nat  BY ForwardAuthAssumption
<1>1. ASSUME NEW p \in Procs, (\E x, n : Verify(p, x, n)) \/ (\E x, t : VerifyPat(p, x, t)) \/ VerifyDecide(p) \/ VerifyPatDecide(p)
      PROVE  KvMoves({})
  <2>1. UNCHANGED authorizeVars  BY <1>1, Zenon DEF Verify, VerifyPat, VerifyDecide, VerifyPatDecide
  <2> QED  BY <2>1, QuietKv DEF authorizeVars, kvVars
<1>2. ASSUME (\E s, t, access, A, b : CreateToken(s, t, access, A, b)) \/ \E s, t : RevokeToken(s, t)  PROVE KvMoves({})
  <2>1. UNCHANGED authorizeVars  BY <1>2, Zenon DEF CreateToken, RevokeToken
  <2> QED  BY <2>1, QuietKv DEF authorizeVars, kvVars
<1>3. ASSUME (\E n : SignOut(n)) \/ \E p, st, n : Callback(p, st, n)  PROVE KvMoves({})
  <2>1. (\E n : kv' = Pop(n)) /\ UNCHANGED handed  BY <1>3, Zenon DEF SignOut, Callback
  <2> QED  BY <2>1, GoneKv
<1>4. ASSUME NEW x, StashState(x)  PROVE KvMoves({"fastate"})
  <2> DEFINE v == [NoVal EXCEPT !.kind = "fastate", !.x = x]
  <2>1. Stash(kv, v, StateTTL)  BY <1>4, Zenon DEF StashState
  <2>2. v.kind = "fastate"  BY Values
  <2> HIDE DEF v
  <2> QED  BY <1>0, <2>1, <2>2, StashKv
<1>5. ASSUME (\E x : VerifyRedirects(x)) \/ \E p : VerifyDenied(p)  PROVE KvMoves({"fastate"})
  BY <1>4, <1>5, Zenon DEF VerifyRedirects, VerifyDenied
<1>6. ASSUME NEW p, CallbackMints(p)  PROVE KvMoves({}) \/ KvMoves({"fa"})
  <2> DEFINE c == loc[p].n
             v == [NoVal EXCEPT !.kind = "fa", !.a = kv[c].val.a, !.x = loc[p].x, !.ref = kv[c].val.ref]
  <2>1. \/ UNCHANGED kvVars
        \/ kv' = Pop(c) /\ UNCHANGED handed
        \/ Stash(Pop(c), v, FaTTL)
    BY <1>6, Zenon DEF CallbackMints, kvVars
  <2>2. v.kind = "fa"  BY Values
  <2> HIDE DEF v, c
  <2> QED  BY <1>0, <2>1, <2>2, QuietKv, GoneKv, StashKv
<1>7. ASSUME NEW p, VerifyRenews(p)  PROVE KvMoves({})
  <2> DEFINE n == loc[p].n
             v == loc[p].val
             e == Entry(v, clock + FaTTL)
  <2>1. UNCHANGED handed  BY <1>7, Zenon DEF VerifyRenews
  <2>2. kv' = IF Holds(kv, n, v, clock) THEN [kv EXCEPT ![n] = e] ELSE kv
    BY <1>7 DEF VerifyRenews, RenewedFASession, CompareAndSwap, SetEx
  <2>3. e.val = v /\ e.exp \in Nat  BY <1>0 DEF Entry, NameOK
  <2> HIDE DEF e, v, n
  <2>4. CASE ~Holds(kv, n, v, clock)  BY <2>1, <2>2, <2>4, QuietKv DEF kvVars
  <2>5. CASE Holds(kv, n, v, clock)  BY <2>1, <2>2, <2>3, <2>5 DEF Holds, KvMoves, NameOK
  <2> QED  BY <2>4, <2>5
<1>8. KvMoves({}) => KvMoves({"fastate"}) /\ KvMoves({"fa"})  BY WiderKv
<1> QED  BY <1>1, <1>2, <1>3, <1>5, <1>6, <1>7, <1>8, Zenon DEF ForwardAuthNext

LEMMA PassesClock ==
    ASSUME FrameOK, ComponentStep, clock \in Nat
    PROVE  clock' \in Nat /\ clock <= clock'
<1>1. ASSUME Passes  PROVE clock' \in Nat /\ clock <= clock'  BY <1>1 DEF Passes
<1>2. ASSUME UNCHANGED clock  PROVE clock' \in Nat /\ clock <= clock'  BY <1>2
<1>3. ASSUME NEW p, EvalManual(p) \/ ReplaceGroupsCommit(p) \/ (\E s, x, G : ReplaceGroups(p, s, x, G))  PROVE UNCHANGED clock
  BY <1>3, Zenon DEF EvalManual, ReplaceGroupsCommit, ReplaceGroups, tables
<1>4. ASSUME NEW p, Ends(p) \/ Deletes(p)  PROVE UNCHANGED clock
  BY <1>4, Zenon DEF Ends, Deletes, RowDeleted, others, tables
<1> QED  BY <1>1, <1>2, <1>3, <1>4, Zenon
     DEF ComponentStep, AuthorizeKept, SamlKept, ForwardAuthKept, CommandsKept, SurroundingsKept, others, tables

Kinds == {"reauth", "ticket", "code", "need", "samlreauth", "samlticket", "fastate", "fa"}

LEMMA ComponentKv ==
    ASSUME NameOK, ComponentStep
    PROVE  KvMoves(Kinds)
<1>1. ASSUME UNCHANGED policyRest \/ UNCHANGED others \/ CommandsKept \/ SurroundingsKept  PROVE KvMoves({})
  <2>1. UNCHANGED kvVars  BY <1>1, Zenon DEF policyRest, others, CommandsKept, SurroundingsKept, authorizeVars, kvVars
  <2> QED  BY <2>1, QuietKv
<1>2. ASSUME NEW p, Ends(p) \/ Deletes(p)  PROVE KvMoves({})
  <2>1. UNCHANGED kvVars  BY <1>2, Zenon DEF Ends, Deletes, RowDeleted, others, authorizeVars, kvVars
  <2> QED  BY <2>1, QuietKv
<1>3. KvMoves({}) \/ KvMoves({"samlreauth"}) \/ KvMoves({"samlticket"}) \/ KvMoves({"fastate"}) \/ KvMoves({"fa"})
      \/ KvMoves({"reauth", "ticket", "code", "need"}) => KvMoves(Kinds)
  BY WiderKv DEF Kinds
<1> QED  BY <1>1, <1>2, <1>3, AuthorizeKv, SamlKv, ForwardAuthKv, Zenon DEF ComponentStep

\* Who is signed out, after a step.
LEMMA ComponentSignedOut ==
    ASSUME ComponentStep
    PROVE  \/ UNCHANGED signedOut
           \/ \E n \in Nonces : Has(n, "fa") /\ kv' = Pop(n) /\ signedOut' = signedOut \cup {n} /\ UNCHANGED handed
<1> USE DEF faVars
<1>1. ASSUME ForwardAuthNext
      PROVE  \/ UNCHANGED signedOut
             \/ \E n \in Nonces : Has(n, "fa") /\ kv' = Pop(n) /\ signedOut' = signedOut \cup {n} /\ UNCHANGED handed
  <2>1. ASSUME NEW p \in Procs, (\E x, n : Verify(p, x, n)) \/ (\E x, t : VerifyPat(p, x, t)) \/ (\E st, n : Callback(p, st, n))
               \/ VerifyDecide(p) \/ VerifyRenews(p) \/ VerifyDenied(p) \/ VerifyPatDecide(p) \/ CallbackMints(p)
        PROVE  UNCHANGED signedOut
    BY <2>1, Zenon DEF Verify, VerifyPat, Callback, VerifyDecide, VerifyRenews, VerifyDenied, VerifyPatDecide, CallbackMints
  <2>2. ASSUME (\E s, t, access, A, b : CreateToken(s, t, access, A, b)) \/ (\E s, t : RevokeToken(s, t)) \/ \E x : VerifyRedirects(x)
        PROVE  UNCHANGED signedOut
    BY <2>2, Zenon DEF CreateToken, RevokeToken, VerifyRedirects
  <2>3. ASSUME NEW n \in Nonces, SignOut(n)
        PROVE  Has(n, "fa") /\ kv' = Pop(n) /\ signedOut' = signedOut \cup {n} /\ UNCHANGED handed
    BY <2>3, Zenon DEF SignOut
  <2> QED  BY <1>1, <2>1, <2>2, <2>3, Zenon DEF ForwardAuthNext
<1>2. ASSUME NEW p, Ends(p) \/ Deletes(p)  PROVE UNCHANGED signedOut
  BY <1>2, Zenon DEF Ends, Deletes, RowDeleted, others
<1> QED  BY <1>1, <1>2, Zenon DEF ComponentStep, policyRest, others, CommandsKept, SurroundingsKept

\* A name is given to one entry only, so what is gone under it stays gone.
NameInv == NameOK /\ \A n \in Nonces : Found(kv, n, clock) => n <= handed

OutInv == signedOut \subseteq {n \in Nonces : n <= handed} /\ SignedOutStaysOut

LEMMA NameStep ==
    ASSUME FrameInv, NameInv, [Next]_vars
    PROVE  NameInv' /\ \A n \in Nonces : n <= handed /\ ~Found(kv, n, clock) => n <= handed' /\ ~Found(kv', n, clock')
<1>1. CASE UNCHANGED vars
  <2>1. UNCHANGED <<clock, kv, handed>>  BY <1>1 DEF vars, directory, tables, authorizeVars
  <2> QED  BY <2>1 DEF NameInv, NameOK
<1>2. CASE Next
  <2>1. ComponentStep  BY <1>2, StepSplit DEF FrameInv
  <2>2. clock' \in Nat /\ clock <= clock'  BY <2>1, PassesClock DEF FrameInv, NameInv, NameOK
  <2>3. KvMoves(Kinds)  BY <2>1, ComponentKv DEF NameInv
  <2>4. NoEntry.exp = 0  BY DEF NoEntry
  <2>5. handed \in Nat /\ handed' \in Nat /\ clock \in Nat /\ handed <= handed'  BY <2>3 DEF NameInv, NameOK, KvMoves
  <2>6. ASSUME NEW n \in Nonces
        PROVE  /\ kv'[n].exp \in Nat
               /\ Found(kv', n, clock') => n <= handed'
               /\ n <= handed /\ ~Found(kv, n, clock) => ~Found(kv', n, clock')
    <3>1. n \in Int /\ kv[n].exp \in Nat /\ (Found(kv, n, clock) => n <= handed)  BY DEF NameInv, NameOK, Nonces
    <3>2. CASE kv'[n] = kv[n]  BY <2>2, <2>5, <3>1, <3>2 DEF Found
    <3>3. CASE kv'[n] = NoEntry  BY <2>2, <2>4, <3>1, <3>3 DEF Found
    <3>4. CASE n = handed + 1 /\ handed' = handed + 1 /\ kv'[n].exp \in Nat  BY <2>5, <3>4
    <3>5. CASE Found(kv, n, clock) /\ kv'[n].exp \in Nat  BY <2>5, <3>1, <3>5
    <3> QED  BY <2>3, <3>2, <3>3, <3>4, <3>5 DEF KvMoves
  <2>7. \A n \in Nonces : n <= handed => n <= handed'  BY <2>5 DEF Nonces
  <2> QED  BY <2>2, <2>3, <2>5, <2>6, <2>7 DEF NameInv, NameOK, KvMoves
<1> QED  BY <1>1, <1>2

LEMMA OutStep ==
    ASSUME FrameInv, NameInv, OutInv, [Next]_vars
    PROVE  OutInv'
<1>1. CASE UNCHANGED signedOut  BY <1>1, NameStep DEF OutInv, SignedOutStaysOut
<1>2. ASSUME NEW n \in Nonces, Has(n, "fa"), kv' = Pop(n), signedOut' = signedOut \cup {n}, UNCHANGED handed
      PROVE  OutInv'
  <2>1. n <= handed'  BY <1>2 DEF Has, NameInv
  <2>2. kv'[n].exp = 0  BY <1>2 DEF Pop, Del, NameInv, NameOK, NoEntry
  <2>3. clock' \in Nat  BY NameStep DEF NameInv, NameOK
  <2>4. ~Found(kv', n, clock')  BY <2>2, <2>3 DEF Found
  <2> QED  BY <1>2, <2>1, <2>4, NameStep DEF OutInv, SignedOutStaysOut
<1>3. CASE Next  BY <1>1, <1>2, <1>3, StepSplit, ComponentSignedOut DEF FrameInv
<1> QED  BY <1>1, <1>3 DEF vars, faVars

LEMMA NameInit == Init => NameInv /\ OutInv
<1> SUFFICES ASSUME Init  PROVE NameInv /\ OutInv
  OBVIOUS
<1>1. clock = 1 /\ (handed = 0 \/ handed = 1)  BY DEF Init, Starts
<1>2. \A v : Entry(v, clock + 1).exp = 2  BY <1>1 DEF Entry
<1>3. DOMAIN kv = Nonces /\ \A n \in Nonces : (n <= handed => kv[n].exp = 2) /\ (~(n <= handed) => kv[n].exp = 0)
  BY <1>2 DEF Init, NoEntry
<1>4. \A n \in Nonces : ~(n <= handed) => ~Found(kv, n, clock)  BY <1>1, <1>3 DEF Found
<1>5. signedOut = {}  BY DEF Init
<1> QED  BY <1>1, <1>3, <1>4, <1>5 DEF NameInv, NameOK, OutInv, SignedOutStaysOut

\* SignedOutStaysOut for every instance: no request that was renewing a session, and no
\* entry stored since, brings back one that was signed out of.
THEOREM SignedOutAlwaysStaysOut == Spec => []SignedOutStaysOut
<1>1. Init => FrameInv /\ NameInv /\ OutInv  BY FrameInit, NameInit
<1>2. FrameInv /\ NameInv /\ OutInv /\ [Next]_vars => (FrameInv /\ NameInv /\ OutInv)'  BY FrameStep, NameStep, OutStep
<1>3. FrameInv /\ NameInv /\ OutInv => SignedOutStaysOut  BY DEF OutInv
<1> QED  BY <1>1, <1>2, <1>3, PTL DEF Spec

-----------------------------------------------------------------------------
(* Signing keys                                                              *)

\* Key k stays published until instant e at least, given the rows K.
Lasts(K, k, e) ==
    \/ K[k].status = "active"
    \/ K[k].status \in {"decommissioning", "retired"} /\ e <= K[k].until

\* A key is demoted with an end, and retired at that end only.
RowInv ==
    /\ DOMAIN skeys = Kids
    /\ \A k \in Kids :
        /\ DOMAIN skeys[k] = {"status", "until"}
        /\ skeys[k].status \in {"decommissioning", "retired"} => skeys[k].until \in Nat
        /\ skeys[k].status = "retired" => skeys[k].until <= clock

RingInv ==
    /\ \A j, k \in Kids : skeys[j].status = "active" /\ skeys[k].status = "active" => j = k
    /\ "keyring" \in ops => \E k \in Kids : skeys[k].status = "active"

\* What a cache holds for active lasts for the grace period after it was read ...
CacheInv ==
    /\ DOMAIN cache = Caches
    /\ \A c \in Caches :
        /\ cache[c].asof \in Nat /\ cache[c].asof <= clock /\ (cache[c].at = None \/ cache[c].at \in Nat)
        /\ \A k \in Kids : cache[c].rows[k] = "active" => Lasts(skeys, k, cache[c].asof + Grace)

\* ... as does what a refresh is about to install ...
KeyHold(p) ==
    /\ pc[p] \in {"install", "keyInsert"} => DOMAIN loc[p] = Fields
    /\ pc[p] \in {"install", "sign"} => loc[p].x \in Caches
    /\ pc[p] = "keyActivate" => loc[p].val \in Kids
    /\ pc[p] = "install" => /\ loc[p].age \in Nat /\ loc[p].age <= clock
                            /\ \A k \in Kids : loc[p].val[k] = "active" => Lasts(skeys, k, loc[p].age + Grace)

\* ... and what was signed lasts until it expires.
SignedInv ==
    \A i \in signed : /\ i.k \in Kids /\ i.exp \in Nat /\ i.exp <= clock + TokenTTL
                      /\ GraceCovers => i.late \/ Lasts(skeys, i.k, i.exp)

KeyInv == RowInv /\ RingInv /\ CacheInv /\ (\A p \in Procs : KeyHold(p)) /\ SignedInv

\* What a step may do to a row, and to the active key.
RowMove(k) ==
    \/ skeys'[k] = skeys[k]
    \/ /\ DOMAIN skeys'[k] = {"status", "until"}
       /\ \/ skeys[k].status \in {"none", "pending"} /\ skeys'[k].status \in {"pending", "active"}
          \/ /\ skeys[k].status \in {"active", "pending", "decommissioning"}
             /\ skeys'[k].status = "decommissioning" /\ skeys'[k].until = clock + Grace
          \/ /\ skeys[k].status = "decommissioning" /\ clock >= skeys[k].until
             /\ skeys'[k].status = "retired" /\ skeys'[k].until = skeys[k].until
RingMove ==
    \/ \A k \in Kids : skeys'[k].status = "active" <=> skeys[k].status = "active"
    \/ \E j \in Kids : \A k \in Kids : skeys'[k].status = "active" <=> k = j
KeyMove == DOMAIN skeys' = Kids /\ (\A k \in Kids : RowMove(k)) /\ RingMove

TimePasses == clock \in Nat /\ clock' \in Nat /\ clock <= clock'

LEMMA RowsMove ==
    ASSUME RowInv, KeyMove, TimePasses
    PROVE  /\ RowInv'
           /\ \A k \in Kids, e \in Nat : e <= clock + Grace /\ Lasts(skeys, k, e) => Lasts(skeys', k, e)
<1>0. Grace \in Nat  BY SigningKeysAssumption
<1>1. ASSUME NEW k \in Kids
      PROVE  /\ DOMAIN skeys'[k] = {"status", "until"}
             /\ skeys'[k].status \in {"decommissioning", "retired"} => skeys'[k].until \in Nat
             /\ skeys'[k].status = "retired" => skeys'[k].until <= clock'
             /\ \A e \in Nat : e <= clock + Grace /\ Lasts(skeys, k, e) => Lasts(skeys', k, e)
  <2>1. RowMove(k)  BY DEF KeyMove
  <2>2. CASE skeys'[k] = skeys[k]  BY <2>2 DEF RowInv, Lasts, TimePasses
  <2>3. CASE /\ DOMAIN skeys'[k] = {"status", "until"}
             /\ skeys[k].status \in {"none", "pending"} /\ skeys'[k].status \in {"pending", "active"}
    BY <2>3 DEF Lasts
  <2>4. CASE /\ DOMAIN skeys'[k] = {"status", "until"}
             /\ skeys'[k].status = "decommissioning" /\ skeys'[k].until = clock + Grace
    BY <1>0, <2>4 DEF Lasts, TimePasses
  <2>5. CASE /\ DOMAIN skeys'[k] = {"status", "until"}
             /\ skeys[k].status = "decommissioning" /\ clock >= skeys[k].until
             /\ skeys'[k].status = "retired" /\ skeys'[k].until = skeys[k].until
    BY <2>5 DEF RowInv, Lasts, TimePasses
  <2> QED  BY <2>1, <2>2, <2>3, <2>4, <2>5 DEF RowMove
<1> QED  BY <1>1 DEF RowInv, KeyMove

LEMMA RingMoves ==
    ASSUME RingInv, KeyMove, UNCHANGED ops
    PROVE  RingInv'
BY DEF RingInv, KeyMove, RingMove

\* What a step leaves to show.
LEMMA KeyKept ==
    ASSUME KeyInv, KeyMove, TimePasses, UNCHANGED ops
    PROVE  /\ RowInv' /\ RingInv'
           /\ DOMAIN cache' = Caches /\ (\A d \in Caches : cache'[d] = cache[d] \/ cache'[d] = EmptyCache) => CacheInv'
           /\ UNCHANGED cache => CacheInv'
           /\ signed' \subseteq signed => SignedInv'
           /\ \A q \in Procs : pc'[q] = pc[q] /\ loc'[q] = loc[q] => KeyHold(q)'
<1>0. Grace \in Nat /\ TokenTTL \in Nat /\ KeyTTL \in Nat  BY SigningKeysAssumption
<1>1. RowInv' /\ RingInv' /\ \A k \in Kids, e \in Nat : e <= clock + Grace /\ Lasts(skeys, k, e) => Lasts(skeys', k, e)
  BY RowsMove, RingMoves DEF KeyInv
<1>2. ASSUME NEW c \in Caches
      PROVE  /\ cache[c].asof \in Nat /\ cache[c].asof <= clock' /\ (cache[c].at = None \/ cache[c].at \in Nat)
             /\ \A k \in Kids : cache[c].rows[k] = "active" => Lasts(skeys', k, cache[c].asof + Grace)
  <2>1. cache[c].asof \in Nat /\ cache[c].asof <= clock /\ (cache[c].at = None \/ cache[c].at \in Nat)
    BY DEF KeyInv, CacheInv
  <2>2. cache[c].asof + Grace \in Nat /\ cache[c].asof + Grace <= clock + Grace  BY <1>0, <2>1 DEF TimePasses
  <2>3. \A k \in Kids : cache[c].rows[k] = "active" => Lasts(skeys, k, cache[c].asof + Grace)  BY DEF KeyInv, CacheInv
  <2> QED  BY <1>1, <2>1, <2>2, <2>3 DEF TimePasses
<1>3. EmptyCache.asof = 0 /\ EmptyCache.at = None /\ \A k \in Kids : EmptyCache.rows[k] = "none"  BY DEF EmptyCache
<1>4. ASSUME DOMAIN cache' = Caches, \A d \in Caches : cache'[d] = cache[d] \/ cache'[d] = EmptyCache
      PROVE  CacheInv'
  <2>1. ASSUME NEW d \in Caches
        PROVE  /\ cache'[d].asof \in Nat /\ cache'[d].asof <= clock' /\ (cache'[d].at = None \/ cache'[d].at \in Nat)
               /\ \A k \in Kids : cache'[d].rows[k] = "active" => Lasts(skeys', k, cache'[d].asof + Grace)
    <3>1. CASE cache'[d] = cache[d]  BY <1>2, <3>1
    <3>2. CASE cache'[d] = EmptyCache  BY <1>3, <3>2 DEF TimePasses
    <3> QED  BY <1>4, <3>1, <3>2
  <2> QED  BY <1>4, <2>1 DEF CacheInv
<1>5. ASSUME signed' \subseteq signed  PROVE SignedInv'
  <2>1. ASSUME NEW i \in signed
        PROVE  /\ i.k \in Kids /\ i.exp \in Nat /\ i.exp <= clock' + TokenTTL
               /\ GraceCovers => i.late \/ Lasts(skeys', i.k, i.exp)
    <3>1. i.k \in Kids /\ i.exp \in Nat /\ i.exp <= clock + TokenTTL /\ (GraceCovers => i.late \/ Lasts(skeys, i.k, i.exp))
      BY DEF KeyInv, SignedInv
    <3>2. (GraceCovers => i.exp <= clock + Grace) /\ i.exp <= clock' + TokenTTL  BY <1>0, <3>1 DEF TimePasses, GraceCovers
    <3> QED  BY <1>1, <3>1, <3>2
  <2> QED  BY <1>5, <2>1 DEF SignedInv
<1>6. ASSUME NEW q \in Procs, pc'[q] = pc[q], loc'[q] = loc[q]  PROVE KeyHold(q)'
  <2>1. KeyHold(q)  BY DEF KeyInv
  <2>2. CASE pc[q] # "install"  BY <1>6, <2>1, <2>2 DEF KeyHold
  <2>3. CASE pc[q] = "install"
    <3> DEFINE e == loc[q].age + Grace
    <3>1. loc[q].age \in Nat /\ loc[q].age <= clock /\ DOMAIN loc[q] = Fields /\ loc[q].x \in Caches
          /\ \A k \in Kids : loc[q].val[k] = "active" => Lasts(skeys, k, e)
      BY <2>1, <2>3 DEF KeyHold
    <3>2. e \in Nat /\ e <= clock + Grace /\ loc[q].age <= clock'  BY <1>0, <3>1 DEF TimePasses
    <3>3. \A k \in Kids : loc[q].val[k] = "active" => Lasts(skeys', k, e)
      <4> HIDE DEF e
      <4> QED  BY <1>1, <3>1, <3>2
    <3> QED  BY <1>6, <2>3, <3>1, <3>2, <3>3 DEF KeyHold
  <2> QED  BY <2>2, <2>3
<1>7. ASSUME UNCHANGED cache  PROVE CacheInv'  BY <1>4, <1>7 DEF KeyInv, CacheInv
<1> QED  BY <1>1, <1>4, <1>5, <1>6, <1>7

\* The statements on signing_key.
LEMMA QuietKeys ==
    ASSUME RowInv, UNCHANGED skeys
    PROVE  KeyMove
BY DEF RowInv, KeyMove, RowMove, RingMove

LEMMA InsertedKey ==
    ASSUME RowInv, NEW k \in Kids, skeys[k].status = "none", NEW st \in {"pending", "active"}, st = "active" => Active = {},
           skeys' = [skeys EXCEPT ![k].status = st]
    PROVE  KeyMove
<1> DEFINE v == [skeys[k] EXCEPT !.status = st]
<1>1. DOMAIN v = {"status", "until"} /\ v.status = st  BY DEF RowInv
<1>2. skeys' = [skeys EXCEPT ![k] = v]  OBVIOUS
<1> HIDE DEF v
<1>3. DOMAIN skeys' = Kids /\ skeys'[k] = v /\ \A j \in Kids \ {k} : skeys'[j] = skeys[j]  BY <1>2 DEF RowInv
<1>4. \A j \in Kids : RowMove(j)  BY <1>1, <1>3 DEF RowMove
<1>5. RingMove
  <2>1. CASE st = "pending"  BY <1>1, <1>3, <2>1 DEF RingMove
  <2>2. CASE st = "active"  BY <1>1, <1>3, <2>2 DEF RingMove, Active
  <2> QED  BY <2>1, <2>2
<1> QED  BY <1>3, <1>4, <1>5 DEF KeyMove

LEMMA PromotedKey ==
    ASSUME RowInv, NEW k \in Kids, PromoteSigningKey(k), skeys' = Promoted(k)
    PROVE  KeyMove
<1>1. DOMAIN skeys' = Kids  BY DEF Promoted
<1>2. /\ skeys'[k] = [status |-> "active", until |-> None]
      /\ \A j \in Kids \ {k} : skeys'[j] = IF skeys[j].status = "active"
                                           THEN [status |-> "decommissioning", until |-> clock + Grace] ELSE skeys[j]
  BY DEF Promoted
<1>3. \A j \in Kids : RowMove(j)
  <2>1. RowMove(k)  BY <1>2 DEF PromoteSigningKey, RowMove
  <2>2. \A j \in Kids \ {k} : RowMove(j)  BY <1>2 DEF RowMove
  <2> QED  BY <2>1, <2>2
<1>4. \A j \in Kids : skeys'[j].status = "active" <=> j = k  BY <1>2
<1> QED  BY <1>1, <1>3, <1>4 DEF KeyMove, RingMove

LEMMA RetiredKey ==
    ASSUME RowInv, NEW k, Retirable(k),
           skeys' = [skeys EXCEPT ![k] = [status |-> "decommissioning", until |-> clock + Grace]]
    PROVE  KeyMove
<1> DEFINE v == [status |-> "decommissioning", until |-> clock + Grace]
<1>1. DOMAIN v = {"status", "until"} /\ v.status = "decommissioning" /\ v.until = clock + Grace  OBVIOUS
<1> HIDE DEF v
<1>2. DOMAIN skeys' = Kids /\ \A j \in Kids : skeys'[j] = IF j = k THEN v ELSE skeys[j]  BY DEF RowInv, v
<1>3. \A j \in Kids : RowMove(j)  BY <1>1, <1>2 DEF RowMove, Retirable
<1>4. \A j \in Kids : skeys'[j].status = "active" <=> skeys[j].status = "active"  BY <1>1, <1>2 DEF Retirable
<1> QED  BY <1>2, <1>3, <1>4 DEF KeyMove, RingMove

LEMMA ReconciledKeys ==
    ASSUME RowInv, skeys' = Reconciled
    PROVE  KeyMove
<1>1. DOMAIN skeys' = Kids  BY DEF Reconciled
<1>2. ASSUME NEW j \in Kids
      PROVE  RowMove(j) /\ (skeys'[j].status = "active" <=> skeys[j].status = "active")
  <2> DEFINE v == [skeys[j] EXCEPT !.status = "retired"]
  <2>1. skeys'[j] = IF skeys[j].status = "decommissioning" /\ clock >= skeys[j].until THEN v ELSE skeys[j]
    BY DEF Reconciled
  <2>2. DOMAIN v = {"status", "until"} /\ v.status = "retired" /\ v.until = skeys[j].until  BY DEF RowInv
  <2> HIDE DEF v
  <2> QED  BY <2>1, <2>2 DEF RowMove
<1> QED  BY <1>1, <1>2 DEF KeyMove, RingMove

\* What is signed on the rows of a cache lasts.
LEMMA SignedLasts ==
    ASSUME KeyInv, clock \in Nat, NEW c \in Caches, NEW slow, slow \/ ~Stale(c), SignWith(c, slow), UNCHANGED <<skeys, clock>>
    PROVE  SignedInv'
<1>0. Grace \in Nat /\ TokenTTL \in Nat /\ KeyTTL \in Nat  BY SigningKeysAssumption
<1> DEFINE e == clock + TokenTTL
           late == slow \/ cache[c].asof # cache[c].at
<1>1. e \in Nat  BY <1>0
<1>2. ASSUME NEW k \in Kids, cache[c].rows[k] = "active"
      PROVE  GraceCovers => late \/ Lasts(skeys, k, e)
  <2>1. SUFFICES ASSUME GraceCovers, ~late  PROVE Lasts(skeys, k, e)
    OBVIOUS
  <2>2. cache[c].at # None /\ ~(clock - cache[c].at > KeyTTL) /\ cache[c].asof = cache[c].at  BY <2>1 DEF Stale
  <2>3. cache[c].asof \in Nat /\ Lasts(skeys, k, cache[c].asof + Grace)  BY <1>2 DEF KeyInv, CacheInv
  <2>4. e <= cache[c].asof + Grace  BY <1>0, <2>1, <2>2, <2>3 DEF GraceCovers
  <2>5. skeys[k].status \in {"decommissioning", "retired"} => skeys[k].until \in Nat  BY DEF KeyInv, RowInv
  <2> QED  BY <1>0, <1>1, <2>3, <2>4, <2>5 DEF Lasts
<1>3. ASSUME NEW k \in Kids
      PROVE  LET i == [k |-> k, exp |-> e, late |-> late] IN i.k = k /\ i.exp = e /\ i.late = late
  OBVIOUS
<1>4. \A i \in signed' : i \in signed \/ \E k \in Kids : cache[c].rows[k] = "active" /\ i = [k |-> k, exp |-> e, late |-> late]
  BY DEF SignWith
<1> HIDE DEF e, late
<1>5. ASSUME NEW i \in signed'
      PROVE  /\ i.k \in Kids /\ i.exp \in Nat /\ i.exp <= clock + TokenTTL
             /\ GraceCovers => i.late \/ Lasts(skeys, i.k, i.exp)
  <2>1. CASE i \in signed  BY <2>1 DEF KeyInv, SignedInv
  <2>2. CASE \E k \in Kids : cache[c].rows[k] = "active" /\ i = [k |-> k, exp |-> e, late |-> late]
    <3>1. PICK k \in Kids : cache[c].rows[k] = "active" /\ i = [k |-> k, exp |-> e, late |-> late]  BY <2>2
    <3>2. i.k = k /\ i.exp = e /\ i.late = late  BY <3>1
    <3>3. e <= clock + TokenTTL  BY <1>1 DEF e
    <3> QED  BY <1>1, <1>2, <3>1, <3>2, <3>3
  <2> QED  BY <1>4, <2>1, <2>2
<1> QED  BY <1>5 DEF SignedInv

\* A request goes on with new local variables, or with the old ones.
LEMMA SetFacts ==
    ASSUME FrameOK, NEW p \in Procs, NEW l, NEW v, Goto(p, l), Set(p, v)
    PROVE  /\ pc'[p] = l /\ loc'[p] = v
           /\ \A q \in Procs \ {p} : pc'[q] = pc[q] /\ loc'[q] = loc[q]
BY DEF FrameOK, Goto, Set

LEMMA GotoFacts ==
    ASSUME FrameOK, NEW p \in Procs, NEW l, Goto(p, l), UNCHANGED loc
    PROVE  /\ pc'[p] = l /\ loc'[p] = loc[p]
           /\ \A q \in Procs \ {p} : pc'[q] = pc[q] /\ loc'[q] = loc[q]
BY DEF FrameOK, Goto

KeyLabels == {"install", "sign", "keyInsert", "keyActivate"}

LEMMA LooseHold == \A p \in Procs : pc[p] \notin KeyLabels => KeyHold(p)
BY DEF KeyLabels, KeyHold

\* A step that leaves the caches and what is signed alone.
LEMMA KeyQuiet ==
    ASSUME KeyInv, KeyMove, TimePasses, UNCHANGED <<ops, cache, signed>>,
           \A q \in Procs : (pc'[q] = pc[q] /\ loc'[q] = loc[q]) \/ pc'[q] \notin KeyLabels \/ KeyHold(q)'
    PROVE  KeyInv'
<1>1. RowInv' /\ RingInv' /\ CacheInv' /\ SignedInv'  BY KeyKept
<1>2. \A q \in Procs : pc'[q] = pc[q] /\ loc'[q] = loc[q] => KeyHold(q)'  BY KeyKept
<1>3. \A q \in Procs : pc'[q] \notin KeyLabels => KeyHold(q)'  BY DEF KeyLabels, KeyHold
<1> QED  BY <1>1, <1>2, <1>3 DEF KeyInv

\* A step that empties a cache.
LEMMA KeyEmptied ==
    ASSUME KeyInv, KeyMove, TimePasses, UNCHANGED <<ops, signed>>, NEW c, cache' = Invalidated(c),
           \A q \in Procs : (pc'[q] = pc[q] /\ loc'[q] = loc[q]) \/ pc'[q] \notin KeyLabels
    PROVE  KeyInv'
<1>1. CacheInv'
  <2>1. DOMAIN cache' = Caches  BY DEF Invalidated, KeyInv, CacheInv
  <2>2. \A d \in Caches : cache'[d] = cache[d] \/ cache'[d] = EmptyCache  BY DEF Invalidated, KeyInv, CacheInv
  <2> QED  BY <2>1, <2>2, KeyKept
<1>2. RowInv' /\ RingInv' /\ SignedInv' /\ \A q \in Procs : pc'[q] = pc[q] /\ loc'[q] = loc[q] => KeyHold(q)'  BY KeyKept
<1>3. \A q \in Procs : pc'[q] \notin KeyLabels => KeyHold(q)'  BY DEF KeyLabels, KeyHold
<1> QED  BY <1>1, <1>2, <1>3 DEF KeyInv

LEMMA KeysStep ==
    ASSUME FrameOK, KeyInv, TimePasses, KeysNext, Moves(KeysAt), UNCHANGED others
    PROVE  KeyInv'
<1>0. RowInv /\ UNCHANGED ops /\ UNCHANGED clock  BY DEF KeyInv, others, tables
<1>1. ASSUME UNCHANGED frame  PROVE \A q \in Procs : pc'[q] = pc[q] /\ loc'[q] = loc[q]  BY <1>1 DEF frame
<1>2. ASSUME NEW p \in Procs, Finish(p)
      PROVE  \A q \in Procs : (pc'[q] = pc[q] /\ loc'[q] = loc[q]) \/ pc'[q] \notin KeyLabels
  BY <1>2, FinishFacts DEF KeyLabels
<1>3. ASSUME NEW s, NEW c, NEW k \in Kids, GenerateKey(s, c, k)  PROVE KeyInv'
  <2>1. KeyMove  BY <1>0, <1>3, InsertedKey DEF GenerateKey
  <2> QED  BY <1>0, <1>1, <1>3, <2>1, KeyEmptied DEF GenerateKey
<1>4. ASSUME NEW s, NEW c, NEW k \in Kids, ActivateKey(s, c, k)  PROVE KeyInv'
  <2>1. KeyMove  BY <1>0, <1>4, PromotedKey DEF ActivateKey
  <2> QED  BY <1>0, <1>1, <1>4, <2>1, KeyEmptied DEF ActivateKey
<1>5. ASSUME NEW k \in Kids, Bootstrap(k)  PROVE KeyInv'
  <2>1. KeyMove  BY <1>0, <1>5, InsertedKey DEF Bootstrap
  <2> QED  BY <1>0, <1>1, <1>5, <2>1, KeyQuiet DEF Bootstrap
<1>6. ASSUME Reconcile  PROVE KeyInv'
  <2>1. KeyMove  BY <1>0, <1>6, ReconciledKeys DEF Reconcile
  <2> QED  BY <1>0, <1>1, <1>6, <2>1, KeyQuiet DEF Reconcile
<1>7. ASSUME NEW c \in Caches, SignCached(c)  PROVE KeyInv'
  <2>1. UNCHANGED <<frame, skeys, cache>> /\ ~Stale(c) /\ SignWith(c, FALSE)  BY <1>7 DEF SignCached
  <2>2. SignedInv'  BY <1>0, <2>1, SignedLasts DEF TimePasses
  <2>3. KeyMove  BY <1>0, <2>1, QuietKeys
  <2>4. RowInv' /\ RingInv' /\ CacheInv' /\ \A q \in Procs : KeyHold(q)'  BY <1>0, <1>1, <2>1, <2>3, KeyKept
  <2> QED  BY <2>2, <2>4 DEF KeyInv
<1>8. ASSUME NEW p \in Procs, NEW s, NEW c, NEW k, RetireKeyRead(p, s, c, k)  PROVE KeyInv'
  <2>1. UNCHANGED <<skeys, cache, signed>>  BY <1>8 DEF RetireKeyRead, keyVars
  <2>2. KeyMove  BY <1>0, <2>1, QuietKeys
  <2>3. \E v : Goto(p, "retire") /\ Set(p, v)  BY <1>8, Zenon DEF RetireKeyRead
  <2>4. \A q \in Procs : (pc'[q] = pc[q] /\ loc'[q] = loc[q]) \/ pc'[q] \notin KeyLabels  BY <2>3, SetFacts DEF KeyLabels
  <2> QED  BY <1>0, <2>1, <2>2, <2>4, KeyQuiet
<1>9. ASSUME NEW p \in Procs, NEW c \in Caches, RefreshRead(p, c)  PROVE KeyInv'
  <2> DEFINE rows == [k \in Kids |-> IF Published(k) THEN skeys[k].status ELSE "none"]
             v == [Blank EXCEPT !.op = "sign", !.x = c, !.age = clock, !.val = rows]
  <2>1. UNCHANGED <<skeys, cache, signed>>  BY <1>9 DEF RefreshRead, keyVars
  <2>2. KeyMove  BY <1>0, <2>1, QuietKeys
  <2>3. DOMAIN v = Fields /\ v.x = c /\ v.age = clock /\ v.val = rows  BY DEF Blank, Fields
  <2>4. Goto(p, "install") /\ Set(p, v)  BY <1>9 DEF RefreshRead
  <2>5. \A k \in Kids : rows[k] = "active" => Lasts(skeys, k, clock + Grace)  BY DEF Lasts
  <2> HIDE DEF v, rows
  <2>6. /\ pc'[p] = "install" /\ loc'[p] = v
        /\ \A q \in Procs \ {p} : pc'[q] = pc[q] /\ loc'[q] = loc[q]
    BY <2>4, SetFacts
  <2>7. KeyHold(p)'  BY <1>0, <2>1, <2>3, <2>5, <2>6 DEF KeyHold, TimePasses
  <2> QED  BY <1>0, <2>1, <2>2, <2>6, <2>7, KeyQuiet
<1>10. ASSUME NEW p \in Procs, RetireKeyWrite(p)  PROVE KeyInv'
  <2>1. Finish(p) /\ UNCHANGED signed  BY <1>10 DEF RetireKeyWrite
  <2>2. CASE UNCHANGED <<skeys, cache>>
    <3>1. KeyMove  BY <1>0, <2>2, QuietKeys
    <3> QED  BY <1>0, <1>2, <2>1, <2>2, <3>1, KeyQuiet
  <2>3. CASE /\ Retirable(loc[p].val) /\ cache' = Invalidated(loc[p].x)
             /\ skeys' = [skeys EXCEPT ![loc[p].val] = [status |-> "decommissioning", until |-> clock + Grace]]
    <3>1. KeyMove  BY <1>0, <2>3, RetiredKey
    <3> QED  BY <1>0, <1>2, <2>1, <2>3, <3>1, KeyEmptied
  <2> QED  BY <1>10, <2>2, <2>3 DEF RetireKeyWrite
<1>11. ASSUME NEW p \in Procs, RefreshInstall(p)  PROVE KeyInv'
  <2> DEFINE c == loc[p].x
             r == [rows |-> loc[p].val, at |-> clock, asof |-> loc[p].age]
  <2>1. UNCHANGED <<skeys, signed>> /\ Goto(p, "sign") /\ UNCHANGED loc /\ pc[p] = "install"  BY <1>11 DEF RefreshInstall
  <2>2. KeyMove  BY <1>0, <2>1, QuietKeys
  <2>3. /\ c \in Caches /\ loc[p].age \in Nat /\ loc[p].age <= clock
        /\ \A k \in Kids : loc[p].val[k] = "active" => Lasts(skeys, k, loc[p].age + Grace)
    BY <2>1 DEF KeyInv, KeyHold
  <2>4. r.rows = loc[p].val /\ r.at = clock /\ r.asof = loc[p].age  OBVIOUS
  <2>5. cache' = [cache EXCEPT ![c] = r]  BY <1>11 DEF RefreshInstall
  <2> HIDE DEF r
  <2>6. cache'[c] = r /\ DOMAIN cache' = Caches /\ \A d \in Caches \ {c} : cache'[d] = cache[d]
    BY <2>3, <2>5 DEF KeyInv, CacheInv
  <2>7. CacheInv'
    <3>1. /\ r.asof \in Nat /\ r.asof <= clock' /\ r.at \in Nat
          /\ \A k \in Kids : r.rows[k] = "active" => Lasts(skeys', k, r.asof + Grace)
      BY <1>0, <2>1, <2>3, <2>4 DEF TimePasses
    <3>2. ASSUME NEW d \in Caches \ {c}
          PROVE  /\ cache'[d].asof \in Nat /\ cache'[d].asof <= clock' /\ (cache'[d].at = None \/ cache'[d].at \in Nat)
                 /\ \A k \in Kids : cache'[d].rows[k] = "active" => Lasts(skeys', k, cache'[d].asof + Grace)
      BY <1>0, <2>1, <2>6 DEF KeyInv, CacheInv
    <3> QED  BY <2>6, <3>1, <3>2 DEF CacheInv
  <2>8. pc'[p] = "sign" /\ loc'[p] = loc[p] /\ \A q \in Procs \ {p} : pc'[q] = pc[q] /\ loc'[q] = loc[q]  BY <2>1, GotoFacts
  <2>9. KeyHold(p)'  BY <2>3, <2>8 DEF KeyHold
  <2>10. RowInv' /\ RingInv' /\ SignedInv' /\ \A q \in Procs \ {p} : KeyHold(q)'  BY <1>0, <2>1, <2>2, <2>8, KeyKept
  <2> QED  BY <2>7, <2>9, <2>10 DEF KeyInv
<1>12. ASSUME NEW p \in Procs, RefreshFails(p)  PROVE KeyInv'
  <2> DEFINE v == [loc[p] EXCEPT !.opt = TRUE]
  <2>1. UNCHANGED <<skeys, cache, signed>> /\ pc[p] = "install" /\ Goto(p, "sign") /\ Set(p, v)
    BY <1>12 DEF RefreshFails, keyVars
  <2>2. KeyMove  BY <1>0, <2>1, QuietKeys
  <2>3. DOMAIN loc[p] = Fields /\ loc[p].x \in Caches  BY <2>1 DEF KeyInv, KeyHold
  <2>4. v.x \in Caches  BY <2>3 DEF Fields
  <2> HIDE DEF v
  <2>5. pc'[p] = "sign" /\ loc'[p] = v /\ \A q \in Procs \ {p} : pc'[q] = pc[q] /\ loc'[q] = loc[q]  BY <2>1, SetFacts
  <2>6. KeyHold(p)'  BY <2>4, <2>5 DEF KeyHold
  <2> QED  BY <1>0, <2>1, <2>2, <2>5, <2>6, KeyQuiet
<1>13. ASSUME NEW p \in Procs, Sign(p)  PROVE KeyInv'
  <2> DEFINE c == loc[p].x
             slow == loc[p].opt \/ Stale(c)
  <2>1. UNCHANGED <<skeys, cache>> /\ pc[p] = "sign" /\ SignWith(c, slow) /\ Finish(p)  BY <1>13 DEF Sign
  <2>2. c \in Caches /\ (slow \/ ~Stale(c))  BY <2>1 DEF KeyInv, KeyHold
  <2> HIDE DEF c, slow
  <2>3. SignedInv'  BY <1>0, <2>1, <2>2, SignedLasts DEF TimePasses
  <2>4. KeyMove  BY <1>0, <2>1, QuietKeys
  <2>5. RowInv' /\ RingInv' /\ CacheInv' /\ \A q \in Procs : pc'[q] = pc[q] /\ loc'[q] = loc[q] => KeyHold(q)'
    BY <1>0, <2>1, <2>4, KeyKept
  <2>6. \A q \in Procs : pc'[q] \notin KeyLabels => KeyHold(q)'  BY DEF KeyLabels, KeyHold
  <2> QED  BY <1>2, <2>1, <2>3, <2>5, <2>6 DEF KeyInv
<1> QED  BY <1>3, <1>4, <1>5, <1>6, <1>7, <1>8, <1>9, <1>10, <1>11, <1>12, <1>13, Zenon DEF KeysNext

LEMMA KeyCommandStep ==
    ASSUME FrameOK, KeyInv, TimePasses, NEW p \in Procs, KeyCommand(p)
    PROVE  KeyInv'
<1>0. RowInv  BY DEF KeyInv
<1>1. UNCHANGED <<ops, clock, cache, signed>>
  BY Zenon DEF KeyCommand, KeyGenerate, KeyInsert, KeyRetire, KeyActivate, KeyRetired, others, tables, keyVars
<1>2. ASSUME Finish(p)
      PROVE  \A q \in Procs : (pc'[q] = pc[q] /\ loc'[q] = loc[q]) \/ pc'[q] \notin KeyLabels
  BY <1>2, FinishFacts DEF KeyLabels
<1>3. ASSUME NEW b, KeyGenerate(p, b)  PROVE KeyInv'
  <2> DEFINE v == [Blank EXCEPT !.op = "clikeys", !.opt = b \/ Active = {}]
  <2>1. UNCHANGED skeys /\ Goto(p, "keyInsert") /\ Set(p, v)  BY <1>3 DEF KeyGenerate, keyVars
  <2>2. DOMAIN v = Fields  BY DEF Blank, Fields
  <2> HIDE DEF v
  <2>3. pc'[p] = "keyInsert" /\ loc'[p] = v /\ \A q \in Procs \ {p} : pc'[q] = pc[q] /\ loc'[q] = loc[q]  BY <2>1, SetFacts
  <2>4. KeyHold(p)'  BY <2>2, <2>3 DEF KeyHold
  <2>5. KeyMove  BY <1>0, <2>1, QuietKeys
  <2> QED  BY <1>1, <2>3, <2>4, <2>5, KeyQuiet
<1>4. ASSUME NEW k \in Kids, KeyInsert(p, k)  PROVE KeyInv'
  <2> DEFINE v == [loc[p] EXCEPT !.val = k]
  <2>1. KeyMove  BY <1>0, <1>4, InsertedKey DEF KeyInsert
  <2>2. CASE Finish(p)  BY <1>1, <1>2, <2>1, <2>2, KeyQuiet
  <2>3. CASE Goto(p, "keyActivate") /\ Set(p, v)
    <3>1. DOMAIN loc[p] = Fields  BY <1>4 DEF KeyInsert, KeyInv, KeyHold
    <3>2. v.val = k  BY <3>1 DEF Fields
    <3> HIDE DEF v
    <3>3. pc'[p] = "keyActivate" /\ loc'[p] = v /\ \A q \in Procs \ {p} : pc'[q] = pc[q] /\ loc'[q] = loc[q]
      BY <2>3, SetFacts
    <3>4. KeyHold(p)'  BY <3>2, <3>3 DEF KeyHold
    <3> QED  BY <1>1, <2>1, <3>3, <3>4, KeyQuiet
  <2> QED  BY <1>4, <2>2, <2>3 DEF KeyInsert
<1>5. ASSUME KeyActivate(p)  PROVE KeyInv'
  <2>1. Finish(p) /\ loc[p].val \in Kids  BY <1>5 DEF KeyActivate, KeyInv, KeyHold
  <2>2. KeyMove  BY <1>0, <1>5, <2>1, PromotedKey, QuietKeys DEF KeyActivate
  <2> QED  BY <1>1, <1>2, <2>1, <2>2, KeyQuiet
<1>6. ASSUME NEW k, KeyRetire(p, k)  PROVE KeyInv'
  <2>1. UNCHANGED skeys /\ \E v : Goto(p, "keyRetire") /\ Set(p, v)  BY <1>6, Zenon DEF KeyRetire, keyVars
  <2>2. \A q \in Procs : (pc'[q] = pc[q] /\ loc'[q] = loc[q]) \/ pc'[q] \notin KeyLabels  BY <2>1, SetFacts DEF KeyLabels
  <2>3. KeyMove  BY <1>0, <2>1, QuietKeys
  <2> QED  BY <1>1, <2>2, <2>3, KeyQuiet
<1>7. ASSUME KeyRetired(p)  PROVE KeyInv'
  <2>1. Finish(p)  BY <1>7 DEF KeyRetired
  <2>2. KeyMove  BY <1>0, <1>7, RetiredKey, QuietKeys DEF KeyRetired
  <2> QED  BY <1>1, <1>2, <2>1, <2>2, KeyQuiet
<1> QED  BY <1>3, <1>4, <1>5, <1>6, <1>7, Zenon DEF KeyCommand

LEMMA KeyStep ==
    ASSUME FrameInv, NameInv, KeyInv, [Next]_vars
    PROVE  KeyInv'
<1>0. FrameOK /\ RowInv /\ clock \in Nat  BY DEF FrameInv, KeyInv, NameInv, NameOK
<1>1. ASSUME TimePasses, UNCHANGED <<ops, keyVars>>,
             \A q \in Procs : (pc'[q] = pc[q] /\ loc'[q] = loc[q]) \/ pc'[q] \notin KeyLabels
      PROVE  KeyInv'
  <2>1. KeyMove  BY <1>0, <1>1, QuietKeys DEF keyVars
  <2> QED  BY <1>1, <2>1, KeyQuiet DEF keyVars
<1>2. CASE UNCHANGED vars
  <2>1. UNCHANGED <<clock, ops, pc, loc, keyVars>>  BY <1>2, Zenon DEF vars, directory, tables, frame
  <2>2. TimePasses  BY <1>0, <2>1 DEF TimePasses
  <2> QED  BY <1>1, <2>1, <2>2
<1>3. CASE Next
  <2>1. ComponentStep  BY <1>0, <1>3, StepSplit
  <2>2. TimePasses  BY <1>0, <2>1, PassesClock DEF TimePasses
  <2>3. ASSUME NEW L, Moves(L), L \cap KeyLabels = {}
        PROVE  \A q \in Procs : (pc'[q] = pc[q] /\ loc'[q] = loc[q]) \/ pc'[q] \notin KeyLabels
    BY <2>3 DEF Moves
  <2>4. /\ PolicyAt \cap KeyLabels = {} /\ AuthorizeAt \cap KeyLabels = {} /\ SamlAt \cap KeyLabels = {}
        /\ ForwardAuthAt \cap KeyLabels = {} /\ CliAt \cap KeyLabels = {}
    BY DEF PolicyAt, AuthorizeAt, SamlAt, ForwardAuthAt, CliAt, CommandsAt, KeyLabels
  <2>5. ASSUME NEW O, Begun(O)
        PROVE  \A q \in Procs : (pc'[q] = pc[q] /\ loc'[q] = loc[q]) \/ pc'[q] \notin KeyLabels
    BY <1>0, <2>5, BeginFacts DEF Begun, KeyLabels
  <2>6. ASSUME NEW p \in Procs, Finish(p)
        PROVE  \A q \in Procs : (pc'[q] = pc[q] /\ loc'[q] = loc[q]) \/ pc'[q] \notin KeyLabels
    BY <1>0, <2>6, FinishFacts DEF KeyLabels
  <2>7. ASSUME PolicyRest, Moves(PolicyAt), UNCHANGED <<tables, strayed>>, UNCHANGED policyRest  PROVE KeyInv'
    BY <1>1, <2>2, <2>3, <2>4, <2>7 DEF policyRest, tables
  <2>8. ASSUME NEW p \in Procs, EvalManual(p), UNCHANGED policyRest  PROVE KeyInv'
    <3>1. UNCHANGED <<ops, keyVars>>  BY <2>8, Zenon DEF EvalManual, policyRest, tables
    <3>2. \A q \in Procs : (pc'[q] = pc[q] /\ loc'[q] = loc[q]) \/ pc'[q] \notin KeyLabels
      BY <2>8, EvalManualFacts DEF Decisions, KeyLabels
    <3> QED  BY <1>1, <2>2, <3>1, <3>2
  <2>9. ASSUME NEW p \in Procs, ReplaceGroupsCommit(p), UNCHANGED policyRest  PROVE KeyInv'
    <3>1. UNCHANGED <<ops, keyVars>> /\ Finish(p)  BY <2>9, Zenon DEF ReplaceGroupsCommit, policyRest, tables
    <3> QED  BY <1>1, <2>2, <2>6, <3>1
  <2>10. ASSUME NEW p \in Procs, NEW s, NEW x, NEW G, ReplaceGroups(p, s, x, G), UNCHANGED policyRest  PROVE KeyInv'
    <3>1. UNCHANGED <<ops, keyVars>>  BY <2>10, Zenon DEF ReplaceGroups, policyRest, tables
    <3>2. \A q \in Procs : (pc'[q] = pc[q] /\ loc'[q] = loc[q]) \/ pc'[q] \notin KeyLabels
      BY <1>0, <2>10, ReplaceFacts DEF KeyLabels
    <3> QED  BY <1>1, <2>2, <3>1, <3>2
  <2>11. CASE AuthorizeNext /\ (Moves(AuthorizeAt) \/ Begun(AuthorizeOps)) /\ AuthorizeKept /\ UNCHANGED <<samlVars, faVars, keyVars>>
    BY <1>1, <2>2, <2>3, <2>4, <2>5, <2>11 DEF AuthorizeKept
  <2>12. CASE SamlNext /\ (Moves(SamlAt) \/ Begun(SamlOps)) /\ SamlKept /\ UNCHANGED <<faVars, keyVars>>
    BY <1>1, <2>2, <2>3, <2>4, <2>5, <2>12 DEF SamlKept
  <2>13. CASE ForwardAuthNext /\ (Moves(ForwardAuthAt) \/ Begun(ForwardAuthOps)) /\ ForwardAuthKept /\ UNCHANGED keyVars
    BY <1>1, <2>2, <2>3, <2>4, <2>5, <2>13 DEF ForwardAuthKept, tables
  <2>14. CASE KeysNext /\ Moves(KeysAt) /\ UNCHANGED others  BY <1>0, <2>2, <2>14, KeysStep
  <2>15. CASE CommandsKept /\ CliMoves
    BY <1>1, <2>2, <2>3, <2>4, <2>15 DEF CommandsKept, CliMoves, keyVars
  <2>16. CASE \E p \in Procs : KeyCommand(p)  BY <1>0, <2>2, <2>16, KeyCommandStep
  <2>17. CASE SurroundingsKept  BY <1>1, <2>2, <2>17 DEF SurroundingsKept, frame
  <2>18. ASSUME NEW p \in Procs, Ends(p) \/ Deletes(p)  PROVE KeyInv'
    <3>1. UNCHANGED <<ops, keyVars>> /\ Finish(p)  BY <2>18, Zenon DEF Ends, Deletes, RowDeleted, others, tables
    <3> QED  BY <1>1, <2>2, <2>6, <3>1
  <2> QED  BY <2>1, <2>7, <2>8, <2>9, <2>10, <2>11, <2>12, <2>13, <2>14, <2>15, <2>16, <2>17, <2>18, Zenon DEF ComponentStep
<1> QED  BY <1>2, <1>3

LEMMA KeyInit == Init => KeyInv
<1> SUFFICES ASSUME Init  PROVE KeyInv
  OBVIOUS
<1>1. DOMAIN NoKeyRow = {"status", "until"} /\ NoKeyRow.status = "none"  BY DEF NoKeyRow
<1> DEFINE v == [NoKeyRow EXCEPT !.status = "active"]
           first0 == CHOOSE j \in Kids : TRUE
<1>2. DOMAIN v = {"status", "until"} /\ v.status = "active"  BY <1>1
<1>3. skeys = [k \in Kids |-> IF "keyring" \in ops /\ k = first0 THEN v ELSE NoKeyRow]  BY DEF Init, SigningKeysInit
<1>4. first0 \in Kids  BY SigningKeysAssumption
<1> HIDE DEF v, first0
<1>5. RowInv /\ RingInv  BY <1>1, <1>2, <1>3, <1>4 DEF RowInv, RingInv
<1>6. EmptyCache.asof = 0 /\ EmptyCache.at = None /\ \A k \in Kids : EmptyCache.rows[k] = "none"  BY DEF EmptyCache
<1>7. clock = 1 /\ cache = [c \in Caches |-> EmptyCache] /\ signed = {} /\ \A p \in Procs : pc[p] = "idle"
  BY DEF Init, SigningKeysInit
<1>8. CacheInv  BY <1>6, <1>7 DEF CacheInv
<1>9. SignedInv /\ \A p \in Procs : KeyHold(p)  BY <1>7 DEF SignedInv, KeyHold
<1> QED  BY <1>5, <1>8, <1>9 DEF KeyInv

LEMMA KeysServed ==
    ASSUME KeyInv, clock \in Nat
    PROVE  KeysServe
<1>1. Cardinality(Active) <= 1
  <2>1. CASE Active = {}  BY <2>1, FS_EmptySet
  <2>2. CASE \E k : k \in Active
    <3>1. PICK k : k \in Active  BY <2>2
    <3>2. Active = {k}  BY <3>1 DEF Active, KeyInv, RingInv
    <3> QED  BY <3>2, FS_Singleton
  <2> QED  BY <2>1, <2>2
<1>2. "keyring" \in ops => Active # {}  BY DEF KeyInv, RingInv, Active
<1>3. ASSUME GraceCovers, NEW i \in signed, clock < i.exp, ~i.late  PROVE Published(i.k)
  <2>1. i.k \in Kids /\ i.exp \in Nat /\ Lasts(skeys, i.k, i.exp)  BY <1>3 DEF KeyInv, SignedInv
  <2>2. skeys[i.k].status = "retired" => skeys[i.k].until \in Nat /\ skeys[i.k].until <= clock  BY <2>1 DEF KeyInv, RowInv
  <2> QED  BY <1>3, <2>1, <2>2 DEF Lasts, Published
<1> QED  BY <1>1, <1>2, <1>3 DEF KeysServe

\* KeysServe for any number of keys, caches, processes and commands: what is promoted,
\* demoted and retired in whatever order, there is one active key, and a key outlives
\* all it signed, where the configured grace covers a cache and a lifetime, except for
\* what a refresh that failed or lagged made late.
THEOREM KeysAlwaysServe == Spec => []KeysServe
<1>1. Init => FrameInv /\ NameInv /\ KeyInv  BY FrameInit, NameInit, KeyInit
<1>2. FrameInv /\ NameInv /\ KeyInv /\ [Next]_vars => (FrameInv /\ NameInv /\ KeyInv)'  BY FrameStep, NameStep, KeyStep
<1>3. FrameInv /\ NameInv /\ KeyInv => KeysServe  BY KeysServed DEF NameInv, NameOK
<1> QED  BY <1>1, <1>2, <1>3, PTL DEF Spec

-----------------------------------------------------------------------------
(* Requests on their way to an assertion or a forward-auth session           *)

\* Before a request of a service provider is used up, where there is none, and after
\* consent was given to one that is.
Asking(p) == pc[p] \in {"ssoDecide", "ssoConsume"} \/ (pc[p] = "evManual" /\ loc[p].op = "sso")
Unasked(p) == pc[p] = "initDecide" \/ (pc[p] = "evManual" /\ loc[p].op = "ssoinit")
Resuming(p) == pc[p] \in {"resume", "resumed"} \/ (pc[p] = "evManual" /\ loc[p].op = "resume")

\* No request gets onto its way in this step, whatever it leaves.
AskKept(p) ==
    /\ Asking(p)' => Asking(p) /\ loc'[p].val = loc[p].val
    /\ Unasked(p)' => Unasked(p) /\ loc'[p].val = loc[p].val
GrantKept(p) == pc'[p] = "ssoGrant" => pc[p] = "ssoGrant" /\ loc'[p].val = loc[p].val
ResumeKept(p) == Resuming(p)' => Resuming(p) /\ loc'[p].val = loc[p].val /\ loc'[p].n = loc[p].n
CallbackKept(p) == pc'[p] = "callback" => pc[p] = "callback" /\ loc'[p].g = loc[p].g
Kept(p) == AskKept(p) /\ GrantKept(p) /\ ResumeKept(p) /\ CallbackKept(p)

Ways == {"evManual", "ssoDecide", "ssoConsume", "initDecide", "ssoGrant", "resume", "resumed", "callback"}

LEMMA SameKept ==
    ASSUME NEW p \in Procs, (pc'[p] = pc[p] /\ loc'[p] = loc[p]) \/ pc'[p] \notin Ways
    PROVE  Kept(p)
BY DEF Kept, AskKept, GrantKept, ResumeKept, CallbackKept, Asking, Unasked, Resuming, Ways

LEMMA MovesKept ==
    ASSUME NEW L, Moves(L), L \cap Ways = {}
    PROVE  \A p \in Procs : Kept(p)
<1>1. \A p \in Procs : (pc'[p] = pc[p] /\ loc'[p] = loc[p]) \/ pc'[p] \notin Ways  BY DEF Moves
<1> QED  BY <1>1, SameKept

LEMMA FinishKept ==
    ASSUME FrameOK, NEW p \in Procs, Finish(p)
    PROVE  \A q \in Procs : Kept(q)
<1>1. \A q \in Procs : (pc'[q] = pc[q] /\ loc'[q] = loc[q]) \/ pc'[q] \notin Ways  BY FinishFacts DEF Ways
<1> QED  BY <1>1, SameKept

LEMMA QuietKept ==
    ASSUME UNCHANGED <<pc, loc>>
    PROVE  \A q \in Procs : Kept(q)
BY SameKept

LEMMA EvalKept ==
    ASSUME FrameInv, NEW p \in Procs, EvalManual(p)
    PROVE  \A q \in Procs : Kept(q)
<1>1. \A q \in Procs \ {p} : Kept(q)  BY EvalManualFacts, SameKept
<1>2. pc[p] = "evManual" /\ pc'[p] = Decision(loc[p].op) /\ \A f \in Fields \ {"ev"} : loc'[p][f] = loc[p][f]  BY EvalManualFacts
<1>3. loc'[p].val = loc[p].val /\ loc'[p].n = loc[p].n /\ loc'[p].g = loc[p].g  BY <1>2 DEF Fields
<1>4. loc[p].op \in Serving  BY <1>2 DEF FrameInv, EvalInv
<1>5. /\ pc'[p] \notin {"evManual", "ssoConsume", "ssoGrant", "resumed", "callback"}
      /\ pc'[p] = "ssoDecide" => loc[p].op = "sso"
      /\ pc'[p] = "initDecide" => loc[p].op = "ssoinit"
      /\ pc'[p] = "resume" => loc[p].op = "resume"
  BY <1>2, <1>4 DEF Serving, Decision
<1>6. Kept(p)  BY <1>2, <1>3, <1>5 DEF Kept, AskKept, GrantKept, ResumeKept, CallbackKept, Asking, Unasked, Resuming
<1> QED  BY <1>1, <1>6

LEMMA BegunKept ==
    ASSUME FrameOK, NEW O, O \cap SamlOps = {}, Begun(O)
    PROVE  \A q \in Procs : Kept(q)
<1>1. PICK p \in Procs : \E x, a, l : Begin(p, x, a, l) /\ l.op \in O  BY DEF Begun
<1>2. pc'[p] = "evManual" /\ loc'[p].op \in O /\ \A q \in Procs \ {p} : pc'[q] = pc[q] /\ loc'[q] = loc[q]  BY <1>1, BeginFacts
<1>3. Kept(p)  BY <1>2 DEF SamlOps, Kept, AskKept, GrantKept, ResumeKept, CallbackKept, Asking, Unasked, Resuming
<1> QED  BY <1>2, <1>3, SameKept

\* The steps of forward auth, but for the callback.
LEMMA VerifyKept ==
    ASSUME FrameInv, ForwardAuthNext
    PROVE  (\A q \in Procs : Kept(q)) \/ \E p \in Procs, st, c \in Nonces : Callback(p, st, c)
<1> DEFINE L == ForwardAuthAt \ {"callback"}
<1>0. L = {"idle", "faDecide", "faRenew", "patDecide", "sent"}  BY DEF ForwardAuthAt
<1> HIDE DEF L
<1>1. ASSUME NEW p \in Procs, NEW x, NEW n, Verify(p, x, n)  PROVE \A q \in Procs : Kept(q)
  <2> DEFINE l == [Blank EXCEPT !.op = "fa", !.a = kv[n].val.a, !.x = x, !.n = n, !.val = kv[n].val]
  <2>1. Form(l, "fa", x, kv[n].val.a)  BY DEF Form, Blank, Fields
  <2>2. Idle(p, "verify") /\ Evaluate(p, x, kv[n].val.a, l)  BY <1>1, Zenon DEF Verify
  <2> HIDE DEF l
  <2>3. Begun(ForwardAuthOps)  BY <2>1, <2>2, Begins DEF Serving, ForwardAuthOps
  <2> QED  BY <2>3, BegunKept DEF FrameInv, ForwardAuthOps, SamlOps
<1>2. ASSUME NEW p \in Procs, NEW x, NEW t, VerifyPat(p, x, t)  PROVE \A q \in Procs : Kept(q)
  <2> DEFINE l == [Blank EXCEPT !.op = "pat", !.a = pats[t].a, !.x = x, !.val = t]
  <2>1. Form(l, "pat", x, pats[t].a)  BY DEF Form, Blank, Fields
  <2>2. Idle(p, "pat") /\ Evaluate(p, x, pats[t].a, l)  BY <1>2, Zenon DEF VerifyPat
  <2> HIDE DEF l
  <2>3. Begun(ForwardAuthOps)  BY <2>1, <2>2, Begins DEF Serving, ForwardAuthOps
  <2> QED  BY <2>3, BegunKept DEF FrameInv, ForwardAuthOps, SamlOps
<1>3. ASSUME NEW p \in Procs, VerifyDecide(p)  PROVE Step(p, L)
  <2>1. CASE kv[loc[p].n].exp - clock > FaTTL \div 4  BY <1>0, <1>3, <2>1, Zenon DEF VerifyDecide, Finish, Step
  <2>2. CASE ~(kv[loc[p].n].exp - clock > FaTTL \div 4)  BY <1>0, <1>3, <2>2, Zenon DEF VerifyDecide, Finish, Step
  <2> QED  BY <2>1, <2>2
<1>4. ASSUME NEW p \in Procs, VerifyRenews(p) \/ VerifyDenied(p) \/ VerifyPatDecide(p)  PROVE Step(p, L)
  BY <1>0, <1>4, Zenon DEF VerifyRenews, VerifyDenied, VerifyPatDecide, Finish, Step
<1>5. ASSUME NEW p \in Procs, Step(p, L)  PROVE \A q \in Procs : Kept(q)
  <2>1. Moves(L)  BY <1>5, StepMoves DEF FrameInv
  <2>2. L \cap Ways = {}  BY <1>0 DEF Ways
  <2> QED  BY <2>1, <2>2, MovesKept
<1>6. ASSUME NEW p \in Procs, CallbackMints(p)  PROVE \A q \in Procs : Kept(q)
  BY <1>6, FinishKept DEF CallbackMints, FrameInv
<1>7. ASSUME \/ \E s, t, access, A, b : CreateToken(s, t, access, A, b)
             \/ \E s, t : RevokeToken(s, t)
             \/ \E n : SignOut(n)
             \/ \E x : VerifyRedirects(x)
      PROVE  \A q \in Procs : Kept(q)
  <2>1. UNCHANGED <<pc, loc>>  BY <1>7, Zenon DEF CreateToken, RevokeToken, SignOut, VerifyRedirects, frame
  <2> QED  BY <2>1, QuietKept
<1> QED  BY <1>1, <1>2, <1>3, <1>4, <1>5, <1>6, <1>7, Zenon DEF ForwardAuthNext

-----------------------------------------------------------------------------
(* Entries and what they were turned into                                    *)

\* An entry is turned into something in the step that takes it away.
UsedMoves ==
    \/ UNCHANGED used
    \/ \E n : Found(kv, n, clock) /\ Use(n) /\ (n \in Nonces => kv'[n] = NoEntry)

LEMMA PopUsed ==
    ASSUME NameOK, NEW n, Found(kv, n, clock), kv' = Pop(n), Use(n)
    PROVE  UsedMoves
BY DEF NameOK, Pop, Del, UsedMoves

LEMMA AuthorizeUsed ==
    ASSUME NameOK, AuthorizeNext
    PROVE  UsedMoves
<1>1. ASSUME NEW p \in Procs, AuthorizeReauthed(p) \/ \E s, n, b : ConsentDecision(p, s, n, b)
      PROVE  UNCHANGED used \/ \E n : Found(kv, n, clock) /\ kv' = Pop(n) /\ Use(n)
  BY <1>1, Zenon DEF AuthorizeReauthed, ReauthOK, Has, ConsentDecision
<1>2. ASSUME NEW p \in Procs,
             \/ \E s, x, sc, prompt, age, m, ref : Authorize(p, s, x, sc, prompt, age, m, ref)
             \/ \E s, x, P : RequireIdentity(p, s, x, P)
             \/ AuthorizeDenied(p) \/ AuthorizeFresh(p) \/ ConsentApproved(p) \/ AuthorizeReauthFails(p)
             \/ AuthorizeAsks(p) \/ AuthorizeMints(p) \/ RequireIdentityDecide(p)
      PROVE  UNCHANGED used
  BY <1>2, Zenon DEF Authorize, RequireIdentity, AuthorizeDenied, AuthorizeFresh, ConsentApproved, AuthorizeReauthFails,
     AuthorizeAsks, AuthorizeMints, RequireIdentityDecide, authorizeVars, authorizeHistory
<1>3. ASSUME NEW s, NEW x, RevokeConsent(s, x) \/ \E P : RequireIdentityMismatch(s, x, P)  PROVE UNCHANGED used
  BY <1>3, Zenon DEF RevokeConsent, RequireIdentityMismatch, authorizeHistory
<1>4. ASSUME UNCHANGED used  PROVE UsedMoves  BY <1>4 DEF UsedMoves
<1> QED  BY <1>1, <1>2, <1>3, <1>4, PopUsed, Zenon DEF AuthorizeNext

LEMMA ForwardAuthUsed ==
    ASSUME NameInv, ForwardAuthNext
    PROVE  UsedMoves
<1>1. ASSUME NEW p \in Procs, NEW st, NEW c, Callback(p, st, c)  PROVE UsedMoves
  BY <1>1, PopUsed DEF Callback, Has, NameInv
<1>2. ASSUME NEW p \in Procs, CallbackMints(p)  PROVE UsedMoves
  <2> DEFINE c == loc[p].n
             v == [NoVal EXCEPT !.kind = "fa", !.a = kv[c].val.a, !.x = loc[p].x, !.ref = kv[c].val.ref]
  <2>1. UNCHANGED used \/ (Has(c, "code") /\ Use(c) /\ Stash(Pop(c), v, FaTTL))  BY <1>2, Zenon DEF CallbackMints
  <2> HIDE DEF c, v
  <2>2. ASSUME Has(c, "code"), Use(c), Stash(Pop(c), v, FaTTL)  PROVE UsedMoves
    <3>1. Found(kv, c, clock)  BY <2>2 DEF Has
    <3>2. ASSUME c \in Nonces  PROVE kv'[c] = NoEntry
      <4>1. c <= handed /\ c \in Int /\ handed \in Nat  BY <3>1, <3>2 DEF NameInv, NameOK, Nonces
      <4>2. c # handed + 1  BY <4>1
      <4> QED  BY <2>2, <3>2, <4>2 DEF Stash, SetEx, Pop, Del, NameInv, NameOK
    <3> QED  BY <2>2, <3>1, <3>2 DEF UsedMoves
  <2> QED  BY <2>1, <2>2 DEF UsedMoves
<1>3. ASSUME NEW p \in Procs, (\E x, n : Verify(p, x, n)) \/ (\E x, t : VerifyPat(p, x, t)) \/ VerifyDecide(p) \/ VerifyPatDecide(p)
             \/ VerifyRenews(p) \/ VerifyDenied(p)
      PROVE  UNCHANGED used
  BY <1>3, Zenon DEF Verify, VerifyPat, VerifyDecide, VerifyPatDecide, VerifyRenews, VerifyDenied, authorizeVars, authorizeHistory
<1>4. ASSUME (\E s, t, access, A, b : CreateToken(s, t, access, A, b)) \/ (\E s, t : RevokeToken(s, t)) \/ (\E n : SignOut(n))
             \/ \E x : VerifyRedirects(x)
      PROVE  UNCHANGED used
  BY <1>4, Zenon DEF CreateToken, RevokeToken, SignOut, VerifyRedirects, authorizeVars, authorizeHistory
<1>5. ASSUME UNCHANGED used  PROVE UsedMoves  BY <1>5 DEF UsedMoves
<1> QED  BY <1>1, <1>2, <1>3, <1>4, <1>5, Zenon DEF ForwardAuthNext

\* A name whose entry is gone; it stays gone.
Gone(n) == n <= handed /\ ~Found(kv, n, clock)

\* What was turned into something is gone, once and for all.
UsedOK ==
    /\ DOMAIN used = Nonces
    /\ \A n \in Nonces : used[n] \in {0, 1} /\ (used[n] = 1 => Gone(n))

\* A forward-auth session names a state that a callback used up, and so does the callback.
FaOK == \A n \in Nonces : Has(n, "fa") => LET st == kv[n].val.ref IN st # None => st \in Nonces /\ used[st] = 1
CallbackOK == \A p \in Procs : pc[p] = "callback" => loc[p].g \in Nonces /\ used[loc[p].g] = 1

\* Who resumes has popped a ticket of his own that was turned into nothing yet.
Popped(p) == loc[p].n \in Nonces /\ Gone(loc[p].n) /\ used[loc[p].n] = 0
ResumeOK ==
    /\ \A p \in Procs : Resuming(p) => Popped(p)
    /\ \A p, q \in Procs : Resuming(p) /\ Resuming(q) /\ loc[p].n = loc[q].n => p = q

UsedInv == UsedOK /\ FaOK /\ CallbackOK /\ ResumeOK

StepOK == FrameInv /\ NameInv /\ [Next]_vars

\* The names after a step.
LEMMA GoneStays ==
    ASSUME StepOK
    PROVE  /\ \A n \in Nonces : Gone(n) => Gone(n)'
           /\ clock \in Nat /\ clock' \in Nat /\ clock <= clock' /\ handed \in Nat /\ handed' \in Nat
           /\ \A n \in Nonces : n \in Int /\ kv[n].exp \in Nat /\ kv'[n].exp \in Nat
<1>1. NameInv' /\ \A n \in Nonces : n <= handed /\ ~Found(kv, n, clock) => n <= handed' /\ ~Found(kv', n, clock')
  BY NameStep DEF StepOK
<1>2. clock <= clock' /\ clock \in Nat
  <2>1. CASE Next  BY <2>1, StepSplit, PassesClock DEF StepOK, FrameInv, NameInv, NameOK
  <2>2. CASE UNCHANGED vars
    <3>1. clock' = clock  BY <2>2 DEF vars, directory, tables
    <3> QED  BY <3>1 DEF StepOK, NameInv, NameOK
  <2> QED  BY <2>1, <2>2 DEF StepOK
<1> QED  BY <1>1, <1>2 DEF StepOK, NameInv, NameOK, Gone, Nonces

\* Entries of other kinds than those stored were there before.
LEMMA HasKept ==
    ASSUME StepOK, NEW K, KvMoves(K), NEW kind, kind \notin K, NEW n \in Nonces, Has(n, kind)'
    PROVE  Has(n, kind) /\ kv'[n].val = kv[n].val
<1>1. clock \in Nat /\ clock' \in Nat /\ clock <= clock' /\ kv[n].exp \in Nat  BY GoneStays
<1>2. n # None /\ Found(kv', n, clock') /\ kv'[n].val.kind = kind  BY DEF Has
<1>3. kv'[n] # NoEntry  BY <1>1, <1>2 DEF Found, NoEntry
<1>4. CASE kv'[n] = kv[n]  BY <1>1, <1>2, <1>4 DEF Has, Found
<1>5. CASE Found(kv, n, clock) /\ kv'[n].val = kv[n].val  BY <1>2, <1>5 DEF Has
<1> QED  BY <1>2, <1>3, <1>4, <1>5 DEF KvMoves

LEMMA UsedStep ==
    ASSUME StepOK, UsedOK, UsedMoves
    PROVE  /\ UsedOK'
           /\ \A n \in Nonces : used[n] = 1 => used'[n] = 1
           /\ \A n \in Nonces : Gone(n) /\ used[n] = 0 => used'[n] = 0
<1>1. CASE UNCHANGED used  BY <1>1, GoneStays DEF UsedOK
<1>2. ASSUME NEW m, Found(kv, m, clock), Use(m), m \in Nonces => kv'[m] = NoEntry
      PROVE  /\ UsedOK'
             /\ \A n \in Nonces : used[n] = 1 => used'[n] = 1
             /\ \A n \in Nonces : Gone(n) /\ used[n] = 0 => used'[n] = 0
  <2>1. DOMAIN used' = Nonces /\ \A n \in Nonces : used'[n] = IF n = m THEN used[n] + 1 ELSE used[n]
    BY <1>2 DEF Use, UsedOK
  <2>2. m \in Nonces => ~Gone(m) /\ Gone(m)'
    <3>1. NoEntry.exp = 0  BY DEF NoEntry
    <3>2. m \in Nonces => m <= handed  BY <1>2 DEF StepOK, NameInv
    <3>3. handed <= handed'
      <4>1. CASE Next  BY <4>1, StepSplit, ComponentKv DEF StepOK, FrameInv, NameInv, NameOK, KvMoves
      <4>2. CASE UNCHANGED vars  BY <4>2, GoneStays DEF vars, authorizeVars
      <4> QED  BY <4>1, <4>2 DEF StepOK
    <3>4. m \in Nonces => m <= handed'  BY <3>2, <3>3, GoneStays
    <3>5. clock' \in Nat  BY GoneStays
    <3> QED  BY <1>2, <3>1, <3>4, <3>5 DEF Gone, Found
  <2>3. m \in Nonces => used[m] = 0  BY <2>2 DEF UsedOK
  <2>4. ASSUME NEW n \in Nonces
        PROVE  /\ used'[n] \in {0, 1} /\ (used'[n] = 1 => Gone(n)')
               /\ used[n] = 1 => used'[n] = 1
               /\ Gone(n) /\ used[n] = 0 => used'[n] = 0
    <3>1. CASE n = m  BY <2>1, <2>2, <2>3, <3>1
    <3>2. CASE n # m  BY <2>1, <3>2, GoneStays DEF UsedOK
    <3> QED  BY <3>1, <3>2
  <2> QED  BY <2>1, <2>4 DEF UsedOK
<1> QED  BY <1>1, <1>2 DEF UsedMoves

\* What the sessions, the callbacks and the requests that resume name, after a step.
LEMMA FaKept ==
    ASSUME StepOK, FaOK, \A n \in Nonces : used[n] = 1 => used'[n] = 1, NEW K, KvMoves(K), "fa" \notin K
    PROVE  FaOK'
<1> SUFFICES ASSUME NEW n \in Nonces, Has(n, "fa")', kv'[n].val.ref # None
             PROVE  kv'[n].val.ref \in Nonces /\ used'[kv'[n].val.ref] = 1
  BY DEF FaOK
<1>1. Has(n, "fa") /\ kv'[n].val = kv[n].val  BY HasKept
<1> QED  BY <1>1 DEF FaOK

LEMMA CallbacksKept ==
    ASSUME StepOK, UsedInv, UsedMoves, NEW q \in Procs, CallbackKept(q), pc'[q] = "callback"
    PROVE  loc'[q].g \in Nonces /\ used'[loc'[q].g] = 1
BY UsedStep DEF CallbackKept, UsedInv, CallbackOK

LEMMA PoppedKept ==
    ASSUME StepOK, UsedInv, UsedMoves, NEW q \in Procs, ResumeKept(q), Resuming(q)'
    PROVE  Popped(q)' /\ Resuming(q) /\ loc'[q].n = loc[q].n
<1>1. Popped(q) /\ loc'[q].n = loc[q].n /\ Resuming(q)  BY DEF ResumeKept, UsedInv, ResumeOK
<1> DEFINE n == loc[q].n
<1>2. n \in Nonces /\ used[n] = 0 /\ Gone(n)  BY <1>1 DEF Popped
<1>3. used'[n] = 0  BY <1>2, UsedStep DEF UsedInv
<1>4. n <= handed' /\ ~Found(kv', n, clock')  BY <1>2, GoneStays DEF Gone
<1>5. loc'[q].n = n  BY <1>1
<1> HIDE DEF n
<1> QED  BY <1>1, <1>2, <1>3, <1>4, <1>5 DEF Popped, Gone

LEMMA ResumesKept ==
    ASSUME StepOK, UsedInv, UsedMoves, \A q \in Procs : ResumeKept(q)
    PROVE  ResumeOK'
<1>1. \A q \in Procs : Resuming(q)' => Popped(q)' /\ Resuming(q) /\ loc'[q].n = loc[q].n  BY PoppedKept
<1>2. \A p, q \in Procs : Resuming(p) /\ Resuming(q) /\ loc[p].n = loc[q].n => p = q  BY DEF UsedInv, ResumeOK
<1>3. ASSUME NEW p \in Procs, NEW q \in Procs, Resuming(p)', Resuming(q)', loc'[p].n = loc'[q].n  PROVE p = q
  BY <1>1, <1>2, <1>3
<1> QED  BY <1>1, <1>3 DEF ResumeOK

\* A step after which no request and no session has a new name to spend.
LEMMA UsedKept ==
    ASSUME StepOK, UsedInv, UsedMoves, NEW K, KvMoves(K), "fa" \notin K, \A p \in Procs : ResumeKept(p) /\ CallbackKept(p)
    PROVE  UsedInv'
<1>1. UsedOK'  BY UsedStep DEF UsedInv
<1>2. FaOK'  BY UsedStep, FaKept DEF UsedInv
<1>3. CallbackOK'  BY CallbacksKept DEF CallbackOK
<1>4. ResumeOK'  BY ResumesKept
<1> QED  BY <1>1, <1>2, <1>3, <1>4 DEF UsedInv

\* The callback pops the state it names from then on ...
LEMMA CallbackSpends ==
    ASSUME StepOK, UsedInv, NEW p \in Procs, NEW st \in Nonces, NEW c, Callback(p, st, c)
    PROVE  UsedInv'
<1> DEFINE v == [Blank EXCEPT !.op = "callback", !.x = kv[st].val.x, !.g = st, !.n = c]
<1>1. Has(st, "fastate") /\ kv' = Pop(st) /\ Use(st) /\ UNCHANGED handed /\ Set(p, v) /\ Goto(p, "callback")
  BY Zenon DEF Callback
<1>2. v.g = st  BY DEF Blank
<1> HIDE DEF v
<1>3. NameOK /\ FrameOK  BY DEF StepOK, NameInv, FrameInv
<1>4. Found(kv, st, clock)  BY <1>1 DEF Has
<1>5. UsedMoves /\ KvMoves({})  BY <1>1, <1>3, <1>4, PopUsed, GoneKv
<1>6. pc'[p] = "callback" /\ loc'[p] = v /\ \A q \in Procs \ {p} : pc'[q] = pc[q] /\ loc'[q] = loc[q]
  BY <1>1, <1>3, SetFacts
<1>7. UsedOK'  BY <1>5, UsedStep DEF UsedInv
<1>8. used'[st] = 1
  <2>1. used[st] = 0  BY <1>4 DEF UsedInv, UsedOK, Gone
  <2> QED  BY <1>1, <2>1 DEF Use, UsedInv, UsedOK
<1>9. CallbackOK'
  <2>1. ASSUME NEW q \in Procs, pc'[q] = "callback"  PROVE loc'[q].g \in Nonces /\ used'[loc'[q].g] = 1
    <3>1. CASE q = p  BY <1>2, <1>6, <1>8, <3>1
    <3>2. CASE q # p  BY <1>5, <1>6, <2>1, <3>2, SameKept, CallbacksKept DEF Kept
    <3> QED  BY <3>1, <3>2
  <2> QED  BY <2>1 DEF CallbackOK
<1>10. \A q \in Procs : ResumeKept(q)
  <2>1. \A q \in Procs \ {p} : ResumeKept(q)  BY <1>6, SameKept DEF Kept
  <2>2. ResumeKept(p)  BY <1>6 DEF ResumeKept, Resuming
  <2> QED  BY <2>1, <2>2
<1>11. FaOK'  BY <1>5, UsedStep, FaKept DEF UsedInv
<1>12. ResumeOK'  BY <1>5, <1>10, ResumesKept
<1> QED  BY <1>7, <1>9, <1>11, <1>12 DEF UsedInv

\* ... and hands it to the session, if the code is of its challenge.
LEMMA MintSpends ==
    ASSUME StepOK, UsedInv, UsedMoves, NEW p \in Procs, CallbackMints(p), KvMoves({"fa"})
    PROVE  UsedInv'
<1>1. NameOK /\ FrameOK  BY DEF StepOK, NameInv, FrameInv
<1>2. pc[p] = "callback" /\ Finish(p)  BY Zenon DEF CallbackMints
<1>3. \A q \in Procs : ResumeKept(q) /\ CallbackKept(q)  BY <1>1, <1>2, FinishKept DEF Kept
<1>4. loc[p].g \in Nonces /\ used[loc[p].g] = 1  BY <1>2 DEF UsedInv, CallbackOK
<1> DEFINE c == loc[p].n
           v == [NoVal EXCEPT !.kind = "fa", !.a = kv[c].val.a, !.x = loc[p].x, !.ref = kv[c].val.ref]
<1>5. \/ UNCHANGED <<kv, handed>>
      \/ kv' = Pop(c) /\ UNCHANGED handed
      \/ Stash(Pop(c), v, FaTTL) /\ CodeFits(kv[c].val, loc[p].x, loc[p].g)
  BY Zenon DEF CallbackMints
<1>6. CASE UNCHANGED <<kv, handed>>  BY <1>1, <1>3, <1>6, QuietKv, UsedKept DEF kvVars
<1>7. CASE kv' = Pop(c) /\ UNCHANGED handed  BY <1>1, <1>3, <1>7, GoneKv, UsedKept
<1>8. CASE Stash(Pop(c), v, FaTTL) /\ CodeFits(kv[c].val, loc[p].x, loc[p].g)
  <2>1. v.ref = loc[p].g  BY <1>8 DEF CodeFits, NoVal
  <2> DEFINE e == Entry(v, clock + FaTTL)
  <2>2. kv' = [Pop(c) EXCEPT ![handed + 1] = e]  BY <1>8 DEF Stash, SetEx
  <2>3. e.val = v  BY DEF Entry
  <2> HIDE DEF e, v
  <2>4. UsedOK' /\ \A n \in Nonces : used[n] = 1 => used'[n] = 1  BY UsedStep DEF UsedInv
  <2>5. \A n \in Nonces : kv'[n] = e \/ kv'[n] = kv[n] \/ kv'[n] = NoEntry
    BY <1>1, <2>2 DEF NameOK, Pop, Del
  <2>6. FaOK'
    <3> SUFFICES ASSUME NEW n \in Nonces, Has(n, "fa")', kv'[n].val.ref # None
                 PROVE  kv'[n].val.ref \in Nonces /\ used'[kv'[n].val.ref] = 1
      BY DEF FaOK
    <3>1. CASE kv'[n] = e  BY <1>4, <2>1, <2>3, <2>4, <3>1
    <3>2. CASE kv'[n] = NoEntry
      <4>1. kv'[n].exp = 0 /\ clock' \in Nat  BY <3>2, GoneStays DEF NoEntry
      <4> QED  BY <4>1 DEF Has, Found
    <3>3. CASE kv'[n] = kv[n]
      <4>1. clock \in Nat /\ clock' \in Nat /\ clock <= clock' /\ kv[n].exp \in Nat  BY GoneStays
      <4>2. Has(n, "fa")  BY <3>3, <4>1 DEF Has, Found
      <4> QED  BY <2>4, <3>3, <4>2 DEF UsedInv, FaOK
    <3> QED  BY <2>5, <3>1, <3>2, <3>3
  <2>7. CallbackOK'  BY <1>3, CallbacksKept DEF CallbackOK
  <2>8. ResumeOK'  BY <1>3, ResumesKept
  <2> QED  BY <2>4, <2>6, <2>7, <2>8 DEF UsedInv
<1> QED  BY <1>5, <1>6, <1>7, <1>8

\* Resuming begins with the ticket gone.
LEMMA ResumeFacts ==
    ASSUME FrameOK, NEW p \in Procs, NEW s, NEW n, ConsentResume(p, s, n)
    PROVE  /\ Has(n, "samlticket") /\ kv' = Pop(n) /\ UNCHANGED <<handed, used, reqs, answers, consumption>>
           /\ \/ UNCHANGED <<pc, loc>>
              \/ /\ pc'[p] = "evManual" /\ loc'[p].op = "resume" /\ loc'[p].n = n /\ loc'[p].val = kv[n].val.ref
                 /\ \A q \in Procs \ {p} : pc'[q] = pc[q] /\ loc'[q] = loc[q]
<1> DEFINE t == kv[n].val
           l == [Blank EXCEPT !.op = "resume", !.s = s, !.a = t.a, !.x = t.x, !.val = t.ref, !.n = n]
<1>1. Form(l, "resume", t.x, t.a) /\ l.n = n /\ l.val = t.ref  BY DEF Form, Blank, Fields
<1>2. pc[p] = "idle" /\ (Evaluate(p, t.x, t.a, l) \/ UNCHANGED <<pc, loc>>)
  BY Zenon DEF ConsentResume, frame, Idle
<1>3. Has(n, "samlticket") /\ kv' = Pop(n) /\ UNCHANGED <<handed, used, reqs, answers, consumption>>
  BY Zenon DEF ConsentResume, authorizeHistory, samlVars
<1>4. t.ref = kv[n].val.ref  OBVIOUS
<1> HIDE DEF l, t
<1>5. CASE Evaluate(p, t.x, t.a, l)
  <2>1. Begin(p, t.x, t.a, l)  BY <1>1, <1>2, <1>5 DEF Begin, Serving
  <2>2. /\ pc'[p] = "evManual" /\ loc'[p].op = l.op /\ \A f \in Fields \ {"ev"} : loc'[p][f] = l[f]
        /\ \A q \in Procs \ {p} : pc'[q] = pc[q] /\ loc'[q] = loc[q]
    BY <2>1, BeginFacts
  <2>3. loc'[p].n = l.n /\ loc'[p].val = l.val  BY <2>2 DEF Fields
  <2> QED  BY <1>1, <1>3, <1>4, <2>2, <2>3 DEF Form
<1> QED  BY <1>2, <1>3, <1>5

LEMMA ResumeSpends ==
    ASSUME StepOK, UsedInv, NEW p \in Procs, NEW s, NEW n \in Nonces, ConsentResume(p, s, n)
    PROVE  UsedInv'
<1>1. FrameOK /\ NameOK  BY DEF StepOK, FrameInv, NameInv
<1>2. Has(n, "samlticket") /\ kv' = Pop(n) /\ UNCHANGED <<handed, used>>  BY <1>1, ResumeFacts
<1>3. UsedMoves /\ KvMoves({})  BY <1>1, <1>2, GoneKv DEF UsedMoves
<1>4. CASE UNCHANGED <<pc, loc>>  BY <1>3, <1>4, QuietKept, UsedKept DEF Kept
<1>5. CASE /\ pc'[p] = "evManual" /\ loc'[p].op = "resume" /\ loc'[p].n = n /\ loc'[p].val = kv[n].val.ref
           /\ \A q \in Procs \ {p} : pc'[q] = pc[q] /\ loc'[q] = loc[q]
  <2>1. ~Gone(n) /\ used[n] = 0 /\ used'[n] = 0  BY <1>2 DEF Has, Gone, UsedInv, UsedOK
  <2>2. n <= handed' /\ ~Found(kv', n, clock')
    <3>1. n <= handed  BY <1>2 DEF Has, StepOK, NameInv
    <3>2. kv'[n].exp = 0 /\ clock' \in Nat  BY <1>1, <1>2, GoneStays DEF Pop, Del, NameOK, NoEntry
    <3> QED  BY <1>2, <3>1, <3>2 DEF Found
  <2>3. Popped(p)'  BY <1>5, <2>1, <2>2 DEF Popped, Gone
  <2>4. \A q \in Procs \ {p} : Kept(q)  BY <1>5, SameKept
  <2>5. \A q \in Procs \ {p} : Resuming(q)' => Popped(q)' /\ Popped(q) /\ Resuming(q) /\ loc'[q].n = loc[q].n
    BY <1>3, <2>4, PoppedKept DEF Kept, UsedInv, ResumeOK
  <2>6. \A q \in Procs \ {p} : Resuming(q)' => loc'[q].n # n  BY <2>1, <2>5 DEF Popped
  <2>7. ASSUME NEW q \in Procs, NEW r \in Procs, Resuming(q)', Resuming(r)', loc'[q].n = loc'[r].n  PROVE q = r
    <3>1. CASE q = p \/ r = p  BY <1>5, <2>6, <2>7, <3>1
    <3>2. CASE q # p /\ r # p  BY <2>5, <2>7, <3>2 DEF UsedInv, ResumeOK
    <3> QED  BY <3>1, <3>2
  <2>8. ResumeOK'  BY <2>3, <2>5, <2>7 DEF ResumeOK
  <2>9. CallbackOK'
    <3>1. \A q \in Procs : CallbackKept(q)  BY <1>5, <2>4 DEF Kept, CallbackKept
    <3> QED  BY <1>3, <3>1, CallbacksKept DEF CallbackOK
  <2> QED  BY <1>3, <2>8, <2>9, UsedStep, FaKept DEF UsedInv
<1> QED  BY <1>1, <1>4, <1>5, ResumeFacts

\* The last step turns the ticket into an assertion, or into nothing.
LEMMA IssueSpends ==
    ASSUME StepOK, UsedInv, NEW p \in Procs, ResumeIssues(p)
    PROVE  UsedInv'
<1>1. FrameOK /\ NameOK  BY DEF StepOK, FrameInv, NameInv
<1> DEFINE n == loc[p].n
<1>2. pc[p] = "resumed" /\ Use(n) /\ UNCHANGED <<kv, handed>> /\ IssueAssertion(p, loc[p].s, loc[p].x, loc[p].val)
  BY Zenon DEF ResumeIssues
<1>3. n \in Nonces /\ Gone(n) /\ used[n] = 0  BY <1>2 DEF Resuming, UsedInv, ResumeOK, Popped
<1>4. (Goto(p, "sent") /\ UNCHANGED loc) \/ Finish(p)  BY <1>2, IssuedMoves
<1>5. pc'[p] \in {"sent", "idle"} /\ \A q \in Procs \ {p} : pc'[q] = pc[q] /\ loc'[q] = loc[q]
  BY <1>1, <1>4, GotoFacts, FinishFacts
<1>6. \A q \in Procs : Kept(q)  BY <1>5, SameKept DEF Ways
<1>7. \A q \in Procs \ {p} : Resuming(q)' => Resuming(q) /\ loc'[q].n = loc[q].n /\ loc[q].n # n
  BY <1>2, <1>6 DEF Kept, ResumeKept, UsedInv, ResumeOK, Resuming
<1>8. ~Resuming(p)'  BY <1>5 DEF Resuming
<1>9. DOMAIN used' = Nonces /\ used'[n] = 1 /\ \A m \in Nonces \ {n} : used'[m] = used[m]
  BY <1>2, <1>3 DEF Use, UsedInv, UsedOK
<1> HIDE DEF n
<1>10. \A m \in Nonces : used[m] = 1 => used'[m] = 1  BY <1>3, <1>9
<1>11. UsedOK'  BY <1>3, <1>9, GoneStays DEF UsedInv, UsedOK
<1>12. KvMoves({})  BY <1>1, <1>2, QuietKv DEF kvVars
<1>13. FaOK'  BY <1>10, <1>12, FaKept DEF UsedInv
<1>14. CallbackOK'  BY <1>6, <1>10 DEF Kept, CallbackKept, UsedInv, CallbackOK
<1>15. ASSUME NEW q \in Procs, Resuming(q)'  PROVE Popped(q)' /\ Resuming(q) /\ loc'[q].n = loc[q].n
  <2>1. q # p /\ Resuming(q) /\ loc'[q].n = loc[q].n /\ loc[q].n # n  BY <1>7, <1>8, <1>15
  <2> DEFINE m == loc[q].n
  <2>2. m \in Nonces /\ Gone(m) /\ used[m] = 0 /\ m # n  BY <2>1 DEF UsedInv, ResumeOK, Popped
  <2>3. used'[m] = 0  BY <1>9, <2>2
  <2>4. m <= handed' /\ ~Found(kv', m, clock')  BY <2>2, GoneStays DEF Gone
  <2>5. loc'[q].n = m  BY <2>1
  <2> HIDE DEF m
  <2> QED  BY <2>1, <2>2, <2>3, <2>4, <2>5 DEF Popped, Gone
<1>16. \A q, r \in Procs : Resuming(q) /\ Resuming(r) /\ loc[q].n = loc[r].n => q = r  BY DEF UsedInv, ResumeOK
<1>17. ASSUME NEW q \in Procs, NEW r \in Procs, Resuming(q)', Resuming(r)', loc'[q].n = loc'[r].n  PROVE q = r
  BY <1>15, <1>16, <1>17
<1> QED  BY <1>11, <1>13, <1>14, <1>15, <1>17 DEF UsedInv, ResumeOK

-----------------------------------------------------------------------------
(* Requests of service providers and their answers                           *)

\* Who may still answer request r: requests past its consumption, and consent tickets.
Claims(r) ==
    ({p \in Procs : (pc[p] = "ssoGrant" \/ Resuming(p)) /\ loc[p].val = r} \X {"request"})
    \cup ({n \in Nonces : Has(n, "samlticket") /\ kv[n].val.ref = r} \X {"ticket"})

\* Its freshness window outlasts the replay entry.
Excepted(r) == reqs[r].at = None \/ (first[r] # None /\ reqs[r].at >= first[r]) \/ r \in tardy

\* One answer, past or to come.
Single(r) ==
    /\ \A c, d \in Claims(r) : c = d
    /\ Claims(r) # {} => answers[r] = 0
    /\ answers[r] <= 1

RequestOK(r) ==
    /\ reqs[r].at \in Int \cup {None} /\ answers[r] \in Nat
    /\ first[r] = None => Claims(r) = {} /\ answers[r] = 0
    /\ first[r] # None => /\ first[r] \in Nat /\ seen[r].exp \in Nat /\ first[r] + AuthnRequestTTL <= seen[r].exp
                          /\ reqs[r].kind # "none"
    /\ Excepted(r) \/ Single(r)

\* Whoever is asked holds a request that was sent.
AskOK(p) ==
    /\ Asking(p) => loc[p].val \in Requests /\ reqs[loc[p].val].kind # "none"
    /\ Unasked(p) => loc[p].val \notin Requests

SamlOK == DOMAIN reqs = Requests /\ DOMAIN seen = Requests /\ DOMAIN first = Requests /\ DOMAIN answers = Requests

AnswerInv == SamlOK /\ (\A r \in Requests : RequestOK(r)) /\ \A p \in Procs : AskOK(p)

\* A claim stays, is made good, or passes to somebody else.
LEMMA RequestStep ==
    ASSUME NEW r \in Requests, RequestOK(r), reqs'[r] = reqs[r], seen'[r] = seen[r], first'[r] = first[r],
           r \in tardy' <=> r \in tardy,
           \/ Claims(r)' \subseteq Claims(r) /\ answers'[r] = answers[r]
           \/ \E c \in Claims(r) : Claims(r)' \subseteq Claims(r) \ {c} /\ answers'[r] = answers[r] + 1
           \/ \E c \in Claims(r) : \E d : Claims(r)' \subseteq (Claims(r) \ {c}) \cup {d} /\ answers'[r] = answers[r]
    PROVE  RequestOK(r)'
<1> DEFINE C == Claims(r)
           D == Claims(r)'
<1>1. CASE Excepted(r)
  <2>1. Excepted(r)'  BY <1>1 DEF Excepted
  <2>2. first[r] = None => D = {} /\ answers'[r] = 0  BY DEF RequestOK
  <2>3. answers'[r] \in Nat  BY DEF RequestOK
  <2> QED  BY <2>1, <2>2, <2>3 DEF RequestOK
<1>2. CASE Single(r)
  <2>1. (\A c, d \in C : c = d) /\ (C # {} => answers[r] = 0) /\ answers[r] <= 1 /\ answers[r] \in Nat
        /\ (first[r] = None => C = {} /\ answers[r] = 0)
    BY <1>2 DEF Single, RequestOK
  <2> HIDE DEF C, D
  <2>2. /\ \A c, d \in D : c = d
        /\ D # {} => answers'[r] = 0
        /\ answers'[r] <= 1 /\ answers'[r] \in Nat
        /\ first[r] = None => D = {} /\ answers'[r] = 0
    <3>1. CASE D \subseteq C /\ answers'[r] = answers[r]  BY <2>1, <3>1
    <3>2. ASSUME NEW c \in C, D \subseteq C \ {c} /\ answers'[r] = answers[r] + 1
          PROVE  D = {} /\ answers'[r] = 1 /\ first[r] # None
      BY <2>1, <3>2
    <3>3. ASSUME NEW c \in C, NEW d, D \subseteq (C \ {c}) \cup {d} /\ answers'[r] = answers[r]
          PROVE  D \subseteq {d} /\ answers'[r] = 0 /\ first[r] # None
      BY <2>1, <3>3
    <3>4. (D \subseteq C /\ answers'[r] = answers[r]) \/ (D = {} /\ answers'[r] = 1 /\ first[r] # None)
          \/ \E d : D \subseteq {d} /\ answers'[r] = 0 /\ first[r] # None
      BY <3>2, <3>3 DEF C, D
    <3> QED  BY <3>1, <3>4
  <2>3. Single(r)'  BY <2>2 DEF Single, D
  <2> QED  BY <2>2, <2>3 DEF RequestOK, D
<1> QED  BY <1>1, <1>2 DEF RequestOK

\* A request is consumed: for the first time, or again while it is fresh by its own word
\* and not remembered any more.
LEMMA RequestConsumed ==
    ASSUME SamlOK, clock \in Nat, NEW r \in Requests, RequestOK(r), reqs[r].kind # "none", reqs'[r] = reqs[r],
           Unseen(r), ConsumeRequest(r),
           \/ \E d : Claims(r)' \subseteq Claims(r) \cup {d} /\ answers'[r] = answers[r]
           \/ Claims(r)' \subseteq Claims(r) /\ answers'[r] = answers[r] + 1
    PROVE  RequestOK(r)'
<1>0. AuthnRequestTTL \in Nat /\ None \notin Int  BY SamlAssumption, DirectoryAssumption
<1>1. seen'[r].exp = clock + AuthnRequestTTL
  <2> DEFINE e == Entry(TRUE, clock + AuthnRequestTTL)
  <2>1. seen' = [seen EXCEPT ![r] = e]  BY DEF ConsumeRequest, SetEx
  <2>2. e.exp = clock + AuthnRequestTTL  BY DEF Entry
  <2> HIDE DEF e
  <2> QED  BY <2>1, <2>2 DEF SamlOK
<1>2. first'[r] = IF first[r] = None THEN clock ELSE first[r]  BY DEF ConsumeRequest, SamlOK
<1>3. answers'[r] \in Nat  BY DEF RequestOK
<1>4. first'[r] # None /\ first'[r] \in Nat /\ first'[r] + AuthnRequestTTL <= seen'[r].exp
  <2>1. CASE first[r] = None  BY <1>0, <1>1, <1>2, <2>1
  <2>2. CASE first[r] # None
    <3>1. first[r] \in Nat /\ seen[r].exp \in Nat /\ first[r] + AuthnRequestTTL <= seen[r].exp  BY <2>2 DEF RequestOK
    <3>2. seen[r].exp <= clock  BY <3>1 DEF Unseen, Found
    <3> QED  BY <1>0, <1>1, <1>2, <2>2, <3>1, <3>2
  <2> QED  BY <2>1, <2>2
<1>7. reqs'[r].at \in Int \cup {None} /\ reqs'[r].kind # "none" /\ seen'[r].exp \in Nat  BY <1>0, <1>1 DEF RequestOK
<1>5. CASE first[r] = None
  <2>1. Claims(r) = {} /\ answers[r] = 0  BY <1>5 DEF RequestOK
  <2> DEFINE D == Claims(r)'
  <2>2. (\E d : D \subseteq {d} /\ answers'[r] = 0) \/ (D = {} /\ answers'[r] = 1)  BY <2>1
  <2>3. Single(r)'
    <3> HIDE DEF D
    <3>1. (\A c, d \in D : c = d) /\ (D # {} => answers'[r] = 0) /\ answers'[r] <= 1  BY <2>2
    <3> QED  BY <3>1 DEF Single, D
  <2> QED  BY <1>3, <1>4, <1>7, <2>3 DEF RequestOK
<1>6. CASE first[r] # None
  <2>1. first[r] \in Nat /\ seen[r].exp \in Nat /\ first[r] + AuthnRequestTTL <= seen[r].exp /\ reqs[r].at \in Int \cup {None}
    BY <1>6 DEF RequestOK
  <2>2. first[r] + AuthnRequestTTL <= clock  BY <1>0, <2>1 DEF Unseen, Found
  <2>3. CASE ~InWindow(r)
    <3>1. r \in tardy'  BY <2>3 DEF ConsumeRequest
    <3>2. Excepted(r)'  BY <3>1 DEF Excepted
    <3> QED  BY <1>3, <1>4, <1>7, <3>2 DEF RequestOK
  <2>4. CASE InWindow(r)
    <3>1. reqs[r].at # None => reqs[r].at >= first[r]
      <4>1. ASSUME reqs[r].at # None  PROVE clock - reqs[r].at \in -AuthnRequestTTL..AuthnRequestTTL /\ reqs[r].at \in Int
        BY <2>1, <2>4, <4>1 DEF InWindow
      <4> QED  BY <1>0, <2>1, <2>2, <4>1
    <3>2. Excepted(r)'  BY <1>2, <1>4, <1>6, <3>1 DEF Excepted
    <3> QED  BY <1>3, <1>4, <1>7, <3>2 DEF RequestOK
  <2> QED  BY <2>3, <2>4
<1> QED  BY <1>5, <1>6

\* What ConsumeRequest does to the other requests.
LEMMA ConsumeKeeps ==
    ASSUME SamlOK, NEW r \in Requests, ConsumeRequest(r)
    PROVE  /\ DOMAIN seen' = Requests /\ DOMAIN first' = Requests
           /\ \A o \in Requests \ {r} : seen'[o] = seen[o] /\ first'[o] = first[o] /\ (o \in tardy' <=> o \in tardy)
<1> DEFINE e == Entry(TRUE, clock + AuthnRequestTTL)
           f == IF first[r] = None THEN clock ELSE first[r]
<1>1. seen' = [seen EXCEPT ![r] = e]  BY DEF ConsumeRequest, SetEx
<1>2. first' = [first EXCEPT ![r] = f]  BY DEF ConsumeRequest, SamlOK
<1>3. tardy' = tardy \/ tardy' = tardy \cup {r}  BY DEF ConsumeRequest
<1> HIDE DEF e, f
<1> QED  BY <1>1, <1>2, <1>3 DEF SamlOK

\* A step that makes no claim.
LEMMA ClaimsKept ==
    ASSUME StepOK, NEW K, KvMoves(K), "samlticket" \notin K, \A p \in Procs : GrantKept(p) /\ ResumeKept(p), NEW r
    PROVE  Claims(r)' \subseteq Claims(r)
<1>1. \A p \in Procs : (pc'[p] = "ssoGrant" \/ Resuming(p)') /\ loc'[p].val = r => (pc[p] = "ssoGrant" \/ Resuming(p)) /\ loc[p].val = r
  BY DEF GrantKept, ResumeKept
<1>2. \A n \in Nonces : Has(n, "samlticket")' /\ kv'[n].val.ref = r => Has(n, "samlticket") /\ kv[n].val.ref = r
  BY HasKept
<1> QED  BY <1>1, <1>2 DEF Claims

LEMMA AsksKept ==
    ASSUME AnswerInv, \A r \in Requests : reqs[r].kind # "none" => reqs'[r].kind # "none", NEW p \in Procs, AskKept(p)
    PROVE  AskOK(p)'
BY DEF AnswerInv, AskOK, AskKept

\* A step that leaves the requests of service providers alone.
LEMMA AnswersKept ==
    ASSUME StepOK, AnswerInv, NEW K, KvMoves(K), "samlticket" \notin K, \A p \in Procs : GrantKept(p) /\ ResumeKept(p),
           UNCHANGED <<reqs, answers, consumption>>, \A p \in Procs : AskKept(p) \/ AskOK(p)'
    PROVE  AnswerInv'
<1>1. SamlOK'  BY DEF AnswerInv, SamlOK, consumption
<1>2. \A r \in Requests : RequestOK(r)'  BY ClaimsKept, RequestStep DEF AnswerInv, consumption
<1>3. \A p \in Procs : AskOK(p)'  BY AsksKept
<1> QED  BY <1>1, <1>2, <1>3 DEF AnswerInv

\* A step that consumes one.
LEMMA AnswersConsumed ==
    ASSUME StepOK, AnswerInv, NEW r \in Requests, reqs[r].kind # "none", Unseen(r), ConsumeRequest(r), UNCHANGED reqs,
           \A p \in Procs : AskKept(p), \A o \in Requests \ {r} : Claims(o)' \subseteq Claims(o),
           \/ UNCHANGED answers /\ \E d : Claims(r)' \subseteq Claims(r) \cup {d}
           \/ answers' = [answers EXCEPT ![r] = @ + 1] /\ Claims(r)' \subseteq Claims(r)
    PROVE  AnswerInv'
<1>1. DOMAIN answers' = Requests /\ \A o \in Requests \ {r} : answers'[o] = answers[o]  BY DEF AnswerInv, SamlOK
<1>2. SamlOK'  BY <1>1, ConsumeKeeps DEF AnswerInv, SamlOK
<1>3. \A o \in Requests \ {r} : RequestOK(o)'  BY <1>1, ConsumeKeeps, RequestStep DEF AnswerInv
<1>4. RequestOK(r)'
  <2>1. answers'[r] = answers[r] \/ answers'[r] = answers[r] + 1  BY DEF AnswerInv, SamlOK
  <2>2. \/ \E d : Claims(r)' \subseteq Claims(r) \cup {d} /\ answers'[r] = answers[r]
        \/ Claims(r)' \subseteq Claims(r) /\ answers'[r] = answers[r] + 1
    BY DEF AnswerInv, SamlOK
  <2>3. clock \in Nat  BY GoneStays
  <2> QED  BY <2>2, <2>3, RequestConsumed DEF AnswerInv
<1>5. \A p \in Procs : AskOK(p)'  BY AsksKept
<1> QED  BY <1>2, <1>3, <1>4, <1>5 DEF AnswerInv

\* The steps of single sign-on and logout that neither use nor answer a request.
LEMMA SamlRest ==
    ASSUME StepOK, UsedInv, AnswerInv,
           \/ \E p \in Procs : \/ SsoLosesSession(p) \/ SsoReauthFails(p) \/ SsoFresh(p) \/ ResumeRecords(p)
                               \/ SloDone(p) \/ \E s, ok : SloRow(p, s, ok)
           \/ \E s, n : SamlDecline(s, n)
    PROVE  UsedInv' /\ AnswerInv'
<1>0. FrameOK /\ NameOK  BY DEF StepOK, FrameInv, NameInv
<1>1. ASSUME NEW p \in Procs, SsoLosesSession(p) \/ SloDone(p) \/ \E s, ok : SloRow(p, s, ok)
      PROVE  UNCHANGED <<kv, handed, used, reqs, answers, consumption>>
  BY <1>1, Zenon DEF SsoLosesSession, SloDone, SloRow, authorizeVars, authorizeHistory, samlVars
<1>2. ASSUME NEW p \in Procs, SsoFresh(p) \/ ResumeRecords(p) \/ SsoReauthFails(p)
      PROVE  UNCHANGED <<reqs, answers, consumption>>
  BY <1>2, Zenon DEF SsoFresh, ResumeRecords, SsoReauthFails, samlVars
<1>3. ASSUME UNCHANGED <<kv, handed, used>>  PROVE UsedMoves /\ KvMoves({"samlreauth"})
  <2>1. KvMoves({})  BY <1>0, <1>3, QuietKv DEF kvVars
  <2> QED  BY <1>3, <2>1, WiderKv DEF UsedMoves
<1>4. ASSUME NEW n, kv' = Pop(n), UNCHANGED handed, UNCHANGED used \/ (Found(kv, n, clock) /\ Use(n))
      PROVE  UsedMoves /\ KvMoves({"samlreauth"})
  <2>1. KvMoves({})  BY <1>0, <1>4, GoneKv
  <2>2. UsedMoves  BY <1>0, <1>4, PopUsed DEF UsedMoves
  <2> QED  BY <2>1, <2>2, WiderKv
<1>5. ASSUME \A p \in Procs : Kept(p), UsedMoves, KvMoves({"samlreauth"}), UNCHANGED <<reqs, answers, consumption>>
      PROVE  UsedInv' /\ AnswerInv'
  <2>1. "fa" \notin {"samlreauth"} /\ "samlticket" \notin {"samlreauth"}  OBVIOUS
  <2> QED  BY <1>5, <2>1, UsedKept, AnswersKept DEF Kept
<1>6. ASSUME NEW p \in Procs, SsoLosesSession(p) \/ SloDone(p)  PROVE UsedInv' /\ AnswerInv'
  <2>1. Finish(p)  BY <1>6, Zenon DEF SsoLosesSession, SloDone
  <2> QED  BY <1>0, <1>1, <1>3, <1>5, <1>6, <2>1, FinishKept
<1>7. ASSUME NEW p \in Procs, NEW s, NEW ok, SloRow(p, s, ok)  PROVE UsedInv' /\ AnswerInv'
  <2>1. pc[p] = "slo" /\ UNCHANGED pc /\ \E v : Set(p, v)  BY <1>7, Zenon DEF SloRow
  <2>2. \A q \in Procs : (pc'[q] = pc[q] /\ loc'[q] = loc[q]) \/ pc'[q] \notin Ways  BY <1>0, <2>1 DEF Set, FrameOK, Ways
  <2> QED  BY <1>1, <1>3, <1>5, <1>7, <2>2, SameKept
<1>8. ASSUME NEW p \in Procs, SsoFresh(p)  PROVE UsedInv' /\ AnswerInv'
  <2>1. pc[p] = "ssoDecide" /\ Goto(p, "ssoConsume") /\ UNCHANGED <<loc, handed>>  BY <1>8, Zenon DEF SsoFresh, SsoAllowed
  <2>2. UNCHANGED <<kv, used>> \/ (Found(kv, loc[p].n, clock) /\ kv' = Pop(loc[p].n) /\ Use(loc[p].n))
    BY <1>8, Zenon DEF SsoFresh, ReauthOK, Has
  <2>3. pc'[p] = "ssoConsume" /\ loc'[p] = loc[p] /\ \A q \in Procs \ {p} : pc'[q] = pc[q] /\ loc'[q] = loc[q]
    BY <1>0, <2>1, GotoFacts
  <2>4. Kept(p)
    BY <2>1, <2>3 DEF Kept, AskKept, GrantKept, ResumeKept, CallbackKept, Asking, Unasked, Resuming
  <2>5. \A q \in Procs : Kept(q)  BY <2>3, <2>4, SameKept
  <2>6. UsedMoves /\ KvMoves({"samlreauth"})  BY <1>3, <1>4, <2>1, <2>2
  <2> QED  BY <1>2, <1>5, <1>8, <2>5, <2>6
<1>9. ASSUME NEW p \in Procs, SsoReauthFails(p)  PROVE UsedInv' /\ AnswerInv'
  <2>1. Finish(p) /\ UNCHANGED used /\ DemandReauth("samlreauth", loc[p].a, Spoiled(loc[p].n, "samlreauth"))
    BY <1>9, Zenon DEF SsoReauthFails
  <2>2. KvMoves({"samlreauth"})  BY <1>0, <2>1, DemandKv
  <2>3. UsedMoves  BY <2>1 DEF UsedMoves
  <2> QED  BY <1>0, <1>2, <1>5, <1>9, <2>1, <2>2, <2>3, FinishKept
<1>10. ASSUME NEW p \in Procs, ResumeRecords(p)  PROVE UsedInv' /\ AnswerInv'
  <2>1. pc[p] = "resume" /\ UNCHANGED <<kv, handed, used>> /\ (Finish(p) \/ (Goto(p, "resumed") /\ UNCHANGED loc))
    BY <1>10, Zenon DEF ResumeRecords
  <2>2. ASSUME Goto(p, "resumed"), UNCHANGED loc  PROVE \A q \in Procs : Kept(q)
    <3>1. pc'[p] = "resumed" /\ loc'[p] = loc[p] /\ \A q \in Procs \ {p} : pc'[q] = pc[q] /\ loc'[q] = loc[q]
      BY <1>0, <2>2, GotoFacts
    <3>2. Kept(p)
      BY <2>1, <3>1 DEF Kept, AskKept, GrantKept, ResumeKept, CallbackKept, Asking, Unasked, Resuming
    <3> QED  BY <3>1, <3>2, SameKept
  <2> QED  BY <1>0, <1>2, <1>3, <1>5, <1>10, <2>1, <2>2, FinishKept
<1>11. ASSUME NEW s, NEW n, SamlDecline(s, n)  PROVE UsedInv' /\ AnswerInv'
  <2>1. kv' = Pop(n) /\ UNCHANGED <<handed, used, pc, loc, reqs, answers, consumption>>
    BY <1>11, Zenon DEF SamlDecline, frame, authorizeHistory, samlVars
  <2> QED  BY <1>4, <1>5, <2>1, QuietKept
<1> QED  BY <1>6, <1>7, <1>8, <1>9, <1>10, <1>11

\* Requests are sent, start to be worked on, and are used up.
LEMMA SendKeeps ==
    ASSUME StepOK, UsedInv, AnswerInv, NEW r \in Requests, NEW kind \in {"authn", "logout"}, NEW x, NEW skew \in Skews,
           NEW pa, NEW fo, NEW a, SendRequest(r, kind, x, skew, pa, fo, a)
    PROVE  UsedInv' /\ AnswerInv'
<1>0. NameOK /\ clock \in Nat  BY GoneStays DEF StepOK, NameInv
<1>1. UNCHANGED <<kv, handed, used, pc, loc, answers, consumption>>
  BY Zenon DEF SendRequest, frame, authorizeVars, authorizeHistory
<1> DEFINE t == IF skew = None THEN None ELSE clock + skew
           v == [kind |-> kind, x |-> x, passive |-> pa, force |-> fo, a |-> a, at |-> t]
<1>2. reqs[r].kind = "none" /\ reqs' = [reqs EXCEPT ![r] = v]  BY Zenon DEF SendRequest
<1>3. v.kind # "none" /\ v.at = t  OBVIOUS
<1>4. t \in Int \cup {None}  BY <1>0, SamlAssumption
<1> HIDE DEF t, v
<1>5. UsedMoves /\ KvMoves({})  BY <1>0, <1>1, QuietKv DEF kvVars, UsedMoves
<1>6. \A p \in Procs : Kept(p)  BY <1>1, QuietKept
<1>7. UsedInv'  BY <1>5, <1>6, UsedKept DEF Kept
<1>8. DOMAIN reqs' = Requests /\ reqs'[r] = v /\ \A o \in Requests \ {r} : reqs'[o] = reqs[o]
  BY <1>2 DEF AnswerInv, SamlOK
<1>9. \A o \in Requests : Claims(o)' \subseteq Claims(o)  BY <1>5, <1>6, ClaimsKept DEF Kept
<1>10. \A o \in Requests \ {r} : RequestOK(o)'  BY <1>1, <1>8, <1>9, RequestStep DEF AnswerInv, consumption
<1>11. RequestOK(r)'
  <2>1. first[r] = None /\ Claims(r) = {} /\ answers[r] = 0  BY <1>2 DEF AnswerInv, RequestOK
  <2>2. first'[r] = None /\ Claims(r)' = {} /\ answers'[r] = 0  BY <1>1, <1>9, <2>1 DEF consumption
  <2>3. Single(r)'  BY <2>2 DEF Single
  <2> QED  BY <1>3, <1>4, <1>8, <2>2, <2>3 DEF RequestOK
<1>12. \A p \in Procs : AskOK(p)'  BY <1>3, <1>6, <1>8, AsksKept DEF Kept
<1> QED  BY <1>1, <1>7, <1>8, <1>10, <1>11, <1>12 DEF AnswerInv, SamlOK, consumption

\* Single sign-on starts, with a request or without.
LEMMA SsoStarts ==
    ASSUME StepOK, UsedInv, AnswerInv, NEW p \in Procs, NEW op \in {"sso", "ssoinit"}, NEW l, NEW x, NEW a,
           Begin(p, x, a, l), l.op = op, UNCHANGED <<kv, handed, used, reqs, answers, consumption>>,
           op = "sso" => l.val \in Requests /\ reqs[l.val].kind # "none", op = "ssoinit" => l.val \notin Requests
    PROVE  UsedInv' /\ AnswerInv'
<1>0. NameOK /\ FrameOK  BY DEF StepOK, NameInv, FrameInv
<1>1. /\ pc'[p] = "evManual" /\ loc'[p].op = op /\ \A f \in Fields \ {"ev"} : loc'[p][f] = l[f]
      /\ \A q \in Procs \ {p} : pc'[q] = pc[q] /\ loc'[q] = loc[q]
  BY <1>0, BeginFacts
<1>2. loc'[p].val = l.val  BY <1>1 DEF Fields
<1>3. UsedMoves /\ KvMoves({})  BY <1>0, QuietKv DEF kvVars, UsedMoves
<1>4. \A q \in Procs \ {p} : Kept(q)  BY <1>1, SameKept
<1>5. GrantKept(p) /\ ResumeKept(p) /\ CallbackKept(p)  BY <1>1 DEF GrantKept, ResumeKept, CallbackKept, Resuming
<1>6. AskOK(p)'  BY <1>1, <1>2 DEF AskOK, Asking, Unasked
<1>7. UsedInv'  BY <1>3, <1>4, <1>5, UsedKept DEF Kept
<1>8. AnswerInv'  BY <1>3, <1>4, <1>5, <1>6, AnswersKept DEF Kept
<1> QED  BY <1>7, <1>8

LEMMA SsoBegins ==
    ASSUME StepOK, UsedInv, AnswerInv, NEW p \in Procs,
           \/ \E s : \E r \in Requests : \E m : Sso(p, s, r, m)
           \/ \E s, x : SsoInit(p, s, x)
    PROVE  UsedInv' /\ AnswerInv'
<1>1. ASSUME NEW s, NEW r \in Requests, NEW m, Sso(p, s, r, m)  PROVE UsedInv' /\ AnswerInv'
  <2> DEFINE l == [Blank EXCEPT !.op = "sso", !.s = s, !.a = sess[s].a, !.x = reqs[r].x, !.val = r, !.n = m]
  <2>1. Form(l, "sso", reqs[r].x, sess[s].a)  BY DEF Form, Blank, Fields
  <2>6. l.val = r /\ l.op = "sso"  BY DEF Blank
  <2>2. Idle(p, "sso") /\ Evaluate(p, reqs[r].x, sess[s].a, l) /\ Acceptable(r, "authn")  BY <1>1, Zenon DEF Sso
  <2>3. UNCHANGED <<kv, handed, used, reqs, answers, consumption>>
    BY <1>1, Zenon DEF Sso, authorizeVars, authorizeHistory, samlVars
  <2> HIDE DEF l
  <2>4. Begin(p, reqs[r].x, sess[s].a, l)  BY <2>1, <2>2 DEF Begin, Idle, Serving
  <2>5. reqs[r].kind # "none"  BY <2>2 DEF Acceptable
  <2> QED  BY <2>3, <2>4, <2>5, <2>6, SsoStarts
<1>2. ASSUME NEW s, NEW x, SsoInit(p, s, x)  PROVE UsedInv' /\ AnswerInv'
  <2> DEFINE l == [Blank EXCEPT !.op = "ssoinit", !.s = s, !.a = sess[s].a, !.x = x]
  <2>1. Form(l, "ssoinit", x, sess[s].a)  BY DEF Form, Blank, Fields
  <2>6. l.val = None /\ l.op = "ssoinit"  BY DEF Blank
  <2>2. Idle(p, "ssoinit") /\ Evaluate(p, x, sess[s].a, l)  BY <1>2, Zenon DEF SsoInit
  <2>3. UNCHANGED <<kv, handed, used, reqs, answers, consumption>>
    BY <1>2, Zenon DEF SsoInit, authorizeVars, authorizeHistory, samlVars
  <2> HIDE DEF l
  <2>4. Begin(p, x, sess[s].a, l)  BY <2>1, <2>2 DEF Begin, Idle, Serving
  <2> QED  BY <2>3, <2>4, <2>6, SsoStarts, SamlAssumption
<1> QED  BY <1>1, <1>2

\* Used up, with or without a request going on to the grant.
LEMMA SsoUses ==
    ASSUME StepOK, UsedInv, AnswerInv,
           \/ \E r \in Requests : SsoNoSession(r) \/ SloAborts(r) \/ \E p \in Procs : Slo(p, r)
           \/ \E p \in Procs : SsoRefused(p) \/ SsoConsume(p) \/ SsoInitDecide(p)
    PROVE  UsedInv' /\ AnswerInv'
<1>0. NameOK /\ FrameOK  BY DEF StepOK, NameInv, FrameInv
<1>1. ASSUME UNCHANGED <<kv, handed, used>>, \A p \in Procs : Kept(p), NEW r \in Requests, reqs[r].kind # "none",
             Unseen(r), ConsumeRequest(r), UNCHANGED reqs,
             UNCHANGED answers \/ answers' = [answers EXCEPT ![r] = @ + 1]
      PROVE  UsedInv' /\ AnswerInv'
  <2>1. UsedMoves /\ KvMoves({})  BY <1>0, <1>1, QuietKv DEF kvVars, UsedMoves
  <2>2. \A o \in Requests : Claims(o)' \subseteq Claims(o)  BY <1>1, <2>1, ClaimsKept DEF Kept
  <2>3. \E d : Claims(r)' \subseteq Claims(r) \cup {d}  BY <2>2
  <2>4. AnswerInv'  BY <1>1, <2>2, <2>3, AnswersConsumed DEF Kept
  <2> QED  BY <1>1, <2>1, <2>4, UsedKept DEF Kept
<1>2. ASSUME UNCHANGED <<kv, handed, used, reqs, answers, consumption>>, \A p \in Procs : Kept(p)
      PROVE  UsedInv' /\ AnswerInv'
  <2>1. UsedMoves /\ KvMoves({})  BY <1>0, <1>2, QuietKv DEF kvVars, UsedMoves
  <2> QED  BY <1>2, <2>1, UsedKept, AnswersKept DEF Kept
<1>3. ASSUME NEW r \in Requests, SsoNoSession(r) \/ SloAborts(r)  PROVE UsedInv' /\ AnswerInv'
  <2>1. (\E kind \in {"authn", "logout"} : Acceptable(r, kind)) /\ Unseen(r) /\ ConsumeRequest(r) /\ UNCHANGED <<kv, handed, used, reqs, answers, pc, loc>>
    BY <1>3, Zenon DEF SsoNoSession, SloAborts, frame, authorizeVars, authorizeHistory
  <2> QED  BY <1>1, <2>1, QuietKept DEF Acceptable
<1>4. ASSUME NEW r \in Requests, NEW p \in Procs, Slo(p, r)  PROVE UsedInv' /\ AnswerInv'
  <2>1. /\ Acceptable(r, "logout") /\ Unseen(r) /\ ConsumeRequest(r) /\ UNCHANGED <<kv, handed, used, reqs>>
        /\ answers' = [answers EXCEPT ![r] = @ + 1] /\ Goto(p, "slo") /\ \E v : Set(p, v)
    BY <1>4, Zenon DEF Slo, authorizeVars, authorizeHistory
  <2>2. pc'[p] = "slo" /\ \A q \in Procs \ {p} : pc'[q] = pc[q] /\ loc'[q] = loc[q]  BY <1>0, <2>1, SetFacts
  <2>3. \A q \in Procs : Kept(q)  BY <2>2, SameKept DEF Ways
  <2> QED  BY <1>1, <2>1, <2>3 DEF Acceptable
<1>5. ASSUME NEW p \in Procs, SsoRefused(p)  PROVE UsedInv' /\ AnswerInv'
  <2> DEFINE r == loc[p].val
  <2>1. pc[p] = "ssoDecide" /\ Finish(p) /\ UNCHANGED <<kv, handed, used, reqs, answers>>
        /\ (UNCHANGED consumption \/ (Unseen(r) /\ ConsumeRequest(r)))
    BY <1>5, Zenon DEF SsoRefused, authorizeVars, authorizeHistory
  <2>2. r \in Requests /\ reqs[r].kind # "none"  BY <2>1 DEF AnswerInv, AskOK, Asking
  <2>3. \A q \in Procs : Kept(q)  BY <1>0, <2>1, FinishKept
  <2> HIDE DEF r
  <2> QED  BY <1>1, <1>2, <2>1, <2>2, <2>3
<1>6. ASSUME NEW p \in Procs, SsoConsume(p)  PROVE UsedInv' /\ AnswerInv'
  <2>0. PICK r : r = loc[p].val  OBVIOUS
  <2>1. /\ pc[p] = "ssoConsume" /\ UNCHANGED <<kv, handed, used, reqs, answers>>
        /\ \/ Unseen(r) /\ ConsumeRequest(r) /\ Goto(p, "ssoGrant") /\ UNCHANGED loc
           \/ Unseen(r) /\ ConsumeRequest(r) /\ Finish(p)
           \/ Finish(p) /\ UNCHANGED consumption
    BY <1>6, <2>0, Zenon DEF SsoConsume, authorizeVars, authorizeHistory
  <2>2. r \in Requests /\ reqs[r].kind # "none"  BY <2>0, <2>1 DEF AnswerInv, AskOK, Asking
  <2>3. CASE Finish(p)
    <3>1. \A q \in Procs : Kept(q)  BY <1>0, <2>3, FinishKept
    <3>2. CASE UNCHANGED consumption  BY <1>2, <2>1, <3>1, <3>2
    <3>3. CASE Unseen(r) /\ ConsumeRequest(r)  BY <1>1, <2>1, <2>2, <3>1, <3>3
    <3> QED  BY <2>1, <2>3, <3>2, <3>3
  <2>4. CASE Unseen(r) /\ ConsumeRequest(r) /\ Goto(p, "ssoGrant") /\ UNCHANGED loc
    <3>1. pc'[p] = "ssoGrant" /\ loc'[p] = loc[p] /\ \A q \in Procs \ {p} : pc'[q] = pc[q] /\ loc'[q] = loc[q]
      BY <1>0, <2>4, GotoFacts
    <3>2. \A q \in Procs \ {p} : Kept(q)  BY <3>1, SameKept
    <3>3. AskKept(p) /\ ResumeKept(p) /\ CallbackKept(p)
      BY <3>1 DEF AskKept, ResumeKept, CallbackKept, Asking, Unasked, Resuming
    <3>4. UsedMoves /\ KvMoves({})  BY <1>0, <2>1, QuietKv DEF kvVars, UsedMoves
    <3>5. UsedInv'  BY <3>2, <3>3, <3>4, UsedKept DEF Kept
    <3>6. \A n \in Nonces : Has(n, "samlticket")' => Has(n, "samlticket") /\ kv'[n].val = kv[n].val
      <4>1. "samlticket" \notin {}  OBVIOUS
      <4> QED  BY <3>4, <4>1, HasKept
    <3>7. \A o : Claims(o)' \subseteq Claims(o) \cup (IF o = r THEN {<<p, "request">>} ELSE {})
      BY <2>0, <3>1, <3>2, <3>6 DEF Claims, Kept, GrantKept, ResumeKept, Resuming
    <3>8. (\E d : Claims(r)' \subseteq Claims(r) \cup {d}) /\ \A o \in Requests \ {r} : Claims(o)' \subseteq Claims(o)  BY <3>7
    <3>9. AnswerInv'  BY <2>1, <2>2, <2>4, <3>2, <3>3, <3>8, AnswersConsumed DEF Kept
    <3> QED  BY <3>5, <3>9
  <2> QED  BY <2>1, <2>3, <2>4
<1>7. ASSUME NEW p \in Procs, SsoInitDecide(p)  PROVE UsedInv' /\ AnswerInv'
  <2>1. /\ pc[p] = "initDecide" /\ UNCHANGED <<kv, handed, used, reqs, answers, consumption>>
        /\ Finish(p) \/ (Goto(p, "ssoGrant") /\ UNCHANGED loc)
    BY <1>7, Zenon DEF SsoInitDecide, authorizeVars, authorizeHistory, samlVars
  <2>2. CASE Finish(p)  BY <1>0, <1>2, <2>1, <2>2, FinishKept
  <2>3. CASE Goto(p, "ssoGrant") /\ UNCHANGED loc
    <3>1. pc'[p] = "ssoGrant" /\ loc'[p] = loc[p] /\ \A q \in Procs \ {p} : pc'[q] = pc[q] /\ loc'[q] = loc[q]
      BY <1>0, <2>3, GotoFacts
    <3>2. loc[p].val \notin Requests  BY <2>1 DEF AnswerInv, AskOK, Unasked
    <3>3. \A q \in Procs \ {p} : Kept(q)  BY <3>1, SameKept
    <3>4. AskKept(p) /\ ResumeKept(p) /\ CallbackKept(p)
      BY <3>1 DEF AskKept, ResumeKept, CallbackKept, Asking, Unasked, Resuming
    <3>5. UsedMoves /\ KvMoves({})  BY <1>0, <2>1, QuietKv DEF kvVars, UsedMoves
    <3>6. UsedInv'  BY <3>3, <3>4, <3>5, UsedKept DEF Kept
    <3>7. \A n \in Nonces : Has(n, "samlticket")' => Has(n, "samlticket") /\ kv'[n].val = kv[n].val
      <4>1. "samlticket" \notin {}  OBVIOUS
      <4> QED  BY <3>5, <4>1, HasKept
    <3>8. \A o \in Requests : Claims(o)' \subseteq Claims(o)
      BY <3>1, <3>2, <3>3, <3>7 DEF Claims, Kept, GrantKept, ResumeKept, Resuming
    <3>9. \A o \in Requests : RequestOK(o)'  BY <2>1, <3>8, RequestStep DEF AnswerInv, consumption
    <3>10. \A q \in Procs : AskOK(q)'  BY <2>1, <3>3, <3>4, AsksKept DEF Kept
    <3> QED  BY <2>1, <3>6, <3>9, <3>10 DEF AnswerInv, SamlOK, consumption
  <2> QED  BY <2>1, <2>2, <2>3
<1> QED  BY <1>3, <1>4, <1>5, <1>6, <1>7

\* An assertion is issued, or the request that was to issue it ends.
LEMMA AnswerGiven ==
    ASSUME StepOK, AnswerInv, NEW p \in Procs, NEW r, r = loc[p].val, pc[p] = "ssoGrant" \/ Resuming(p),
           NEW s, NEW x, IssueAssertion(p, s, x, r), UNCHANGED <<kv, handed, reqs, consumption>>
    PROVE  AnswerInv' /\ \A q \in Procs : Kept(q)
<1>0. NameOK /\ FrameOK  BY DEF StepOK, NameInv, FrameInv
<1>1. (Goto(p, "sent") /\ UNCHANGED loc) \/ Finish(p)  BY IssuedMoves
<1>2. pc'[p] \in {"sent", "idle"} /\ \A q \in Procs \ {p} : pc'[q] = pc[q] /\ loc'[q] = loc[q]
  BY <1>0, <1>1, GotoFacts, FinishFacts
<1>3. \A q \in Procs : Kept(q)  BY <1>2, SameKept DEF Ways
<1>4. KvMoves({})  BY <1>0, QuietKv DEF kvVars
<1>5. \A o \in Requests : Claims(o)' \subseteq Claims(o)  BY <1>3, <1>4, ClaimsKept DEF Kept
<1>6. UNCHANGED answers \/ answers' = [answers EXCEPT ![r] = @ + 1]  BY Zenon DEF IssueAssertion
<1>7. DOMAIN answers' = Requests /\ \A o \in Requests \ {r} : answers'[o] = answers[o]  BY <1>6 DEF AnswerInv, SamlOK
<1>8. \A o \in Requests \ {r} : RequestOK(o)'  BY <1>5, <1>7, RequestStep DEF AnswerInv, consumption
<1>9. ASSUME r \in Requests  PROVE RequestOK(r)'
  <2>1. <<p, "request">> \in Claims(r)  BY DEF Claims
  <2>2. <<p, "request">> \notin Claims(r)'  BY <1>2 DEF Claims, Resuming
  <2>3. answers'[r] = answers[r] \/ answers'[r] = answers[r] + 1  BY <1>6, <1>9 DEF AnswerInv, SamlOK
  <2>4. Claims(r)' \subseteq Claims(r) \ {<<p, "request">>}  BY <1>5, <1>9, <2>2
  <2> QED  BY <1>5, <1>9, <2>1, <2>3, <2>4, RequestStep DEF AnswerInv, consumption
<1>10. \A q \in Procs : AskOK(q)'  BY <1>3, AsksKept DEF Kept
<1> QED  BY <1>3, <1>7, <1>8, <1>9, <1>10 DEF AnswerInv, SamlOK, consumption

LEMMA AnswersIssued ==
    ASSUME StepOK, UsedInv, AnswerInv, NEW p \in Procs, SsoIssues(p) \/ ResumeIssues(p)
    PROVE  UsedInv' /\ AnswerInv'
<1>0. NameOK /\ FrameOK  BY DEF StepOK, NameInv, FrameInv
<1>1. PICK r : r = loc[p].val  OBVIOUS
<1>2. ASSUME SsoIssues(p)  PROVE UsedInv' /\ AnswerInv'
  <2>1. pc[p] = "ssoGrant" /\ IssueAssertion(p, loc[p].s, loc[p].x, r) /\ UNCHANGED <<kv, handed, used, reqs, consumption>>
    BY <1>1, <1>2, Zenon DEF SsoIssues, authorizeVars, authorizeHistory
  <2>2. AnswerInv' /\ \A q \in Procs : Kept(q)  BY <1>1, <2>1, AnswerGiven
  <2>3. UsedMoves /\ KvMoves({})  BY <1>0, <2>1, QuietKv DEF kvVars, UsedMoves
  <2> QED  BY <2>2, <2>3, UsedKept DEF Kept
<1>3. ASSUME ResumeIssues(p)  PROVE UsedInv' /\ AnswerInv'
  <2>1. pc[p] = "resumed" /\ IssueAssertion(p, loc[p].s, loc[p].x, r) /\ UNCHANGED <<kv, handed, reqs, consumption>>
    BY <1>1, <1>3, Zenon DEF ResumeIssues
  <2>2. AnswerInv'  BY <1>1, <2>1, AnswerGiven DEF Resuming
  <2> QED  BY <1>3, <2>2, IssueSpends
<1> QED  BY <1>2, <1>3

\* The claim passes from a request to the ticket it leaves ...
LEMMA ClaimAsked ==
    ASSUME StepOK, UsedInv, AnswerInv, NEW p \in Procs, SsoAsks(p)
    PROVE  UsedInv' /\ AnswerInv'
<1>0. NameOK /\ FrameOK  BY DEF StepOK, NameInv, FrameInv
<1>1. PICK r : r = loc[p].val  OBVIOUS
<1> DEFINE v == [NoVal EXCEPT !.kind = "samlticket", !.a = loc[p].a, !.x = loc[p].x, !.ref = r]
<1>2. pc[p] = "ssoGrant" /\ Finish(p) /\ Stash(kv, v, TicketTTL) /\ UNCHANGED <<used, reqs, answers, consumption>>
  BY <1>1, Zenon DEF SsoAsks, authorizeHistory, samlVars
<1>3. v.kind = "samlticket" /\ v.ref = r  BY DEF NoVal
<1> DEFINE e == Entry(v, clock + TicketTTL)
<1>4. e.val = v  BY DEF Entry
<1>5. kv' = [kv EXCEPT ![handed + 1] = e]  BY <1>2 DEF Stash, SetEx
<1> HIDE DEF e, v
<1>6. KvMoves({"samlticket"})  BY <1>0, <1>2, <1>3, AuthorizeAssumption, StashKv
<1>7. UsedMoves  BY <1>2 DEF UsedMoves
<1>8. \A q \in Procs : Kept(q)  BY <1>0, <1>2, FinishKept
<1>9. UsedInv'
  <2>1. "fa" \notin {"samlticket"}  OBVIOUS
  <2> QED  BY <1>6, <1>7, <1>8, <2>1, UsedKept DEF Kept
<1>10. ASSUME NEW n \in Nonces, NEW o, Has(n, "samlticket")', kv'[n].val.ref = o
       PROVE  (Has(n, "samlticket") /\ kv[n].val.ref = o) \/ (n = handed + 1 /\ o = r)
  <2>1. CASE n = handed + 1  BY <1>0, <1>3, <1>4, <1>5, <1>10, <2>1 DEF NameOK
  <2>2. CASE n # handed + 1
    <3>1. kv'[n] = kv[n]  BY <1>0, <1>5, <2>2 DEF NameOK
    <3>2. clock \in Nat /\ clock' \in Nat /\ clock <= clock' /\ kv[n].exp \in Nat  BY GoneStays
    <3> QED  BY <1>10, <3>1, <3>2 DEF Has, Found
  <2> QED  BY <2>1, <2>2
<1>11. PICK d : d = <<handed + 1, "ticket">>  OBVIOUS
<1>12. \A o : Claims(o)' \subseteq Claims(o) \cup (IF o = r THEN {d} ELSE {})
  BY <1>8, <1>10, <1>11 DEF Claims, Kept, GrantKept, ResumeKept
<1>13. <<p, "request">> \in Claims(r) /\ <<p, "request">> \notin Claims(r)' /\ d # <<p, "request">>
  BY <1>0, <1>1, <1>2, <1>11, FinishFacts DEF Claims, Resuming
<1>14. \A o \in Requests \ {r} : RequestOK(o)'
  <2>1. \A o \in Requests \ {r} : Claims(o)' \subseteq Claims(o)  BY <1>12
  <2> QED  BY <1>2, <2>1, RequestStep DEF AnswerInv, consumption
<1>15. ASSUME r \in Requests  PROVE RequestOK(r)'
  <2>1. Claims(r)' \subseteq (Claims(r) \ {<<p, "request">>}) \cup {d}  BY <1>12, <1>13
  <2> QED  BY <1>2, <1>13, <1>15, <2>1, RequestStep DEF AnswerInv, consumption
<1>16. \A q \in Procs : AskOK(q)'  BY <1>2, <1>8, AsksKept DEF Kept
<1> QED  BY <1>2, <1>9, <1>14, <1>15, <1>16 DEF AnswerInv, SamlOK, consumption

\* ... and from the ticket to the request that resumes.
LEMMA ClaimResumed ==
    ASSUME StepOK, UsedInv, AnswerInv, NEW p \in Procs, NEW s, NEW n \in Nonces, ConsentResume(p, s, n)
    PROVE  UsedInv' /\ AnswerInv'
<1>0. NameOK /\ FrameOK  BY DEF StepOK, NameInv, FrameInv
<1>1. Has(n, "samlticket") /\ kv' = Pop(n) /\ UNCHANGED <<handed, used, reqs, answers, consumption>>  BY <1>0, ResumeFacts
<1>2. UsedInv'  BY ResumeSpends
<1>3. KvMoves({})  BY <1>0, <1>1, GoneKv
<1>4. CASE UNCHANGED <<pc, loc>>  BY <1>1, <1>2, <1>3, <1>4, QuietKept, AnswersKept DEF Kept
<1>5. CASE /\ pc'[p] = "evManual" /\ loc'[p].op = "resume" /\ loc'[p].n = n /\ loc'[p].val = kv[n].val.ref
           /\ \A q \in Procs \ {p} : pc'[q] = pc[q] /\ loc'[q] = loc[q]
  <2>1. PICK r : r = kv[n].val.ref  OBVIOUS
  <2>2. \A q \in Procs \ {p} : Kept(q)  BY <1>5, SameKept
  <2>3. AskKept(p) /\ GrantKept(p)  BY <1>5 DEF AskKept, GrantKept, Asking, Unasked
  <2>4. \A m \in Nonces : Has(m, "samlticket")' => m # n /\ Has(m, "samlticket") /\ kv'[m].val = kv[m].val
    <3>1. ~Found(kv', n, clock')
      <4>1. kv'[n].exp = 0 /\ clock' \in Nat  BY <1>0, <1>1, GoneStays DEF Pop, Del, NameOK, NoEntry
      <4> QED  BY <4>1 DEF Found
    <3>2. "samlticket" \notin {}  OBVIOUS
    <3> QED  BY <1>3, <3>1, <3>2, HasKept DEF Has
  <2>5. \A o : Claims(o)' \subseteq Claims(o) \cup (IF o = r THEN {<<p, "request">>} ELSE {})
    BY <1>5, <2>1, <2>2, <2>4 DEF Claims, Kept, GrantKept, ResumeKept
  <2>6. <<n, "ticket">> \in Claims(r) /\ <<n, "ticket">> \notin Claims(r)'  BY <1>1, <2>1, <2>4 DEF Claims
  <2>7. \A o \in Requests \ {r} : RequestOK(o)'
    <3>1. \A o \in Requests \ {r} : Claims(o)' \subseteq Claims(o)  BY <2>5
    <3> QED  BY <1>1, <3>1, RequestStep DEF AnswerInv, consumption
  <2>8. ASSUME r \in Requests  PROVE RequestOK(r)'
    <3>1. Claims(r)' \subseteq (Claims(r) \ {<<n, "ticket">>}) \cup {<<p, "request">>}  BY <2>5, <2>6
    <3> QED  BY <1>1, <2>6, <2>8, <3>1, RequestStep DEF AnswerInv, consumption
  <2>9. \A q \in Procs : AskOK(q)'  BY <1>1, <2>2, <2>3, AsksKept DEF Kept
  <2> QED  BY <1>1, <1>2, <2>7, <2>8, <2>9 DEF AnswerInv, SamlOK, consumption
<1> QED  BY <1>0, <1>4, <1>5, ResumeFacts

LEMMA SamlSpends ==
    ASSUME StepOK, UsedInv, AnswerInv, SamlNext
    PROVE  UsedInv' /\ AnswerInv'
<1>1. CASE \E p \in Procs :
        \/ \E s \in Visits, r \in Requests, m \in Markers("samlreauth") : Sso(p, s, r, m)
        \/ SsoRefused(p) \/ SsoLosesSession(p) \/ SsoFresh(p) \/ SsoConsume(p) \/ SsoIssues(p)
        \/ SsoReauthFails(p) \/ SsoAsks(p)
        \/ \E s \in Visits, x \in SamlApps : SsoInit(p, s, x)
        \/ SsoInitDecide(p)
        \/ \E s \in Visits, n \in Nonces : ConsentResume(p, s, n)
        \/ ResumeRecords(p) \/ ResumeIssues(p)
        \/ \E r \in Requests : Slo(p, r)
        \/ \E s \in Sids, ok \in BOOLEAN : SloRow(p, s, ok)
        \/ SloDone(p)
  <2>1. PICK p \in Procs :
        \/ \E s, x : \E r \in Requests : \E m : Sso(p, s, r, m) \/ SsoInit(p, s, x)
        \/ SsoRefused(p) \/ SsoConsume(p) \/ SsoInitDecide(p) \/ \E r \in Requests : Slo(p, r)
        \/ SsoLosesSession(p) \/ SsoReauthFails(p) \/ SsoFresh(p) \/ ResumeRecords(p) \/ SloDone(p) \/ \E s, ok : SloRow(p, s, ok)
        \/ SsoIssues(p) \/ ResumeIssues(p) \/ SsoAsks(p)
        \/ \E s : \E n \in Nonces : ConsentResume(p, s, n)
        \/ \E s, x : SsoInit(p, s, x)
    BY <1>1, Zenon
  <2>2. CASE (\E s : \E r \in Requests : \E m : Sso(p, s, r, m)) \/ \E s, x : SsoInit(p, s, x)  BY <2>2, SsoBegins
  <2>3. CASE SsoRefused(p) \/ SsoConsume(p) \/ SsoInitDecide(p) \/ \E r \in Requests : Slo(p, r)  BY <2>3, SsoUses
  <2>4. CASE SsoLosesSession(p) \/ SsoReauthFails(p) \/ SsoFresh(p) \/ ResumeRecords(p) \/ SloDone(p) \/ \E s, ok : SloRow(p, s, ok)
    BY <2>4, SamlRest
  <2>5. CASE SsoIssues(p) \/ ResumeIssues(p)  BY <2>5, AnswersIssued
  <2>6. CASE SsoAsks(p)  BY <2>6, ClaimAsked
  <2>7. CASE \E s : \E n \in Nonces : ConsentResume(p, s, n)  BY <2>7, ClaimResumed
  <2> QED  BY <2>1, <2>2, <2>3, <2>4, <2>5, <2>6, <2>7, Zenon
<1>2. CASE \E r \in Requests : \E kind \in {"authn", "logout"} : \E x : \E skew \in Skews : \E pa, fo, a :
             SendRequest(r, kind, x, skew, pa, fo, a)
  BY <1>2, SendKeeps
<1>3. CASE \E r \in Requests : SsoNoSession(r) \/ SloAborts(r)  BY <1>3, SsoUses
<1>4. CASE \E s, n : SamlDecline(s, n)  BY <1>4, SamlRest
<1>5. \/ \E r \in Requests :
          \/ \E kind \in {"authn", "logout"} : \E x : \E skew \in Skews : \E pa, fo, a : SendRequest(r, kind, x, skew, pa, fo, a)
          \/ SsoNoSession(r) \/ SloAborts(r)
      \/ \E s \in Visits, n \in Nonces : SamlDecline(s, n)
      \/ \E p \in Procs :
        \/ \E s \in Visits, r \in Requests, m \in Markers("samlreauth") : Sso(p, s, r, m)
        \/ SsoRefused(p) \/ SsoLosesSession(p) \/ SsoFresh(p) \/ SsoConsume(p) \/ SsoIssues(p)
        \/ SsoReauthFails(p) \/ SsoAsks(p)
        \/ \E s \in Visits, x \in SamlApps : SsoInit(p, s, x)
        \/ SsoInitDecide(p)
        \/ \E s \in Visits, n \in Nonces : ConsentResume(p, s, n)
        \/ ResumeRecords(p) \/ ResumeIssues(p)
        \/ \E r \in Requests : Slo(p, r)
        \/ \E s \in Sids, ok \in BOOLEAN : SloRow(p, s, ok)
        \/ SloDone(p)
  BY Zenon DEF SamlNext
<1> QED  BY <1>1, <1>2, <1>3, <1>4, <1>5, Zenon

\* A step of nobody who spends or is asked anything.
LEMMA QuietSpends ==
    ASSUME StepOK, UsedInv, AnswerInv, UNCHANGED <<kv, handed, used, reqs, answers, consumption>>, \A q \in Procs : Kept(q)
    PROVE  UsedInv' /\ AnswerInv'
<1>1. NameOK  BY DEF StepOK, NameInv
<1>2. KvMoves({}) /\ UsedMoves  BY <1>1, QuietKv DEF kvVars, UsedMoves
<1>3. "fa" \notin {} /\ "samlticket" \notin {}  OBVIOUS
<1> QED  BY <1>2, <1>3, UsedKept, AnswersKept DEF Kept

LEMMA AuthorizeSpends ==
    ASSUME StepOK, UsedInv, AnswerInv, AuthorizeNext, Moves(AuthorizeAt) \/ Begun(AuthorizeOps), UNCHANGED samlVars
    PROVE  UsedInv' /\ AnswerInv'
<1>1. NameOK /\ FrameOK  BY DEF StepOK, NameInv, FrameInv
<1>2. AuthorizeAt \cap Ways = {} /\ AuthorizeOps \cap SamlOps = {}  BY DEF AuthorizeAt, Ways, AuthorizeOps, SamlOps
<1>3. \A q \in Procs : Kept(q)  BY <1>1, <1>2, MovesKept, BegunKept
<1>4. UsedMoves  BY <1>1, AuthorizeUsed
<1> DEFINE K == {"reauth", "ticket", "code", "need"}
<1>5. KvMoves(K)  BY <1>1, AuthorizeKv
<1>6. "fa" \notin K /\ "samlticket" \notin K  OBVIOUS
<1> HIDE DEF K
<1>7. UNCHANGED <<reqs, answers, consumption>>  BY DEF samlVars
<1>8. UsedInv'  BY <1>3, <1>4, <1>5, <1>6, UsedKept DEF Kept
<1>9. AnswerInv'  BY <1>3, <1>5, <1>6, <1>7, AnswersKept DEF Kept
<1> QED  BY <1>8, <1>9

LEMMA ForwardAuthSpends ==
    ASSUME StepOK, UsedInv, AnswerInv, ForwardAuthNext, UNCHANGED samlVars
    PROVE  UsedInv' /\ AnswerInv'
<1>1. NameOK /\ FrameOK /\ NameInv /\ FrameInv  BY DEF StepOK, NameInv, FrameInv
<1>2. UNCHANGED <<reqs, answers, consumption>>  BY DEF samlVars
<1>3. UsedMoves  BY <1>1, ForwardAuthUsed
<1>4. ASSUME NEW p \in Procs, NEW st \in Nonces, NEW c, Callback(p, st, c)  PROVE UsedInv' /\ AnswerInv'
  <2> DEFINE v == [Blank EXCEPT !.op = "callback", !.x = kv[st].val.x, !.g = st, !.n = c]
  <2>1. kv' = Pop(st) /\ UNCHANGED handed /\ Set(p, v) /\ Goto(p, "callback")  BY <1>4, Zenon DEF Callback
  <2> HIDE DEF v
  <2>2. pc'[p] = "callback" /\ \A q \in Procs \ {p} : pc'[q] = pc[q] /\ loc'[q] = loc[q]  BY <1>1, <2>1, SetFacts
  <2>3. AskKept(p) /\ GrantKept(p) /\ ResumeKept(p)  BY <2>2 DEF AskKept, GrantKept, ResumeKept, Asking, Unasked, Resuming
  <2>4. \A q \in Procs : AskKept(q) /\ GrantKept(q) /\ ResumeKept(q)  BY <2>2, <2>3, SameKept DEF Kept
  <2>5. KvMoves({})  BY <1>1, <2>1, GoneKv
  <2>6. "samlticket" \notin {}  OBVIOUS
  <2>7. AnswerInv'  BY <1>2, <2>4, <2>5, <2>6, AnswersKept
  <2> QED  BY <1>4, <2>7, CallbackSpends
<1>5. ASSUME \A q \in Procs : Kept(q)  PROVE UsedInv' /\ AnswerInv'
  <2>1. CASE KvMoves({"fastate"})
    <3>1. "fa" \notin {"fastate"} /\ "samlticket" \notin {"fastate"}  OBVIOUS
    <3> QED  BY <1>2, <1>3, <1>5, <2>1, <3>1, UsedKept, AnswersKept DEF Kept
  <2>2. CASE KvMoves({"fa"}) /\ \E p \in Procs : CallbackMints(p)
    <3>1. "samlticket" \notin {"fa"}  OBVIOUS
    <3>2. AnswerInv'  BY <1>2, <1>5, <2>2, <3>1, AnswersKept DEF Kept
    <3> QED  BY <1>3, <2>2, <3>2, MintSpends
  <2> QED  BY <1>1, <2>1, <2>2, ForwardAuthKv
<1> QED  BY <1>1, <1>4, <1>5, VerifyKept

LEMMA SpentStep ==
    ASSUME FrameInv, NameInv, UsedInv, AnswerInv, [Next]_vars
    PROVE  UsedInv' /\ AnswerInv'
<1>0. StepOK /\ FrameOK  BY DEF StepOK, FrameInv
<1> USE DEF authorizeVars, authorizeHistory, samlVars, policyRest, others
<1>1. CASE UNCHANGED vars
  <2>1. UNCHANGED <<kv, handed, used, reqs, answers, consumption>> /\ UNCHANGED <<pc, loc>>
    BY <1>1, Zenon DEF vars, directory, frame
  <2> QED  BY <1>0, <2>1, QuietKept, QuietSpends
<1>2. CASE Next
  <2>1. ComponentStep  BY <1>0, <1>2, StepSplit
  <2>2. ASSUME NEW L, Moves(L), L \cap Ways = {}, UNCHANGED <<kv, handed, used, reqs, answers, consumption>>
        PROVE  UsedInv' /\ AnswerInv'
    BY <1>0, <2>2, MovesKept, QuietSpends
  <2>3. PolicyAt \cap Ways = {} /\ KeysAt \cap Ways = {} /\ CommandsAt \cap Ways = {}
    BY DEF PolicyAt, KeysAt, CommandsAt, Ways
  <2>4. ASSUME NEW p \in Procs, Finish(p), UNCHANGED <<kv, handed, used, reqs, answers, consumption>>
        PROVE  UsedInv' /\ AnswerInv'
    BY <1>0, <2>4, FinishKept, QuietSpends
  <2>5. ASSUME PolicyRest, Moves(PolicyAt), UNCHANGED <<tables, strayed>>, UNCHANGED policyRest  PROVE UsedInv' /\ AnswerInv'
    <3>1. UNCHANGED <<kv, handed, used, reqs, answers, consumption>>  BY <2>5, Zenon
    <3> QED  BY <2>2, <2>3, <2>5, <3>1
  <2>6. ASSUME NEW p \in Procs, EvalManual(p), UNCHANGED policyRest  PROVE UsedInv' /\ AnswerInv'
    <3>1. UNCHANGED <<kv, handed, used, reqs, answers, consumption>>  BY <2>6, Zenon
    <3> QED  BY <1>0, <2>6, <3>1, EvalKept, QuietSpends
  <2>7. ASSUME NEW p \in Procs, ReplaceGroupsCommit(p), UNCHANGED policyRest  PROVE UsedInv' /\ AnswerInv'
    <3>1. UNCHANGED <<kv, handed, used, reqs, answers, consumption>> /\ Finish(p)  BY <2>7, Zenon DEF ReplaceGroupsCommit
    <3> QED  BY <2>4, <3>1
  <2>8. ASSUME NEW p \in Procs, NEW s, NEW x, NEW G, ReplaceGroups(p, s, x, G), UNCHANGED policyRest  PROVE UsedInv' /\ AnswerInv'
    <3>1. UNCHANGED <<kv, handed, used, reqs, answers, consumption>>  BY <2>8, Zenon
    <3>2. \A q \in Procs : (pc'[q] = pc[q] /\ loc'[q] = loc[q]) \/ pc'[q] \notin Ways
      BY <1>0, <2>8, ReplaceFacts DEF Ways
    <3> QED  BY <1>0, <3>1, <3>2, SameKept, QuietSpends
  <2>9. CASE AuthorizeNext /\ (Moves(AuthorizeAt) \/ Begun(AuthorizeOps)) /\ AuthorizeKept /\ UNCHANGED <<samlVars, faVars, keyVars>>
    BY <1>0, <2>9, AuthorizeSpends
  <2>10. CASE SamlNext  BY <1>0, <2>10, SamlSpends
  <2>11. CASE ForwardAuthNext /\ ForwardAuthKept  BY <1>0, <2>11, ForwardAuthSpends DEF ForwardAuthKept
  <2>12. CASE KeysNext /\ Moves(KeysAt) /\ UNCHANGED others
    <3>1. UNCHANGED <<kv, handed, used, reqs, answers, consumption>>  BY <2>12, Zenon
    <3> QED  BY <2>2, <2>3, <2>12, <3>1
  <2>13. CASE Moves(CommandsAt) /\ CommandsKept
    <3>1. UNCHANGED <<kv, handed, used, reqs, answers, consumption>>  BY <2>13, Zenon DEF CommandsKept
    <3> QED  BY <2>2, <2>3, <2>13, <3>1
  <2>14. CASE SurroundingsKept
    <3>1. UNCHANGED <<kv, handed, used, reqs, answers, consumption>> /\ UNCHANGED <<pc, loc>>
      BY <2>14, Zenon DEF SurroundingsKept, frame
    <3> QED  BY <1>0, <3>1, QuietKept, QuietSpends
  <2>15. ASSUME NEW p \in Procs, Ends(p) \/ Deletes(p)  PROVE UsedInv' /\ AnswerInv'
    <3>1. UNCHANGED <<kv, handed, used, reqs, answers, consumption>> /\ Finish(p)
      BY <2>15, Zenon DEF Ends, Deletes, RowDeleted
    <3> QED  BY <2>4, <3>1
  <2> QED  BY <2>1, <2>5, <2>6, <2>7, <2>8, <2>9, <2>10, <2>11, <2>12, <2>13, <2>14, <2>15, Zenon DEF ComponentStep
<1> QED  BY <1>1, <1>2

LEMMA SpentInit == Init => UsedInv /\ AnswerInv
<1> SUFFICES ASSUME Init  PROVE UsedInv /\ AnswerInv
  OBVIOUS
<1>0. AuthorizeInit /\ SamlInit /\ pc = [p \in Procs |-> "idle"]  BY Zenon DEF Init
<1>1. used = [n \in Nonces |-> 0] /\ \A p \in Procs : pc[p] = "idle"  BY <1>0 DEF AuthorizeInit
<1>2. /\ reqs = [r \in Requests |-> NoReq] /\ seen = [r \in Requests |-> NoEntry]
      /\ answers = [r \in Requests |-> 0] /\ first = [r \in Requests |-> None]
  BY <1>0, Zenon DEF SamlInit
<1>3. UsedOK /\ CallbackOK /\ ResumeOK  BY <1>1 DEF UsedOK, CallbackOK, ResumeOK, Resuming
<1> DEFINE v == [NoVal EXCEPT !.kind = "fa", !.a = User, !.x = FirstOf(FaApps)]
<1>4. v.kind = "fa" /\ v.ref = None  BY DEF NoVal
<1>5. kv = [n \in Nonces |-> IF n <= handed THEN Entry(v, clock + 1) ELSE NoEntry] /\ clock = 1  BY Zenon DEF Init
<1> HIDE DEF v
<1>6. Entry(v, clock + 1).val = v /\ NoEntry.exp = 0  BY DEF Entry, NoEntry
<1>7. ASSUME NEW n \in Nonces, NEW kind, Has(n, kind)  PROVE kv[n].val = v
  <2>1. kv[n] # NoEntry  BY <1>5, <1>6, <1>7 DEF Has, Found
  <2> QED  BY <1>5, <1>6, <2>1
<1>8. FaOK  BY <1>4, <1>7 DEF FaOK
<1>9. \A r : Claims(r) = {}
  <2>1. \A n \in Nonces : ~Has(n, "samlticket")  BY <1>4, <1>7 DEF Has
  <2> QED  BY <1>1, <2>1 DEF Claims, Resuming
<1>10. NoReq.at = 0  BY DEF NoReq
<1>11. \A r \in Requests : RequestOK(r)  BY <1>2, <1>9, <1>10 DEF RequestOK, Single
<1>12. \A p \in Procs : AskOK(p)  BY <1>1 DEF AskOK, Asking, Unasked
<1>13. SamlOK  BY <1>2 DEF SamlOK
<1> QED  BY <1>3, <1>8, <1>11, <1>12, <1>13 DEF UsedInv, AnswerInv

\* SpentOnce for every number of processes, entries and requests: whatever interleaves,
\* expires and is delivered again, a marker, ticket, state or code is turned into one
\* thing, a forward-auth session into the state of its own callback, and a SAML request
\* into one answer, but for the requests whose window outlasts their replay entry.
THEOREM AlwaysSpentOnce == Spec => []SpentOnce
<1>1. Init => FrameInv /\ NameInv /\ UsedInv /\ AnswerInv  BY FrameInit, NameInit, SpentInit
<1>2. FrameInv /\ NameInv /\ UsedInv /\ AnswerInv /\ [Next]_vars => (FrameInv /\ NameInv /\ UsedInv /\ AnswerInv)'
  BY FrameStep, NameStep, SpentStep
<1>3. FrameInv /\ NameInv /\ UsedInv /\ AnswerInv => SpentOnce
  <2> SUFFICES ASSUME UsedInv, AnswerInv  PROVE SpentOnce
    OBVIOUS
  <2>1. \A n \in Nonces : used[n] <= 1  BY DEF UsedInv, UsedOK
  <2>2. \A n \in Nonces : Has(n, "fa") => LET st == kv[n].val.ref IN st # None => st \in Nonces /\ used[st] = 1
    BY DEF UsedInv, FaOK
  <2>3. ASSUME NEW r \in Requests, answers[r] > 1  PROVE Excepted(r)
    BY <2>3 DEF AnswerInv, RequestOK, Single
  <2> QED  BY <2>1, <2>2, <2>3 DEF SpentOnce, Excepted
<1> QED  BY <1>1, <1>2, <1>3, PTL DEF Spec

-----------------------------------------------------------------------------
(***************************************************************************)
(* IssuedOnGrounds, for every instance of Applications.  A request is      *)
(* followed from the step that takes it on to its answer:                  *)
(*   - sessions, tokens, messages, demands and decisions keep what a       *)
(*     request read of them (SessOK, PatOK, ReqOK, DecInv, Carried);       *)
(*   - an entry of the store vouches for something: a marker for a demand, *)
(*     a code or a forward-auth session for an account, a ticket for a     *)
(*     message that may be answered (EntryInv);                            *)
(*   - at every label the grounds hold what the checks passed so far       *)
(*     established (GroundInv).                                            *)
(* The last two need each other: a ticket is stored by a request that      *)
(* passed its checks, and resumed by one that trusts it.                   *)
(***************************************************************************)
-----------------------------------------------------------------------------
(* Sessions                                                                  *)

\* The next session is one that was not used yet.
LEMMA LeastSid == FreshSids # {} => NextSid \in FreshSids
<1> SUFFICES ASSUME FreshSids # {}  PROVE NextSid \in FreshSids
  OBVIOUS
<1>1. FreshSids \subseteq Nat  BY DirectoryAssumption DEF FreshSids, Sids
<1>2. \E s \in FreshSids : \A t \in FreshSids : s <= t  BY <1>1, LeastNat
<1> QED  BY <1>2 DEF NextSid

SessFields == {"a", "live", "sudo", "at", "out"}
SessRow(r) == DOMAIN r = SessFields /\ r.at \in Nat /\ (r.live => r.a \in Accounts)
SessOK == DOMAIN sess = Sids /\ \A s \in Sids : SessRow(sess[s])

\* A session keeps its account and the time of its sign-in.
SessKept == \A s \in Sids : sess[s].a # None => sess'[s].a = sess[s].a /\ sess'[s].at = sess[s].at

LEMMA QuietSess ==
    ASSUME SessOK, UNCHANGED sess
    PROVE  SessOK' /\ SessKept
BY DEF SessOK, SessKept

LEMMA SignInSess ==
    ASSUME SessOK, clock \in Nat, NEW a \in Accounts, IssueSession(a)
    PROVE  SessOK' /\ SessKept
<1> DEFINE r == [a |-> a, live |-> TRUE, sudo |-> 0, at |-> clock, out |-> ~Enabled(a)]
<1>1. SessRow(r)  BY DEF SessRow, SessFields
<1>2. FreshSids # {} /\ (sess' = sess \/ sess' = [sess EXCEPT ![NextSid] = r])  BY DEF IssueSession, InsertSession
<1> HIDE DEF r
<1>3. NextSid \in Sids /\ sess[NextSid].a = None  BY <1>2, LeastSid DEF FreshSids
<1> QED  BY <1>1, <1>2, <1>3 DEF SessOK, SessKept

LEMMA RevokedSess ==
    ASSUME SessOK, NEW a, sess' \in {RevokedAll(a), Outlive(a)}
    PROVE  SessOK' /\ SessKept
<1>1. ASSUME NEW r, SessRow(r)
      PROVE  LET q == [r EXCEPT !.live = FALSE] o == [r EXCEPT !.out = TRUE]
             IN  SessRow(q) /\ SessRow(o) /\ q.a = r.a /\ o.a = r.a /\ q.at = r.at /\ o.at = r.at
  BY <1>1 DEF SessRow, SessFields
<1>2. ASSUME sess' = RevokedAll(a)  PROVE SessOK' /\ SessKept
  BY <1>1, <1>2 DEF SessOK, SessKept, RevokedAll
<1>3. ASSUME sess' = Outlive(a)  PROVE SessOK' /\ SessKept
  BY <1>1, <1>3 DEF SessOK, SessKept, Outlive
<1> QED  BY <1>2, <1>3

LEMMA LogoutSess ==
    ASSUME SessOK, NEW s, sess' = [sess EXCEPT ![s].live = FALSE]
    PROVE  SessOK' /\ SessKept
<1>1. ASSUME NEW r, SessRow(r)
      PROVE  LET q == [r EXCEPT !.live = FALSE] IN SessRow(q) /\ q.a = r.a /\ q.at = r.at
  BY <1>1 DEF SessRow, SessFields
<1> QED  BY <1>1 DEF SessOK, SessKept

\* Single logout is the one request that ends sessions.
LEMMA SamlSess ==
    ASSUME SessOK, SamlNext
    PROVE  SessOK' /\ SessKept
<1> USE DEF tables
<1>1. ASSUME NEW p \in Procs,
             \/ \E s, r, m : Sso(p, s, r, m)
             \/ \E s, x : SsoInit(p, s, x)
             \/ \E s, n : ConsentResume(p, s, n)
             \/ \E r : Slo(p, r)
      PROVE  UNCHANGED sess
  BY <1>1, Zenon DEF Sso, SsoInit, ConsentResume, Slo
<1>2. ASSUME NEW p \in Procs,
             \/ SsoRefused(p) \/ SsoLosesSession(p) \/ SsoFresh(p) \/ SsoConsume(p) \/ SsoIssues(p)
             \/ SsoReauthFails(p) \/ SsoAsks(p) \/ SsoInitDecide(p) \/ ResumeRecords(p) \/ ResumeIssues(p) \/ SloDone(p)
      PROVE  UNCHANGED sess
  BY <1>2, Zenon DEF SsoRefused, SsoLosesSession, SsoFresh, SsoConsume, SsoIssues, SsoReauthFails, SsoAsks,
     SsoInitDecide, ResumeRecords, ResumeIssues, SloDone
<1>3. ASSUME \/ \E r, kind, x, skew, pa, fo, a : SendRequest(r, kind, x, skew, pa, fo, a)
             \/ \E r : SsoNoSession(r) \/ SloAborts(r)
             \/ \E s, n : SamlDecline(s, n)
      PROVE  UNCHANGED sess
  BY <1>3, Zenon DEF SendRequest, SsoNoSession, SloAborts, SamlDecline
<1>4. ASSUME NEW p \in Procs, NEW s, NEW ok, SloRow(p, s, ok)
      PROVE  SessOK' /\ SessKept
  <2>1. UNCHANGED sess \/ sess' = [sess EXCEPT ![s].live = FALSE]  BY <1>4, Zenon DEF SloRow
  <2> QED  BY <2>1, QuietSess, LogoutSess
<1>5. CASE \E p \in Procs :
        \/ \E s \in Visits, r \in Requests, m \in Markers("samlreauth") : Sso(p, s, r, m)
        \/ SsoRefused(p) \/ SsoLosesSession(p) \/ SsoFresh(p) \/ SsoConsume(p) \/ SsoIssues(p)
        \/ SsoReauthFails(p) \/ SsoAsks(p)
        \/ \E s \in Visits, x \in SamlApps : SsoInit(p, s, x)
        \/ SsoInitDecide(p)
        \/ \E s \in Visits, n \in Nonces : ConsentResume(p, s, n)
        \/ ResumeRecords(p) \/ ResumeIssues(p)
        \/ \E r \in Requests : Slo(p, r)
        \/ \E s \in Sids, ok \in BOOLEAN : SloRow(p, s, ok)
        \/ SloDone(p)
  BY <1>1, <1>2, <1>4, <1>5, QuietSess, Zenon
<1> QED  BY <1>3, <1>5, QuietSess, Zenon DEF SamlNext

LEMMA SurroundingSess ==
    ASSUME SessOK, clock \in Nat, Surroundings
    PROVE  SessOK' /\ SessKept
<1>1. ASSUME NEW s, NEW a, DisableAccount(s, a) \/ DeleteAccount(s, a)  PROVE SessOK' /\ SessKept
  <2>1. sess' \in {RevokedAll(a), Outlive(a)}  BY <1>1, Zenon DEF DisableAccount, DeleteAccount
  <2> QED  BY <2>1, RevokedSess
<1>2. ASSUME NEW s, NEW i, DeleteIdp(s, i)  PROVE UNCHANGED sess
  BY <1>2, Zenon DEF DeleteIdp, ProviderDeleted
<1>3. ASSUME NEW s, Logout(s)  PROVE SessOK' /\ SessKept
  BY <1>3, LogoutSess, Zenon DEF Logout
<1>4. ASSUME NEW s, Relink(s)  PROVE UNCHANGED sess
  BY <1>4, Zenon DEF Relink
<1>5. ASSUME NEW a \in Accounts, SignIn(a)  PROVE SessOK' /\ SessKept
  BY <1>5, SignInSess, Zenon DEF SignIn
<1>6. ASSUME MaintenanceShows \/ Tick  PROVE UNCHANGED sess
  BY <1>6, Zenon DEF MaintenanceShows, Tick
<1> QED  BY <1>1, <1>2, <1>3, <1>4, <1>5, <1>6, QuietSess, Zenon DEF Surroundings

LEMMA SessStep ==
    ASSUME FrameInv, NameInv, SessOK, [Next]_vars
    PROVE  SessOK' /\ SessKept
<1>0. FrameOK /\ clock \in Nat  BY DEF FrameInv, NameInv, NameOK
<1> USE DEF tables
<1>1. CASE UNCHANGED vars
  <2>1. UNCHANGED sess  BY <1>1, Zenon DEF vars, directory
  <2> QED  BY <2>1, QuietSess
<1>2. CASE Next
  <2>1. ComponentStep  BY <1>0, <1>2, StepSplit
  <2>2. ASSUME UNCHANGED tables \/ UNCHANGED others \/ AuthorizeKept \/ ForwardAuthKept \/ CommandsKept
        PROVE  UNCHANGED sess
    BY <2>2, Zenon DEF others, AuthorizeKept, ForwardAuthKept, CommandsKept
  <2>3. ASSUME NEW p, \/ EvalManual(p) \/ ReplaceGroupsCommit(p) \/ (\E s, x, G : ReplaceGroups(p, s, x, G))
                      \/ Ends(p) \/ Deletes(p)
        PROVE  UNCHANGED sess
    BY <2>3, Zenon DEF EvalManual, ReplaceGroupsCommit, ReplaceGroups, Ends, Deletes, RowDeleted, others
  <2>4. CASE SamlNext  BY <2>4, SamlSess
  <2>5. CASE Surroundings  BY <1>0, <2>5, SurroundingSess
  <2>6. SamlNext \/ Surroundings \/ UNCHANGED sess  BY <2>1, <2>2, <2>3, Zenon DEF ComponentStep
  <2> QED  BY <2>4, <2>5, <2>6, QuietSess
<1> QED  BY <1>1, <1>2

-----------------------------------------------------------------------------
(* Tokens, messages and demands                                              *)

PatFields == {"a", "revoked", "access", "apps", "exp"}
PatRow(r) == DOMAIN r = PatFields /\ r.a \in Owners
PatOK == DOMAIN pats = Pats /\ \A t \in Pats : PatRow(pats[t])

LEMMA QuietPats ==
    ASSUME PatOK, UNCHANGED pats
    PROVE  PatOK'
BY DEF PatOK

LEMMA CallerHolds ==
    ASSUME SessOK, NEW s \in Sids, Caller(s)
    PROVE  sess[s].a \in Accounts /\ Enabled(sess[s].a) /\ ~MaintenanceLockout(sess[s].a) /\ sess[s].live
BY DEF SessOK, SessRow, Caller, Enabled

LEMMA ForwardAuthPats ==
    ASSUME SessOK, PatOK, ForwardAuthNext
    PROVE  PatOK'
<1> USE DEF faVars
<1>1. ASSUME NEW p \in Procs,
             \/ \E x, n : Verify(p, x, n)
             \/ VerifyDecide(p) \/ VerifyRenews(p) \/ VerifyDenied(p) \/ VerifyPatDecide(p)
             \/ \E st, c : Callback(p, st, c)
             \/ CallbackMints(p)
             \/ \E x, t : VerifyPat(p, x, t)
      PROVE  UNCHANGED pats
  BY <1>1, Zenon DEF Verify, VerifyDecide, VerifyRenews, VerifyDenied, VerifyPatDecide, Callback, CallbackMints, VerifyPat
<1>2. ASSUME (\E n : SignOut(n)) \/ \E x : VerifyRedirects(x)  PROVE UNCHANGED pats
  BY <1>2, Zenon DEF SignOut, VerifyRedirects
<1>3. ASSUME NEW s \in Visits, NEW t \in Pats, NEW access, NEW A, NEW b, CreateToken(s, t, access, A, b)  PROVE PatOK'
  <2> DEFINE r == [a |-> sess[s].a, revoked |-> FALSE, access |-> access, apps |-> A,
                   exp |-> IF b THEN clock + PatTTL ELSE None]
  <2>1. s \in Sids /\ Caller(s) /\ pats' = [pats EXCEPT ![t] = r]  BY <1>3, Zenon DEF CreateToken, Me, Visits
  <2>2. sess[s].a \in Owners  BY <2>1, CallerHolds DEF Owners
  <2>3. PatRow(r)  BY <2>2 DEF PatRow, PatFields
  <2> HIDE DEF r
  <2> QED  BY <2>1, <2>3 DEF PatOK
<1>4. ASSUME NEW s \in Sids, NEW t \in Pats, RevokeToken(s, t)  PROVE PatOK'
  <2>1. pats' = [pats EXCEPT ![t].revoked = TRUE]  BY <1>4, Zenon DEF RevokeToken
  <2> QED  BY <2>1 DEF PatOK, PatRow, PatFields
<1>5. CASE \E p \in Procs :
        \/ \E x \in FaApps, n \in Nonces : Verify(p, x, n)
        \/ VerifyDecide(p) \/ VerifyRenews(p) \/ VerifyDenied(p) \/ VerifyPatDecide(p)
        \/ \E st, c \in Nonces : c <= handed /\ Callback(p, st, c)
        \/ CallbackMints(p)
        \/ \E x \in FaApps, t \in Pats : VerifyPat(p, x, t)
  BY <1>1, <1>5, QuietPats, Zenon
<1> QED  BY <1>2, <1>3, <1>4, <1>5, QuietPats, Zenon DEF ForwardAuthNext

LEMMA DeletedPats ==
    ASSUME PatOK, NEW x, RowDeleted(x)
    PROVE  PatOK'
<1>1. pats' = [t \in Pats |-> [pats[t] EXCEPT !.apps = @ \ {x}]]  BY Zenon DEF RowDeleted
<1> QED  BY <1>1 DEF PatOK, PatRow, PatFields

LEMMA CommandPats ==
    ASSUME CommandsNext
    PROVE  UNCHANGED pats \/ \E x : RowDeleted(x)
<1> USE DEF commandVars, faVars, others
<1>1. ASSUME NEW p \in Procs,
             \/ \E x, G : ReplaceAppGroups(p, x, G)
             \/ \E x, g, a, e : FindBoundPolicyGroup(p, x, g, a, e)
             \/ \E x, sc : ClientCreate(p, x, sc) \/ ClientUpdate(p, x, sc)
             \/ SelectGroups(p) \/ DecisionSet(p)
             \/ \E b, c : ClientReplace(p, b, c)
             \/ \E b : ClientInsert(p, b)
      PROVE  UNCHANGED pats
  BY <1>1, Zenon DEF ReplaceAppGroups, FindBoundPolicyGroup, ClientCreate, ClientUpdate, SelectGroups, DecisionSet,
     ClientReplace, ClientInsert
<1>2. ASSUME NEW p \in Procs,
             \/ \E i, m, b : ProviderCreate(p, i, m, b) \/ ProviderUpdate(p, i, m, b)
             \/ ProviderReplace(p)
             \/ \E b : ProviderSeal(p, b) \/ KeyGenerate(p, b)
             \/ \E k : KeyInsert(p, k) \/ KeyRetire(p, k)
             \/ KeyActivate(p) \/ KeyRetired(p)
      PROVE  UNCHANGED pats
  BY <1>2, Zenon DEF ProviderCreate, ProviderUpdate, ProviderReplace, ProviderSeal, KeyGenerate, KeyInsert, KeyRetire,
     KeyActivate, KeyRetired
<1>3. ASSUME NEW x,
             \/ \E b : AccessSetRestricted(x, b) \/ SpCreate(x, b) \/ SpUpdate(x, b)
             \/ \E a : ManagerAssign(x, a) \/ ManagerRemove(x, a)
             \/ ForwardAuthCreate(x)
      PROVE  UNCHANGED pats
  BY <1>3, Zenon DEF AccessSetRestricted, SpCreate, SpUpdate, ManagerAssign, ManagerRemove, ForwardAuthCreate
<1>4. ASSUME \E i : ProviderDelete(i)  PROVE UNCHANGED pats
  BY <1>4, Zenon DEF ProviderDelete, ProviderDeleted
<1>5. ASSUME \E x : ClientDelete(x) \/ SpDelete(x)  PROVE \E x : RowDeleted(x)
  BY <1>5, Zenon DEF ClientDelete, SpDelete, DeleteOIDCClient, DeleteSAMLSP
<1>6. CASE \E p \in Procs :
           \/ \E x \in Apps :
               \/ \E G \in SUBSET Groups : ReplaceAppGroups(p, x, G)
               \/ \E g \in Groups, a \in Accounts, e \in {"allow", "deny", "none"} :
                      FindBoundPolicyGroup(p, x, g, a, e)
           \/ SelectGroups(p) \/ DecisionSet(p)
           \/ \E sc \in SUBSET Scopes :
               \/ \E x \in OidcApps : ClientCreate(p, x, sc)
               \/ \E x \in OidcApps \cup FaApps : ClientUpdate(p, x, sc)
           \/ \E b, c \in BOOLEAN : ClientReplace(p, b, c)
           \/ \E b \in BOOLEAN : ClientInsert(p, b) \/ ProviderSeal(p, b) \/ KeyGenerate(p, b)
           \/ \E i \in Idps, m \in Modes :
               \/ \E b \in BOOLEAN : ProviderCreate(p, i, m, b)
               \/ \E b \in BOOLEAN \cup {None} : ProviderUpdate(p, i, m, b)
           \/ ProviderReplace(p)
           \/ \E k \in Kids : KeyInsert(p, k) \/ KeyRetire(p, k)
           \/ KeyActivate(p) \/ KeyRetired(p)
  BY <1>1, <1>2, <1>6, Zenon
<1> QED  BY <1>3, <1>4, <1>5, <1>6, Zenon DEF CommandsNext

LEMMA PatStep ==
    ASSUME FrameInv, SessOK, PatOK, [Next]_vars
    PROVE  PatOK'
<1>0. FrameOK  BY DEF FrameInv
<1> USE DEF faVars, policyRest, others
<1>1. CASE UNCHANGED vars
  <2>1. UNCHANGED pats  BY <1>1, Zenon DEF vars
  <2> QED  BY <2>1, QuietPats
<1>2. CASE Next
  <2>1. ComponentStep  BY <1>0, <1>2, StepSplit
  <2>2. ASSUME Surroundings  PROVE PatOK'
    <3>1. ASSUME NEW s, NEW a, DeleteAccount(s, a)  PROVE PatOK'
      <4>1. pats' = [t \in Pats |-> IF pats[t].a = a THEN [pats[t] EXCEPT !.revoked = TRUE] ELSE pats[t]]
        BY <3>1, Zenon DEF DeleteAccount
      <4> QED  BY <4>1 DEF PatOK, PatRow, PatFields
    <3>2. ASSUME NEW s, (\E a : DisableAccount(s, a)) \/ (\E i : DeleteIdp(s, i)) \/ Relink(s) \/ Logout(s)
          PROVE  UNCHANGED pats
      BY <3>2, Zenon DEF DisableAccount, DeleteIdp, ProviderDeleted, Relink, Logout
    <3>3. ASSUME Tick \/ MaintenanceShows \/ \E a : SignIn(a)  PROVE UNCHANGED pats  BY <3>3, Zenon DEF Tick, MaintenanceShows, SignIn
    <3> QED  BY <2>2, <3>1, <3>2, <3>3, QuietPats, Zenon DEF Surroundings
  <2>3. ASSUME NEW p, Ends(p) \/ Deletes(p)  PROVE UNCHANGED pats \/ \E x : RowDeleted(x)
    BY <2>3, Zenon DEF Ends, Deletes
  <2>4. \/ UNCHANGED pats \/ ForwardAuthNext \/ Surroundings \/ \E x : RowDeleted(x)
    BY <2>1, <2>3, CommandPats, Zenon DEF ComponentStep
  <2> QED  BY <2>2, <2>4, QuietPats, ForwardAuthPats, DeletedPats
<1> QED  BY <1>1, <1>2

\* The messages of service providers: each is sent once, and stays as it is.
ReqOK == DOMAIN reqs = Requests /\ \A r \in Requests : reqs[r].kind # "none" => reqs[r].x \in SamlApps
ReqKept == \A r \in Requests : reqs[r].kind # "none" => reqs'[r] = reqs[r]

LEMMA QuietReqs ==
    ASSUME ReqOK, UNCHANGED reqs
    PROVE  ReqOK' /\ ReqKept
BY DEF ReqOK, ReqKept

LEMMA SamlReqs ==
    ASSUME ReqOK, SamlNext
    PROVE  ReqOK' /\ ReqKept
<1> USE DEF samlVars
<1>1. ASSUME NEW p \in Procs,
             \/ \E s, r, m : Sso(p, s, r, m)
             \/ \E s, x : SsoInit(p, s, x)
             \/ \E s, n : ConsentResume(p, s, n)
             \/ \E r : Slo(p, r)
             \/ \E s, ok : SloRow(p, s, ok)
      PROVE  UNCHANGED reqs
  BY <1>1, Zenon DEF Sso, SsoInit, ConsentResume, Slo, SloRow
<1>2. ASSUME NEW p \in Procs,
             \/ SsoRefused(p) \/ SsoLosesSession(p) \/ SsoFresh(p) \/ SsoConsume(p) \/ SsoIssues(p)
             \/ SsoReauthFails(p) \/ SsoAsks(p) \/ SsoInitDecide(p) \/ ResumeRecords(p) \/ ResumeIssues(p) \/ SloDone(p)
      PROVE  UNCHANGED reqs
  BY <1>2, Zenon DEF SsoRefused, SsoLosesSession, SsoFresh, SsoConsume, SsoIssues, SsoReauthFails, SsoAsks,
     SsoInitDecide, ResumeRecords, ResumeIssues, SloDone
<1>3. ASSUME (\E r : SsoNoSession(r) \/ SloAborts(r)) \/ \E s, n : SamlDecline(s, n)  PROVE UNCHANGED reqs
  BY <1>3, Zenon DEF SsoNoSession, SloAborts, SamlDecline
<1>4. ASSUME NEW r \in Requests, NEW kind, NEW x \in SamlApps, NEW skew, NEW pa, NEW fo, NEW a,
             SendRequest(r, kind, x, skew, pa, fo, a)
      PROVE  ReqOK' /\ ReqKept
  <2> DEFINE v == [kind |-> kind, x |-> x, passive |-> pa, force |-> fo, a |-> a,
                   at |-> IF skew = None THEN None ELSE clock + skew]
  <2>1. reqs[r].kind = "none" /\ reqs' = [reqs EXCEPT ![r] = v]  BY <1>4, Zenon DEF SendRequest
  <2>2. v.x = x  OBVIOUS
  <2> HIDE DEF v
  <2> QED  BY <2>1, <2>2 DEF ReqOK, ReqKept
<1>5. CASE \E p \in Procs :
        \/ \E s \in Visits, r \in Requests, m \in Markers("samlreauth") : Sso(p, s, r, m)
        \/ SsoRefused(p) \/ SsoLosesSession(p) \/ SsoFresh(p) \/ SsoConsume(p) \/ SsoIssues(p)
        \/ SsoReauthFails(p) \/ SsoAsks(p)
        \/ \E s \in Visits, x \in SamlApps : SsoInit(p, s, x)
        \/ SsoInitDecide(p)
        \/ \E s \in Visits, n \in Nonces : ConsentResume(p, s, n)
        \/ ResumeRecords(p) \/ ResumeIssues(p)
        \/ \E r \in Requests : Slo(p, r)
        \/ \E s \in Sids, ok \in BOOLEAN : SloRow(p, s, ok)
        \/ SloDone(p)
  BY <1>1, <1>2, <1>5, QuietReqs, Zenon
<1>6. ASSUME NEW r \in Requests, NEW x \in SamlApps, NEW skew \in Skews,
             \/ \E pa \in BOOLEAN : \E fo \in {FALSE} \cup (IF "force" \in ops THEN {TRUE} ELSE {}) :
                    SendRequest(r, "authn", x, skew, pa, fo, None)
             \/ \E a \in Accounts : SendRequest(r, "logout", x, skew, FALSE, FALSE, a)
      PROVE  ReqOK' /\ ReqKept
  BY <1>4, <1>6, Zenon
<1> QED  BY <1>3, <1>5, <1>6, QuietReqs, Zenon DEF SamlNext

\* What was demanded of an account remains.
LEMMA Demanded ==
    ASSUME FrameInv, [Next]_vars
    PROVE  demanded \subseteq demanded'
<1>0. FrameOK  BY DEF FrameInv
<1> USE DEF authorizeVars, authorizeHistory, policyRest, others
<1>1. CASE UNCHANGED vars  BY <1>1, Zenon DEF vars
<1>2. CASE Next
  <2>1. ComponentStep  BY <1>0, <1>2, StepSplit
  <2>2. ASSUME NEW kind, NEW a, NEW store, DemandReauth(kind, a, store)  PROVE demanded \subseteq demanded'
    BY <2>2 DEF DemandReauth
  <2>3. ASSUME AuthorizeNext  PROVE demanded \subseteq demanded'
    <3>1. ASSUME NEW p, AuthorizeReauthFails(p)  PROVE demanded \subseteq demanded'
      BY <2>2, <3>1, Zenon DEF AuthorizeReauthFails
    <3>2. ASSUME NEW p,
             \/ \E s, x, sc, prompt, age, m, ref : Authorize(p, s, x, sc, prompt, age, m, ref)
             \/ \E s, x, P : RequireIdentity(p, s, x, P)
             \/ \E s, n, b : ConsentDecision(p, s, n, b)
             \/ AuthorizeDenied(p) \/ AuthorizeFresh(p) \/ AuthorizeReauthed(p) \/ ConsentApproved(p)
             \/ AuthorizeAsks(p) \/ AuthorizeMints(p) \/ RequireIdentityDecide(p)
          PROVE  UNCHANGED demanded
      BY <3>2, Zenon DEF Authorize, RequireIdentity, ConsentDecision, AuthorizeDenied, AuthorizeFresh, AuthorizeReauthed,
         ConsentApproved, AuthorizeAsks, AuthorizeMints, RequireIdentityDecide
    <3>3. ASSUME NEW s, NEW x, RevokeConsent(s, x) \/ \E P : RequireIdentityMismatch(s, x, P)  PROVE UNCHANGED demanded
      BY <3>3, Zenon DEF RevokeConsent, RequireIdentityMismatch
    <3> QED  BY <2>3, <3>1, <3>2, <3>3, Zenon DEF AuthorizeNext
  <2>4. ASSUME SamlNext  PROVE demanded \subseteq demanded'
    <3>1. ASSUME NEW p, SsoReauthFails(p)  PROVE demanded \subseteq demanded'
      BY <2>2, <3>1, Zenon DEF SsoReauthFails
    <3>2. ASSUME NEW p,
             \/ \E s, r, m : Sso(p, s, r, m)
             \/ \E s, x : SsoInit(p, s, x)
             \/ \E s, n : ConsentResume(p, s, n)
             \/ \E r : Slo(p, r)
             \/ \E s, ok : SloRow(p, s, ok)
             \/ SsoRefused(p) \/ SsoLosesSession(p) \/ SsoFresh(p)
          PROVE  UNCHANGED demanded
      BY <3>2, Zenon DEF Sso, SsoInit, ConsentResume, Slo, SloRow, SsoRefused, SsoLosesSession, SsoFresh
    <3>3. ASSUME NEW p,
             \/ SsoConsume(p) \/ SsoIssues(p)
             \/ SsoAsks(p) \/ SsoInitDecide(p) \/ ResumeRecords(p) \/ ResumeIssues(p) \/ SloDone(p)
          PROVE  UNCHANGED demanded
      BY <3>3, Zenon DEF SsoConsume, SsoIssues, SsoAsks, SsoInitDecide, ResumeRecords, ResumeIssues, SloDone
    <3>4. ASSUME \/ \E r, kind, x, skew, pa, fo, a : SendRequest(r, kind, x, skew, pa, fo, a)
                 \/ \E r : SsoNoSession(r) \/ SloAborts(r)
                 \/ \E s, n : SamlDecline(s, n)
          PROVE  UNCHANGED demanded
      BY <3>4, Zenon DEF SendRequest, SsoNoSession, SloAborts, SamlDecline
    <3>5. CASE \E p \in Procs :
            \/ \E s \in Visits, r \in Requests, m \in Markers("samlreauth") : Sso(p, s, r, m)
            \/ SsoRefused(p) \/ SsoLosesSession(p) \/ SsoFresh(p) \/ SsoConsume(p) \/ SsoIssues(p)
            \/ SsoReauthFails(p) \/ SsoAsks(p)
            \/ \E s \in Visits, x \in SamlApps : SsoInit(p, s, x)
            \/ SsoInitDecide(p)
            \/ \E s \in Visits, n \in Nonces : ConsentResume(p, s, n)
            \/ ResumeRecords(p) \/ ResumeIssues(p)
            \/ \E r \in Requests : Slo(p, r)
            \/ \E s \in Sids, ok \in BOOLEAN : SloRow(p, s, ok)
            \/ SloDone(p)
      BY <3>1, <3>2, <3>3, <3>5, Zenon
    <3> QED  BY <2>4, <3>4, <3>5, Zenon DEF SamlNext
  <2>5. ASSUME NEW p, Ends(p) \/ Deletes(p)  PROVE UNCHANGED demanded
    BY <2>5, Zenon DEF Ends, Deletes, RowDeleted
  <2>6. AuthorizeNext \/ SamlNext \/ UNCHANGED demanded
    BY <2>1, <2>5, Zenon DEF ComponentStep, ForwardAuthKept, CommandsKept, SurroundingsKept
  <2> QED  BY <2>3, <2>4, <2>6
<1> QED  BY <1>1, <1>2

LEMMA ReqStep ==
    ASSUME FrameInv, ReqOK, [Next]_vars
    PROVE  ReqOK' /\ ReqKept
<1>0. FrameOK  BY DEF FrameInv
<1> USE DEF samlVars, policyRest, others
<1>1. CASE UNCHANGED vars
  <2>1. UNCHANGED reqs  BY <1>1, Zenon DEF vars
  <2> QED  BY <2>1, QuietReqs
<1>2. CASE Next
  <2>1. ComponentStep  BY <1>0, <1>2, StepSplit
  <2>2. ASSUME NEW p, Ends(p) \/ Deletes(p)  PROVE UNCHANGED reqs
    BY <2>2, Zenon DEF Ends, Deletes, RowDeleted
  <2>3. SamlNext \/ UNCHANGED reqs
    BY <2>1, <2>2, Zenon DEF ComponentStep, ForwardAuthKept, CommandsKept, SurroundingsKept
  <2> QED  BY <2>3, QuietReqs, SamlReqs
<1> QED  BY <1>1, <1>2

-----------------------------------------------------------------------------
(* Decisions                                                                 *)

\* A decision is one of a manual group.
GroupRow(r) == DOMAIN r = {"kind", "rule"}
DecOK ==
    /\ DOMAIN groups = Groups /\ \A g \in Groups : GroupRow(groups[g])
    /\ DOMAIN dec = Groups \X Accounts
    /\ \A g \in Groups, a \in Accounts :
          dec[<<g, a>>] \in Effects /\ (dec[<<g, a>>] # "none" => groups[g].kind = "manual")

\* What a command is about to write is a decision.
DecideOK == \A p \in Procs : pc[p] = "decide" => loc[p].val \in Effects

DecInv == DecOK /\ DecideOK

LEMMA QuietDec ==
    ASSUME DecOK, UNCHANGED <<groups, dec>>
    PROVE  DecOK'
BY DEF DecOK

LEMMA OneDecision ==
    ASSUME DecOK, NEW g, NEW a, NEW e \in Effects, groups[g].kind = "manual",
           dec' = [dec EXCEPT ![<<g, a>>] = e], UNCHANGED groups
    PROVE  DecOK'
<1>1. ASSUME NEW h \in Groups, NEW b \in Accounts
      PROVE  dec'[<<h, b>>] = dec[<<h, b>>] \/ (h = g /\ dec'[<<h, b>>] = e)
  BY DEF DecOK
<1>2. DOMAIN dec' = Groups \X Accounts  BY DEF DecOK
<1> QED  BY <1>1, <1>2 DEF DecOK

LEMMA PolicyDec ==
    ASSUME DecOK, PolicyRest
    PROVE  DecOK'
<1> USE DEF policyVars
<1>1. ASSUME NEW s, NEW g \in Groups, NEW kind, NEW c, CreateGroup(s, g, kind, c)  PROVE DecOK'
  <2> DEFINE v == [kind |-> kind, rule |-> IF kind = "rule" THEN c ELSE None]
  <2>1. groups[g].kind = "none" /\ groups' = [groups EXCEPT ![g] = v] /\ UNCHANGED dec
    BY <1>1, Zenon DEF CreateGroup, CreateGlobalGroup
  <2>2. GroupRow(v)  BY DEF GroupRow
  <2> HIDE DEF v
  <2>3. \A h \in Groups : groups'[h] = groups[h] \/ (h = g /\ groups'[h] = v)  BY <2>1 DEF DecOK
  <2> QED  BY <2>1, <2>2, <2>3 DEF DecOK
<1>2. ASSUME NEW s, NEW g, DeleteGroup(s, g)  PROVE DecOK'
  <2> DEFINE v == [kind |-> "gone", rule |-> None]
  <2>1. /\ groups' = [groups EXCEPT ![g] = v]
        /\ dec' = [y \in Groups \X Accounts |-> IF y[1] = g THEN "none" ELSE dec[y]]
    BY <1>2, Zenon DEF DeleteGroup, DeleteGlobalGroup
  <2>2. GroupRow(v)  BY DEF GroupRow
  <2> HIDE DEF v
  <2>3. \A h \in Groups : groups'[h] = groups[h] \/ (h = g /\ groups'[h] = v)  BY <2>1 DEF DecOK
  <2>4. \A h \in Groups, a \in Accounts : dec'[<<h, a>>] = IF h = g THEN "none" ELSE dec[<<h, a>>]  BY <2>1
  <2> QED  BY <2>1, <2>2, <2>3, <2>4 DEF DecOK, Effects
<1>3. ASSUME NEW s, NEW g, NEW a, NEW e \in {"allow", "deny"}, UpsertDecision(s, g, a, e)  PROVE DecOK'
  <2>1. groups[g].kind = "manual" /\ dec' = [dec EXCEPT ![<<g, a>>] = e] /\ UNCHANGED groups
    BY <1>3, Zenon DEF UpsertDecision, RequireGlobalGroupKind, UpsertManualDecision
  <2> QED  BY <2>1, OneDecision DEF Effects
<1>4. ASSUME NEW s, NEW g, NEW a, ClearDecision(s, g, a)  PROVE DecOK'
  <2>1. groups[g].kind = "manual" /\ dec' = [dec EXCEPT ![<<g, a>>] = "none"] /\ UNCHANGED groups
    BY <1>4, Zenon DEF ClearDecision, RequireGlobalGroupKind, ClearManualDecision
  <2> QED  BY <2>1, OneDecision DEF Effects
<1>5. ASSUME NEW s, NEW x, \/ \E a : AssignManager(s, x, a) \/ RemoveManager(s, x, a)
                           \/ \E r : CreateForwardAuthApp(s, x, r)
                           \/ \E r, c : CreateSAMLApplication(s, x, r, c)
      PROVE  UNCHANGED <<groups, dec>>
  BY <1>5, Zenon DEF AssignManager, RemoveManager, CreateForwardAuthApp, CreateSAMLApplication
<1>6. ASSUME NEW p, UpdateGroupWrite(p)  PROVE DecOK'
  <2>1. PICK g : UNCHANGED dec /\ (UNCHANGED groups \/ groups' = [groups EXCEPT ![g].rule = loc[p].val])
    BY <1>6, Zenon DEF UpdateGroupWrite
  <2>2. \A h \in Groups : GroupRow(groups[h]) => GroupRow(groups'[h]) /\ groups'[h].kind = groups[h].kind
    BY <2>1 DEF DecOK, GroupRow
  <2> QED  BY <2>1, <2>2 DEF DecOK
<1>7. ASSUME NEW p,
             \/ \E s, g, c : UpdateGroupRead(p, s, g, c)
             \/ \E s, x, op, sc : ManageApp(p, s, x, op, sc)
             \/ \E s, x, sc : CreateOIDCApplication(p, s, x, sc)
             \/ \E b, c : InsertOIDCClient(p, b, c) \/ UpdateOIDCApplication(p, b, c)
             \/ \E b : \/ SetRestricted(p, b) \/ SetOIDCApplicationDisabled(p, b)
                       \/ SetSAMLApplicationDisabled(p, b) \/ SetForwardAuthAppDisabled(p, b)
                       \/ UpdateSAMLApplication(p, b)
      PROVE  UNCHANGED <<groups, dec>>
  BY <1>7, Zenon DEF UpdateGroupRead, ManageApp, CreateOIDCApplication, InsertOIDCClient, UpdateOIDCApplication,
     SetRestricted, SetOIDCApplicationDisabled, SetSAMLApplicationDisabled, SetForwardAuthAppDisabled,
     UpdateSAMLApplication, Managed
<1>8. CASE \E s \in Sids :
        \/ \E g \in Groups :
            \/ \E c \in Conditions : CreateGroup(s, g, "rule", c)
            \/ CreateGroup(s, g, "manual", None)
            \/ DeleteGroup(s, g)
            \/ \E a \in Accounts :
                \/ \E e \in {"allow", "deny"} : UpsertDecision(s, g, a, e)
                \/ ClearDecision(s, g, a)
        \/ \E x \in Apps :
            \/ \E a \in Accounts : AssignManager(s, x, a) \/ RemoveManager(s, x, a)
            \/ \E r \in BOOLEAN :
                \/ x \in FaApps /\ CreateForwardAuthApp(s, x, r)
                \/ x \in SamlApps /\ \E c \in BOOLEAN : CreateSAMLApplication(s, x, r, c)
  BY <1>1, <1>2, <1>3, <1>4, <1>5, <1>8, QuietDec, Zenon
<1> QED  BY <1>6, <1>7, <1>8, QuietDec, Zenon DEF PolicyRest

LEMMA CommandDec ==
    ASSUME DecInv, CommandsNext
    PROVE  DecOK'
<1> USE DEF others, policyVars
<1>1. ASSUME NEW p \in Procs, DecisionSet(p)  PROVE DecOK'
  <2>1. /\ loc[p].val \in Effects /\ UNCHANGED groups
        /\ \/ UNCHANGED dec
           \/ groups[loc[p].g].kind = "manual" /\ dec' = [dec EXCEPT ![<<loc[p].g, loc[p].a>>] = loc[p].val]
    BY <1>1, Zenon DEF DecInv, DecideOK, DecisionSet, UpsertManualDecision
  <2> QED  BY <2>1, OneDecision, QuietDec DEF DecInv
<1>2. ASSUME NEW p \in Procs,
             \/ \E x, G : ReplaceAppGroups(p, x, G)
             \/ \E x, g, a, e : FindBoundPolicyGroup(p, x, g, a, e)
             \/ \E x, sc : ClientCreate(p, x, sc) \/ ClientUpdate(p, x, sc)
             \/ SelectGroups(p)
             \/ \E b, c : ClientReplace(p, b, c)
             \/ \E b : ClientInsert(p, b)
      PROVE  UNCHANGED <<groups, dec>>
  BY <1>2, Zenon DEF ReplaceAppGroups, FindBoundPolicyGroup, ClientCreate, ClientUpdate, SelectGroups,
     ClientReplace, ClientInsert, InsertOIDCClient, Managed
<1>3. ASSUME NEW p \in Procs,
             \/ \E i, m, b : ProviderCreate(p, i, m, b) \/ ProviderUpdate(p, i, m, b)
             \/ ProviderReplace(p)
             \/ \E b : ProviderSeal(p, b) \/ KeyGenerate(p, b)
             \/ \E k : KeyInsert(p, k) \/ KeyRetire(p, k)
             \/ KeyActivate(p) \/ KeyRetired(p)
      PROVE  UNCHANGED <<groups, dec>>
  BY <1>3, Zenon DEF ProviderCreate, ProviderUpdate, ProviderReplace, ProviderSeal, KeyGenerate, KeyInsert, KeyRetire,
     KeyActivate, KeyRetired
<1>4. ASSUME NEW x,
             \/ \E b : AccessSetRestricted(x, b) \/ SpCreate(x, b) \/ SpUpdate(x, b)
             \/ \E a : ManagerAssign(x, a) \/ ManagerRemove(x, a)
             \/ ForwardAuthCreate(x) \/ ClientDelete(x) \/ SpDelete(x)
      PROVE  UNCHANGED <<groups, dec>>
  BY <1>4, Zenon DEF AccessSetRestricted, SpCreate, SpUpdate, ManagerAssign, ManagerRemove, ForwardAuthCreate,
     ClientDelete, SpDelete, DeleteOIDCClient, DeleteSAMLSP, RowDeleted
<1>5. ASSUME \E i : ProviderDelete(i)  PROVE UNCHANGED <<groups, dec>>
  BY <1>5, Zenon DEF ProviderDelete, ProviderDeleted
<1>6. CASE \E p \in Procs :
           \/ \E x \in Apps :
               \/ \E G \in SUBSET Groups : ReplaceAppGroups(p, x, G)
               \/ \E g \in Groups, a \in Accounts, e \in {"allow", "deny", "none"} :
                      FindBoundPolicyGroup(p, x, g, a, e)
           \/ SelectGroups(p) \/ DecisionSet(p)
           \/ \E sc \in SUBSET Scopes :
               \/ \E x \in OidcApps : ClientCreate(p, x, sc)
               \/ \E x \in OidcApps \cup FaApps : ClientUpdate(p, x, sc)
           \/ \E b, c \in BOOLEAN : ClientReplace(p, b, c)
           \/ \E b \in BOOLEAN : ClientInsert(p, b) \/ ProviderSeal(p, b) \/ KeyGenerate(p, b)
           \/ \E i \in Idps, m \in Modes :
               \/ \E b \in BOOLEAN : ProviderCreate(p, i, m, b)
               \/ \E b \in BOOLEAN \cup {None} : ProviderUpdate(p, i, m, b)
           \/ ProviderReplace(p)
           \/ \E k \in Kids : KeyInsert(p, k) \/ KeyRetire(p, k)
           \/ KeyActivate(p) \/ KeyRetired(p)
  BY <1>1, <1>2, <1>3, <1>6, QuietDec, Zenon DEF DecInv
<1> QED  BY <1>4, <1>5, <1>6, QuietDec, Zenon DEF CommandsNext, DecInv

LEMMA SurroundingDec ==
    ASSUME DecOK, Surroundings
    PROVE  DecOK'
<1> USE DEF policyVars
<1>1. ASSUME NEW s, NEW a, DeleteAccount(s, a)  PROVE DecOK'
  <2>1. UNCHANGED groups /\ dec' = [y \in Groups \X Accounts |-> IF y[2] = a THEN "none" ELSE dec[y]]
    BY <1>1, Zenon DEF DeleteAccount
  <2>2. \A h \in Groups, b \in Accounts : dec'[<<h, b>>] = IF b = a THEN "none" ELSE dec[<<h, b>>]  BY <2>1
  <2> QED  BY <2>1, <2>2 DEF DecOK, Effects
<1>2. ASSUME NEW s, (\E a : DisableAccount(s, a)) \/ (\E i : DeleteIdp(s, i)) \/ Relink(s) \/ Logout(s)
      PROVE  UNCHANGED <<groups, dec>>
  BY <1>2, Zenon DEF DisableAccount, DeleteIdp, ProviderDeleted, Relink, Logout
<1>3. ASSUME Tick \/ MaintenanceShows \/ \E a : SignIn(a)  PROVE UNCHANGED <<groups, dec>>
  BY <1>3, Zenon DEF Tick, MaintenanceShows, SignIn
<1> QED  BY <1>1, <1>2, <1>3, QuietDec, Zenon DEF Surroundings

LEMMA DecStep ==
    ASSUME FrameInv, DecInv, [Next]_vars
    PROVE  DecInv'
<1>0. FrameOK /\ DecOK  BY DEF FrameInv, DecInv
<1>d. ASSUME \A q \in Procs : pc'[q] = "decide" => pc[q] = "decide" /\ loc'[q] = loc[q]  PROVE DecideOK'
  BY <1>d DEF DecInv, DecideOK
<1>1. CASE UNCHANGED vars
  <2>1. UNCHANGED <<groups, dec>> /\ UNCHANGED <<pc, loc>>  BY <1>1, Zenon DEF vars, policyVars, directory, frame
  <2> QED  BY <1>0, <1>d, <2>1, QuietDec DEF DecInv
<1>2. CASE Next
  <2>1. ComponentStep  BY <1>0, <1>2, StepSplit
  <2>2. DecOK'
    <3>1. ASSUME NEW p, \/ EvalManual(p) \/ ReplaceGroupsCommit(p) \/ (\E s, x, G : ReplaceGroups(p, s, x, G))
                        \/ Ends(p) \/ Deletes(p)
          PROVE  UNCHANGED <<groups, dec>>
      BY <3>1, Zenon DEF EvalManual, ReplaceGroupsCommit, ReplaceGroups, Ends, Deletes, RowDeleted, others, policyVars
    <3>2. ASSUME AuthorizeKept \/ SamlKept \/ ForwardAuthKept \/ UNCHANGED others  PROVE UNCHANGED <<groups, dec>>
      BY <3>2, Zenon DEF AuthorizeKept, SamlKept, ForwardAuthKept, others, policyVars
    <3>3. UNCHANGED <<groups, dec>> \/ PolicyRest \/ CommandsNext \/ Surroundings
      BY <2>1, <3>1, <3>2, Zenon DEF ComponentStep
    <3> QED  BY <1>0, <3>3, QuietDec, PolicyDec, CommandDec, SurroundingDec
  <2>3. DecideOK'
    <3>1. ASSUME NEW L, Moves(L), "decide" \notin L  PROVE DecideOK'  BY <1>d, <3>1 DEF Moves
    <3>2. /\ "decide" \notin PolicyAt /\ "decide" \notin AuthorizeAt /\ "decide" \notin SamlAt
          /\ "decide" \notin ForwardAuthAt /\ "decide" \notin KeysAt
      BY DEF PolicyAt, AuthorizeAt, SamlAt, ForwardAuthAt, KeysAt
    <3>3. ASSUME NEW O, Begun(O)  PROVE DecideOK'
      <4>1. PICK p \in Procs : \E x, a, l : Begin(p, x, a, l)  BY <3>3 DEF Begun
      <4>2. pc'[p] = "evManual" /\ \A q \in Procs \ {p} : pc'[q] = pc[q] /\ loc'[q] = loc[q]
        BY <1>0, <4>1, BeginFacts
      <4> QED  BY <1>d, <4>2
    <3>4. ASSUME NEW p \in Procs, Finish(p)  PROVE DecideOK'
      <4>1. pc'[p] = "idle" /\ \A q \in Procs \ {p} : pc'[q] = pc[q] /\ loc'[q] = loc[q]  BY <1>0, <3>4, FinishFacts
      <4> QED  BY <1>d, <4>1
    <3>5. ASSUME NEW p \in Procs, EvalManual(p)  PROVE DecideOK'
      <4>1. pc'[p] \in Decisions /\ \A q \in Procs \ {p} : pc'[q] = pc[q] /\ loc'[q] = loc[q]  BY <3>5, EvalManualFacts
      <4> QED  BY <1>d, <4>1 DEF Decisions
    <3>6. ASSUME NEW p \in Procs, \E s, x, G : ReplaceGroups(p, s, x, G)  PROVE DecideOK'
      <4>1. pc'[p] = "replace" /\ \A q \in Procs \ {p} : pc'[q] = pc[q] /\ loc'[q] = loc[q]  BY <1>0, <3>6, ReplaceFacts
      <4> QED  BY <1>d, <4>1
    <3>7. ASSUME CommandsNext  PROVE DecideOK'
      <4>1. \A q \in Procs : HoldMoves(q)  BY <1>0, <3>7, CommandHolds
      <4> QED  BY <4>1 DEF HoldMoves, DecInv, DecideOK
    <3>8. ASSUME SurroundingsKept  PROVE DecideOK'
      <4>1. UNCHANGED <<pc, loc>>  BY <3>8, Zenon DEF SurroundingsKept, frame
      <4> QED  BY <1>d, <4>1
    <3>9. ASSUME NEW p \in Procs, ReplaceGroupsCommit(p) \/ Ends(p) \/ Deletes(p)  PROVE Finish(p)
      BY <3>9, Zenon DEF ReplaceGroupsCommit, Ends, Deletes
    <3> QED  BY <2>1, <3>1, <3>2, <3>3, <3>4, <3>5, <3>6, <3>7, <3>8, <3>9, Zenon DEF ComponentStep
  <2> QED  BY <2>2, <2>3 DEF DecInv
<1> QED  BY <1>1, <1>2

-----------------------------------------------------------------------------
(* What entries vouch for                                                    *)

\* The tables S (sessions), R (messages) and D (demands) are parameters.

\* Account a was asked to sign in again, and did, in session s.
Renewed(a, s, S, D) == S[s].a = a /\ \E d \in D : d[1] = a /\ d[2] <= S[s].at

\* The message that is to be answered, if any, was sent, and what it forces was done.
Resumable(v, a, S, R, D) ==
    v # None => /\ v \in Requests /\ R[v].kind # "none"
                /\ R[v].force => \E s \in Sids : Renewed(a, s, S, D)

\* A marker was demanded, a code or a session is somebody's, a ticket may be resumed.
EntryOK(v, S, R, D) ==
    /\ v.kind \in {"reauth", "samlreauth"} => v.at \in Nat /\ <<v.a, v.at>> \in D
    /\ v.kind \in {"code", "fa"} => v.a \in Accounts
    /\ v.kind = "samlticket" => v.x \in SamlApps /\ v.a \in Accounts /\ Resumable(v.ref, v.a, S, R, D)
EntryInv == \A n \in Nonces : Found(kv, n, clock) => EntryOK(kv[n].val, sess, reqs, demanded)

\* What is stored next is somebody's, too.
Source(p) ==
    /\ pc[p] = "azGrant" => loc[p].a \in Accounts
    /\ pc[p] = "ssoGrant" => /\ loc[p].x \in SamlApps /\ loc[p].a \in Accounts
                             /\ Resumable(loc[p].val, loc[p].a, sess, reqs, demanded)
    /\ pc[p] = "callback" => loc[p].n \in Nonces

\* The tables after a step.
Carried == SessKept /\ ReqKept /\ demanded \subseteq demanded'

LEMMA RenewedKept ==
    ASSUME Carried, NEW a \in Accounts, NEW s \in Sids, Renewed(a, s, sess, demanded)
    PROVE  Renewed(a, s, sess', demanded')
<1>1. a # None  BY DirectoryAssumption
<1> QED  BY <1>1 DEF Carried, Renewed, SessKept

LEMMA ResumableKept ==
    ASSUME Carried, NEW v, NEW a \in Accounts, Resumable(v, a, sess, reqs, demanded)
    PROVE  Resumable(v, a, sess', reqs', demanded')
BY RenewedKept DEF Carried, ReqKept, Resumable

LEMMA EntryKept ==
    ASSUME Carried, NEW v, EntryOK(v, sess, reqs, demanded)
    PROVE  EntryOK(v, sess', reqs', demanded')
BY ResumableKept DEF Carried, EntryOK

EntryStepOK == StepOK /\ EntryInv /\ Carried

\* Entries that stay, or live longer.
LEMMA EntriesKept ==
    ASSUME EntryStepOK, NEW K, KvMoves(K),
           \A n \in Nonces : kv'[n].val.kind \in K => EntryOK(kv'[n].val, sess', reqs', demanded')
    PROVE  EntryInv'
<1>0. StepOK /\ EntryInv /\ Carried  BY DEF EntryStepOK
<1> SUFFICES ASSUME NEW n \in Nonces, Found(kv', n, clock')  PROVE EntryOK(kv'[n].val, sess', reqs', demanded')
  BY DEF EntryInv
<1>1. clock \in Nat /\ clock' \in Nat /\ clock <= clock' /\ kv[n].exp \in Nat  BY <1>0, GoneStays
<1>2. kv'[n] # NoEntry  BY <1>1 DEF Found, NoEntry
<1>3. ASSUME Found(kv, n, clock), kv'[n].val = kv[n].val  PROVE EntryOK(kv'[n].val, sess', reqs', demanded')
  BY <1>0, <1>3, EntryKept DEF EntryInv
<1>4. CASE kv'[n] = kv[n]  BY <1>1, <1>3, <1>4 DEF Found
<1> QED  BY <1>2, <1>3, <1>4 DEF KvMoves

\* Nothing is stored that vouches for anything.
LEMMA EntriesQuiet ==
    ASSUME EntryStepOK, NEW K, KvMoves(K), K \cap {"reauth", "samlreauth", "code", "fa", "samlticket"} = {}
    PROVE  EntryInv'
<1>1. \A n \in Nonces : kv'[n].val.kind \in K => EntryOK(kv'[n].val, sess', reqs', demanded')  BY DEF EntryOK
<1> QED  BY <1>1, EntriesKept

\* One entry is stored.
LEMMA EntryNew ==
    ASSUME EntryStepOK, NEW store, store = kv \/ (\E m : store = Pop(m)), NEW v, NEW ttl \in Nat, NEW now \in Nat,
           handed' = handed + 1, kv' = SetEx(store, handed + 1, v, ttl, now), EntryOK(v, sess', reqs', demanded')
    PROVE  EntryInv'
<1>0. StepOK /\ EntryInv /\ Carried /\ NameOK  BY DEF EntryStepOK, StepOK, NameInv
<1>1. DOMAIN store = Nonces  BY <1>0 DEF NameOK, Pop, Del
<1>2. \A n \in Nonces : n = handed + 1 => kv'[n].val = v  BY <1>1 DEF SetEx, Entry
<1>3. \A n \in Nonces : n # handed + 1 => kv'[n] = store[n]  BY <1>1 DEF SetEx
<1>4. \A n \in Nonces : store[n] = kv[n] \/ store[n] = NoEntry  BY <1>0 DEF NameOK, Pop, Del
<1> SUFFICES ASSUME NEW n \in Nonces, Found(kv', n, clock')  PROVE EntryOK(kv'[n].val, sess', reqs', demanded')
  BY DEF EntryInv
<1>5. clock \in Nat /\ clock' \in Nat /\ clock <= clock' /\ kv[n].exp \in Nat  BY <1>0, GoneStays
<1>6. kv'[n] # NoEntry  BY <1>5 DEF Found, NoEntry
<1>7. CASE kv'[n] = kv[n]
  <2>1. Found(kv, n, clock)  BY <1>5, <1>7 DEF Found
  <2> QED  BY <1>0, <1>7, <2>1, EntryKept DEF EntryInv
<1> QED  BY <1>2, <1>3, <1>4, <1>6, <1>7

LEMMA EntryStashed ==
    ASSUME EntryStepOK, NEW store, store = kv \/ (\E m : store = Pop(m)), NEW v, NEW ttl \in Nat,
           Stash(store, v, ttl), EntryOK(v, sess', reqs', demanded')
    PROVE  EntryInv'
<1>1. handed' = handed + 1 /\ kv' = SetEx(store, handed + 1, v, ttl, clock)  BY Zenon DEF Stash
<1>2. clock \in Nat  BY DEF EntryStepOK, StepOK, NameInv, NameOK
<1> QED  BY <1>1, <1>2, EntryNew

LEMMA EntryDemanded ==
    ASSUME EntryStepOK, NEW kind \in {"reauth", "samlreauth"}, NEW a, NEW m, DemandReauth(kind, a, Spoiled(m, kind))
    PROVE  EntryInv'
<1> DEFINE store == Spoiled(m, kind)
           v == [NoVal EXCEPT !.kind = kind, !.a = a, !.at = clock + 1]
<1>0. clock \in Nat /\ TicketTTL \in Nat  BY AuthorizeAssumption DEF EntryStepOK, StepOK, NameInv, NameOK
<1>1. /\ handed' = handed + 1 /\ kv' = SetEx(store, handed + 1, v, TicketTTL, clock + 1)
      /\ demanded' = demanded \cup {<<a, clock + 1>>}
  BY Zenon DEF DemandReauth
<1>2. store = kv \/ \E n : store = Pop(n)  BY SpoiledKv
<1>3. v.kind = kind /\ v.a = a /\ v.at = clock + 1  BY DEF NoVal
<1> HIDE DEF store, v
<1>4. EntryOK(v, sess', reqs', demanded')  BY <1>0, <1>1, <1>3 DEF EntryOK
<1>5. clock + 1 \in Nat  BY <1>0
<1> QED  BY <1>0, <1>1, <1>2, <1>4, <1>5, EntryNew

LEMMA EntriesGone ==
    ASSUME EntryStepOK, UNCHANGED kvVars \/ ((\E n : kv' = Pop(n)) /\ UNCHANGED handed)
    PROVE  EntryInv'
<1>1. NameOK  BY DEF EntryStepOK, StepOK, NameInv
<1>2. KvMoves({})  BY <1>1, QuietKv, GoneKv
<1> QED  BY <1>2, EntriesQuiet

LEMMA AuthorizeEntries ==
    ASSUME EntryStepOK, \A p \in Procs : Source(p), AuthorizeNext
    PROVE  EntryInv'
<1>0. TicketTTL \in Nat /\ AuthCodeTTL \in Nat  BY AuthorizeAssumption
<1>1. ASSUME NEW p \in Procs,
             \/ \E s, x, sc, prompt, age, m, ref : Authorize(p, s, x, sc, prompt, age, m, ref)
             \/ \E s, x, P : RequireIdentity(p, s, x, P)
             \/ AuthorizeDenied(p) \/ AuthorizeFresh(p) \/ ConsentApproved(p)
      PROVE  EntryInv'
  <2>1. UNCHANGED kvVars  BY <1>1, Zenon DEF Authorize, RequireIdentity, AuthorizeDenied, AuthorizeFresh, ConsentApproved,
     authorizeVars, kvVars
  <2> QED  BY <2>1, EntriesGone
<1>2. ASSUME NEW p \in Procs, (\E s, n, b : ConsentDecision(p, s, n, b)) \/ AuthorizeReauthed(p)
      PROVE  EntryInv'
  <2>1. (\E n : kv' = Pop(n)) /\ UNCHANGED handed  BY <1>2, Zenon DEF ConsentDecision, AuthorizeReauthed
  <2> QED  BY <2>1, EntriesGone
<1>3. ASSUME NEW p \in Procs, AuthorizeReauthFails(p)  PROVE EntryInv'
  <2>1. CASE kv' = Spoiled(loc[p].n, "reauth") /\ UNCHANGED handed
    BY <2>1, SpoiledKv, EntriesGone DEF kvVars
  <2>2. CASE DemandReauth("reauth", loc[p].a, Spoiled(loc[p].n, "reauth"))  BY <2>2, EntryDemanded
  <2> QED  BY <1>3, <2>1, <2>2, Zenon DEF AuthorizeReauthFails
<1>4. ASSUME NEW p \in Procs, AuthorizeAsks(p)  PROVE EntryInv'
  <2> DEFINE v == [NoVal EXCEPT !.kind = "ticket", !.a = loc[p].a, !.x = loc[p].x, !.sc = loc[p].set]
  <2>1. UNCHANGED kvVars \/ Stash(kv, v, TicketTTL)  BY <1>4, Zenon DEF AuthorizeAsks, kvVars
  <2>2. v.kind = "ticket"  BY Values
  <2> HIDE DEF v
  <2>3. EntryOK(v, sess', reqs', demanded')  BY <2>2 DEF EntryOK
  <2> QED  BY <1>0, <2>1, <2>3, EntriesGone, EntryStashed
<1>5. ASSUME NEW p \in Procs, AuthorizeMints(p)  PROVE EntryInv'
  <2> DEFINE v == [NoVal EXCEPT !.kind = "code", !.a = loc[p].a, !.x = loc[p].x, !.s = loc[p].s, !.sc = loc[p].set,
                                !.ref = loc[p].g]
  <2>1. pc[p] = "azGrant" /\ Stash(kv, v, AuthCodeTTL)  BY <1>5, Zenon DEF AuthorizeMints
  <2>2. v.kind = "code" /\ v.a = loc[p].a  BY DEF NoVal
  <2> HIDE DEF v
  <2>3. EntryOK(v, sess', reqs', demanded')  BY <2>1, <2>2 DEF EntryOK, Source
  <2> QED  BY <1>0, <2>1, <2>3, EntryStashed
<1>6. ASSUME NEW a, NEW x, NEW s, NEW P, NeedTicket(a, x, s, P)  PROVE EntryInv'
  <2> DEFINE v == [NoVal EXCEPT !.kind = "need", !.a = a, !.x = x, !.s = s, !.sc = P]
  <2>1. Stash(kv, v, TicketTTL)  BY <1>6, Zenon DEF NeedTicket
  <2>2. v.kind = "need"  BY Values
  <2> HIDE DEF v
  <2>3. EntryOK(v, sess', reqs', demanded')  BY <2>2 DEF EntryOK
  <2> QED  BY <1>0, <2>1, <2>3, EntryStashed
<1>7. ASSUME NEW p \in Procs, RequireIdentityDecide(p)  PROVE EntryInv'
  <2>1. UNCHANGED kvVars \/ \E a, x, s, P : NeedTicket(a, x, s, P)  BY <1>7, Zenon DEF RequireIdentityDecide, kvVars
  <2> QED  BY <1>6, <2>1, EntriesGone
<1>8. ASSUME NEW s, NEW x, RevokeConsent(s, x) \/ \E P : RequireIdentityMismatch(s, x, P)  PROVE EntryInv'
  <2>1. UNCHANGED kvVars \/ \E a, P : NeedTicket(a, x, s, P)  BY <1>8, Zenon DEF RequireIdentityMismatch, RevokeConsent, kvVars
  <2> QED  BY <1>6, <2>1, EntriesGone
<1> QED  BY <1>1, <1>2, <1>3, <1>4, <1>5, <1>7, <1>8, Zenon DEF AuthorizeNext

LEMMA SamlEntries ==
    ASSUME EntryStepOK, \A p \in Procs : Source(p), SamlNext
    PROVE  EntryInv'
<1>0. TicketTTL \in Nat /\ NameOK  BY AuthorizeAssumption DEF EntryStepOK, StepOK, NameInv
<1>1. ASSUME NEW p \in Procs,
             \/ \E s, r, m : Sso(p, s, r, m)
             \/ \E s, x : SsoInit(p, s, x)
             \/ \E r : Slo(p, r)
             \/ \E s, ok : SloRow(p, s, ok)
      PROVE  EntryInv'
  <2>1. UNCHANGED kvVars  BY <1>1, Zenon DEF Sso, SsoInit, Slo, SloRow, authorizeVars, kvVars
  <2> QED  BY <2>1, EntriesGone
<1>2. ASSUME NEW p \in Procs,
             \/ SsoRefused(p) \/ SsoLosesSession(p) \/ SsoConsume(p) \/ SsoIssues(p)
             \/ SsoInitDecide(p) \/ ResumeRecords(p) \/ ResumeIssues(p) \/ SloDone(p)
      PROVE  EntryInv'
  <2>1. UNCHANGED kvVars  BY <1>2, Zenon DEF SsoRefused, SsoLosesSession, SsoConsume, SsoIssues,
     SsoInitDecide, ResumeRecords, ResumeIssues, SloDone, authorizeVars, kvVars
  <2> QED  BY <2>1, EntriesGone
<1>3. ASSUME \/ \E r, kind, x, skew, pa, fo, a : SendRequest(r, kind, x, skew, pa, fo, a)
             \/ \E r : SsoNoSession(r) \/ SloAborts(r)
      PROVE  EntryInv'
  <2>1. UNCHANGED kvVars  BY <1>3, Zenon DEF SendRequest, SsoNoSession, SloAborts, authorizeVars, kvVars
  <2> QED  BY <2>1, EntriesGone
<1>4. ASSUME (\E p, s, n : ConsentResume(p, s, n)) \/ (\E s, n : SamlDecline(s, n)) \/ \E p : SsoFresh(p)
      PROVE  EntryInv'
  <2>1. (UNCHANGED kv \/ \E n : kv' = Pop(n)) /\ UNCHANGED handed  BY <1>4, Zenon DEF ConsentResume, SamlDecline, SsoFresh
  <2> QED  BY <2>1, EntriesGone DEF kvVars
<1>5. ASSUME NEW p, SsoReauthFails(p)  PROVE EntryInv'
  <2>1. DemandReauth("samlreauth", loc[p].a, Spoiled(loc[p].n, "samlreauth"))  BY <1>5, Zenon DEF SsoReauthFails
  <2> QED  BY <2>1, EntryDemanded
<1>6. ASSUME NEW p \in Procs, SsoAsks(p)  PROVE EntryInv'
  <2> DEFINE v == [NoVal EXCEPT !.kind = "samlticket", !.a = loc[p].a, !.x = loc[p].x, !.ref = loc[p].val]
  <2>1. pc[p] = "ssoGrant" /\ Stash(kv, v, TicketTTL)  BY <1>6, Zenon DEF SsoAsks
  <2>2. v.kind = "samlticket" /\ v.a = loc[p].a /\ v.x = loc[p].x /\ v.ref = loc[p].val  BY DEF NoVal
  <2> HIDE DEF v
  <2>3. v.x \in SamlApps /\ v.a \in Accounts /\ Resumable(v.ref, v.a, sess, reqs, demanded)  BY <2>1, <2>2 DEF Source
  <2>4. Resumable(v.ref, v.a, sess', reqs', demanded')  BY <2>3, ResumableKept DEF EntryStepOK
  <2>5. EntryOK(v, sess', reqs', demanded')  BY <2>2, <2>3, <2>4 DEF EntryOK
  <2> QED  BY <1>0, <2>1, <2>5, EntryStashed
<1>8. CASE \E p \in Procs :
        \/ \E s \in Visits, r \in Requests, m \in Markers("samlreauth") : Sso(p, s, r, m)
        \/ SsoRefused(p) \/ SsoLosesSession(p) \/ SsoFresh(p) \/ SsoConsume(p) \/ SsoIssues(p)
        \/ SsoReauthFails(p) \/ SsoAsks(p)
        \/ \E s \in Visits, x \in SamlApps : SsoInit(p, s, x)
        \/ SsoInitDecide(p)
        \/ \E s \in Visits, n \in Nonces : ConsentResume(p, s, n)
        \/ ResumeRecords(p) \/ ResumeIssues(p)
        \/ \E r \in Requests : Slo(p, r)
        \/ \E s \in Sids, ok \in BOOLEAN : SloRow(p, s, ok)
        \/ SloDone(p)
  BY <1>1, <1>2, <1>4, <1>5, <1>6, <1>8, Zenon
<1> QED  BY <1>3, <1>4, <1>8, Zenon DEF SamlNext

LEMMA ForwardAuthEntries ==
    ASSUME EntryStepOK, \A p \in Procs : Source(p), ForwardAuthNext
    PROVE  EntryInv'
<1>0. NameOK /\ FaTTL \in Nat  BY ForwardAuthAssumption DEF EntryStepOK, StepOK, NameInv
<1>1. CASE KvMoves({"fastate"})  BY <1>1, EntriesQuiet
<1>2. ASSUME NEW p \in Procs, CallbackMints(p)  PROVE EntryInv'
  <2> DEFINE c == loc[p].n
             v == [NoVal EXCEPT !.kind = "fa", !.a = kv[c].val.a, !.x = loc[p].x, !.ref = kv[c].val.ref]
  <2>1. /\ pc[p] = "callback"
        /\ \/ UNCHANGED kvVars
           \/ kv' = Pop(c) /\ UNCHANGED handed
           \/ Has(c, "code") /\ Stash(Pop(c), v, FaTTL)
    BY <1>2, Zenon DEF CallbackMints, kvVars
  <2>2. v.kind = "fa" /\ v.a = kv[c].val.a  BY DEF NoVal
  <2> HIDE DEF v
  <2>3. ASSUME Has(c, "code"), Stash(Pop(c), v, FaTTL)  PROVE EntryInv'
    <3>1. c \in Nonces /\ Found(kv, c, clock) /\ kv[c].val.kind = "code"  BY <2>1, <2>3 DEF Source, Has
    <3>2. v.a \in Accounts  BY <2>2, <3>1 DEF EntryStepOK, EntryInv, EntryOK
    <3>3. EntryOK(v, sess', reqs', demanded')  BY <2>2, <3>2 DEF EntryOK
    <3> QED  BY <1>0, <2>3, <3>3, EntryStashed
  <2> QED  BY <2>1, <2>3, EntriesGone
<1> QED  BY <1>0, <1>1, <1>2, ForwardAuthKv

LEMMA EntryStep ==
    ASSUME EntryStepOK, \A p \in Procs : Source(p)
    PROVE  EntryInv'
<1>0. FrameOK /\ [Next]_vars  BY DEF EntryStepOK, StepOK, FrameInv
<1> USE DEF authorizeVars, policyRest, others, kvVars
<1>1. CASE UNCHANGED vars
  <2>1. UNCHANGED kvVars  BY <1>1, Zenon DEF vars
  <2> QED  BY <2>1, EntriesGone
<1>2. CASE Next
  <2>1. ComponentStep  BY <1>0, <1>2, StepSplit
  <2>2. ASSUME NEW p, Ends(p) \/ Deletes(p)  PROVE UNCHANGED kvVars
    BY <2>2, Zenon DEF Ends, Deletes, RowDeleted
  <2>3. AuthorizeNext \/ SamlNext \/ ForwardAuthNext \/ UNCHANGED kvVars
    BY <2>1, <2>2, Zenon DEF ComponentStep, CommandsKept, SurroundingsKept
  <2> QED  BY <2>3, EntriesGone, AuthorizeEntries, SamlEntries, ForwardAuthEntries
<1> QED  BY <1>0, <1>1, <1>2

-----------------------------------------------------------------------------
(* Grounds                                                                   *)

\* Who is served, by which session, at which application, on which message.
Subject(l, S, R, D) ==
    /\ l.op \in Serving /\ l.a \in Accounts
    /\ l.op \in AuthorizeOps \cup SamlOps => l.s \in Sids /\ S[l.s].a = l.a
    /\ l.op \in AuthorizeOps => l.x \in Clients
    /\ l.op \in SamlOps => l.x \in SamlApps
    /\ l.op \in ForwardAuthOps => l.x \in FaApps
    /\ l.op \in {"authorize", "sso"} => l.n \in Nonces \cup {None}
    /\ l.op = "authorize" => l.age \in Nat \cup {None}
    /\ l.op = "sso" => l.val \in Requests /\ R[l.val].kind # "none"
    /\ l.op = "ssoinit" => l.val = None
    /\ l.op = "resume" => Resumable(l.val, l.a, S, R, D)

\* What held when the request was taken on.
Grounded(l, G) ==
    /\ "open" \in G
    /\ l.op # "fa" => "account" \in G
    /\ l.op \in AuthorizeOps \cup SamlOps => "session" \in G
    /\ l.op = "fa" => "cookie" \in G
    /\ l.op = "pat" => "pat" \in G
    /\ l.op = "authorize" /\ ~l.opt => "consent" \in G
    /\ ~l.ev.restricted => "public" \in G

\* The facts F and providers K are those that were read, or the policy was torn.
Weighing(l, G, F, K) == "torn" \in G \/ (l.ev.facts = F /\ l.ev.known = K)

\* The manual decisions that were read.
Counted(l, G) ==
    (\A m \in l.ev.manual : m[2] # "deny") =>
        "undenied" \in G /\ (l.ev.manual # {} => "allowed" \in G)

\* The policy let the account in, and a fresh sign-in is there where one was wanted.
Admitted(l, G, S, R, D) ==
    /\ "account" \in G
    /\ "valid" \in G \/ "torn" \in G
    /\ "public" \in G \/ ("undenied" \in G /\ ("allowed" \in G \/ "matched" \in G \/ "torn" \in G))
    /\ l.op = "authorize" /\ (l.val = "login" \/ (l.age # None /\ "young" \notin G)) => Renewed(l.a, l.s, S, D)
    /\ l.op = "sso" /\ R[l.val].force => Renewed(l.a, l.s, S, D)

\* Consent, or the identity that was required.
Answered(l, G, R) ==
    /\ l.op \in {"authorize", "ssoinit", "resume"} => "consent" \in G
    /\ l.op = "require" => "identity" \in G
    /\ l.op = "sso" => "consent" \in G \/ R[l.val].passive

After == {"azGrant", "ssoConsume", "ssoGrant", "resumed", "faRenew", "sent"}
Leads(label, op) ==
    /\ label = "azGrant" => op = "authorize"
    /\ label = "ssoConsume" => op = "sso"
    /\ label = "ssoGrant" => op \in {"sso", "ssoinit"}
    /\ label = "resumed" => op = "resume"
    /\ label = "faRenew" => op = "fa"

\* A request at the given label with the local variables l and the grounds G.
GroundOK(label, l, G, S, R, D, F, K) ==
    /\ label \in {"evManual"} \cup Decisions \cup After => Subject(l, S, R, D) /\ Grounded(l, G)
    /\ label \in {"evManual"} \cup Decisions => Weighing(l, G, F, K)
    /\ label \in Decisions => label = Decision(l.op) /\ Counted(l, G)
    /\ label \in After => Leads(label, l.op) /\ Admitted(l, G, S, R, D)
    /\ label = "resumed" => "consent" \in G
    /\ label = "sent" => Answered(l, G, R)
    /\ label = "callback" => l.n \in Nonces
Ground(p) == GroundOK(pc[p], loc[p], grounds[p], sess, reqs, demanded, Facts(loc[p].a), KnownProviders)

\* What holds now is among the grounds.
Held(p) == loc[p].op \in Serving => Holding(p) \subseteq grounds[p]

GroundInv == DOMAIN grounds = Procs /\ \A p \in Procs : Ground(p) /\ Held(p)

\* What it takes for something to be a ground of request p.
Reading(p) ==
    LET l == loc[p] a == l.a x == l.x
    IN  /\ apps[x].on /\ ~apps[x].dis => "open" \in Holding(p)
        /\ ~apps[x].restricted => "public" \in Holding(p)
        /\ (\A g \in apps[x].groups : dec[<<g, a>>] # "deny") => "undenied" \in Holding(p)
        /\ (\E g \in apps[x].groups : dec[<<g, a>>] = "allow") => "allowed" \in Holding(p)
        /\ (\A r \in RulesOf(x) : ParseAndValidateRule(r[2], KnownProviders)) => "valid" \in Holding(p)
        /\ (\E r \in RulesOf(x) : EvaluateCondition(r[2], Facts(a))) => "matched" \in Holding(p)
        /\ Enabled(a) /\ ~MaintenanceLockout(a) => "account" \in Holding(p)
        /\ sess[l.s].live /\ sess[l.s].a = a => "session" \in Holding(p)
ReadingOf(p) ==
    LET l == loc[p] a == l.a x == l.x
    IN  /\ x \in SamlApps /\ consents[<<a, x>>] # {} => "consent" \in Holding(p)
        /\ x \notin SamlApps /\ (~apps[x].opt \/ l.set \subseteq consents[<<a, x>>]) => "consent" \in Holding(p)
        /\ l.age # None /\ clock - sess[l.s].at <= l.age => "young" \in Holding(p)
        /\ l.op = "require" /\ HasIdentity(a, l.set) => "identity" \in Holding(p)
        /\ l.op = "fa" /\ Has(l.n, "fa") /\ kv[l.n].val.x = x /\ kv[l.n].val.a = a => "cookie" \in Holding(p)
        /\ /\ l.op = "pat" /\ pats[l.val].a = a /\ ~pats[l.val].revoked
           /\ pats[l.val].exp # None => clock < pats[l.val].exp
           /\ pats[l.val].access = "selected_apps" => x \in pats[l.val].apps
           => "pat" \in Holding(p)
Readings == \A p \in Procs : Reading(p) /\ ReadingOf(p)

LEMMA ReadNow == Readings
<1> SUFFICES ASSUME NEW p \in Procs  PROVE Reading(p) /\ ReadingOf(p)
  BY DEF Readings
<1>1. Reading(p)  BY DEF Reading, Holding
<1>2. ReadingOf(p)  BY DEF ReadingOf, Holding
<1> QED  BY <1>1, <1>2

LEMMA ReadNext == Readings'
BY ReadNow, PTL

\* The grounds of a request only grow while it is served.
LEMMA Observed ==
    ASSUME Observe, NEW q \in Procs, loc'[q].op \in Serving
    PROVE  /\ grounds[q] \subseteq grounds'[q] /\ Holding(q)' \subseteq grounds'[q]
           /\ Undecided(q) => "torn" \in grounds'[q] \/ Weighed(q)' = Weighed(q)
BY Zenon DEF Observe

LEMMA HeldStep ==
    ASSUME Observe
    PROVE  DOMAIN grounds' = Procs /\ \A q \in Procs : Held(q)'
<1>1. DOMAIN grounds' = Procs  BY DEF Observe
<1>2. ASSUME NEW q \in Procs, loc'[q].op \in Serving  PROVE Holding(q)' \subseteq grounds'[q]
  BY <1>2, Observed
<1> QED  BY <1>1, <1>2 DEF Held

LEMMA UndecidedAt == \A p \in Procs : pc[p] \in {"evManual"} \cup Decisions => Undecided(p)
BY DEF Undecided, Decisions, Serving, Decision

LEMMA Untorn ==
    ASSUME Observe, NEW q \in Procs, loc'[q].op \in Serving, pc[q] \in {"evManual"} \cup Decisions
    PROVE  "torn" \in grounds'[q] \/ (Facts(loc[q].a)' = Facts(loc[q].a) /\ KnownProviders' = KnownProviders)
<1>1. "torn" \in grounds'[q] \/ Weighed(q)' = Weighed(q)  BY Observed, UndecidedAt
<1> QED  BY <1>1 DEF Weighed

-----------------------------------------------------------------------------
(* What is carried from one state to the next                                *)

LEMMA SubjectKept ==
    ASSUME Carried, NEW l, Subject(l, sess, reqs, demanded)
    PROVE  Subject(l, sess', reqs', demanded')
<1>1. l.a \in Accounts /\ l.a # None  BY DirectoryAssumption DEF Subject
<1>2. l.op \in AuthorizeOps \cup SamlOps => sess'[l.s].a = l.a  BY <1>1 DEF Subject, Carried, SessKept
<1>3. l.op = "sso" => reqs'[l.val].kind # "none"  BY DEF Subject, Carried, ReqKept
<1>4. l.op = "resume" => Resumable(l.val, l.a, sess', reqs', demanded')  BY <1>1, ResumableKept DEF Subject
<1> QED  BY <1>1, <1>2, <1>3, <1>4 DEF Subject

LEMMA GroundedKept ==
    ASSUME NEW l, NEW G, NEW H, G \subseteq H, Grounded(l, G)
    PROVE  Grounded(l, H)
BY DEF Grounded

LEMMA AdmittedKept ==
    ASSUME Carried, NEW l, Subject(l, sess, reqs, demanded), NEW G, NEW H, G \subseteq H, Admitted(l, G, sess, reqs, demanded)
    PROVE  Admitted(l, H, sess', reqs', demanded')
<1>1. Renewed(l.a, l.s, sess, demanded) /\ l.op \in {"authorize", "sso"} => Renewed(l.a, l.s, sess', demanded')
  BY RenewedKept DEF Subject, AuthorizeOps, SamlOps
<1>2. l.op = "sso" => reqs'[l.val] = reqs[l.val]  BY DEF Subject, Carried, ReqKept
<1> QED  BY <1>1, <1>2 DEF Admitted

LEMMA AnsweredKept ==
    ASSUME Carried, NEW l, Subject(l, sess, reqs, demanded), NEW G, NEW H, G \subseteq H, Answered(l, G, reqs)
    PROVE  Answered(l, H, reqs')
<1>1. l.op = "sso" => reqs'[l.val] = reqs[l.val]  BY DEF Subject, Carried, ReqKept
<1> QED  BY <1>1 DEF Answered

Busy == {"evManual"} \cup Decisions \cup After \cup {"callback"}

LEMMA LooseGround == \A label, l, G, S, R, D, F, K : label \notin Busy => GroundOK(label, l, G, S, R, D, F, K)
BY DEF Busy, After, GroundOK

\* A request that does not move.
LEMMA GroundKept ==
    ASSUME Carried, Observe, NEW q \in Procs, Ground(q), pc'[q] = pc[q], loc'[q] = loc[q]
    PROVE  Ground(q)'
<1> DEFINE l == loc[q]
           G == grounds[q]
           H == grounds'[q]
           F == Facts(loc[q].a)
           E == Facts(loc[q].a)'
<1>1. GroundOK(pc[q], l, G, sess, reqs, demanded, F, KnownProviders)  BY DEF Ground
<1>2. CASE pc[q] \notin Busy  BY <1>2, LooseGround DEF Ground
<1>3. CASE pc[q] = "callback"
  <2>1. l.n \in Nonces  BY <1>1, <1>3 DEF GroundOK
  <2>2. "callback" \notin {"evManual"} \cup Decisions \cup After  BY DEF Decisions, After
  <2> QED  BY <1>3, <2>1, <2>2 DEF Ground, GroundOK, After
<1>4. CASE pc[q] \in {"evManual"} \cup Decisions \cup After
  <2>1. Subject(l, sess, reqs, demanded) /\ Grounded(l, G)  BY <1>1, <1>4 DEF GroundOK
  <2>2. loc'[q].op \in Serving  BY <2>1 DEF Subject
  <2>3. G \subseteq H  BY <2>2, Observed
  <2>4. Subject(l, sess', reqs', demanded') /\ Grounded(l, H)  BY <2>1, <2>3, SubjectKept, GroundedKept
  <2>5. pc[q] \in {"evManual"} \cup Decisions => Weighing(l, H, E, KnownProviders')
    <3> SUFFICES ASSUME pc[q] \in {"evManual"} \cup Decisions  PROVE Weighing(l, H, E, KnownProviders')
      OBVIOUS
    <3>1. Weighing(l, G, F, KnownProviders)  BY <1>1 DEF GroundOK
    <3>2. "torn" \in H \/ (E = F /\ KnownProviders' = KnownProviders)  BY <2>2, Untorn
    <3> QED  BY <2>3, <3>1, <3>2 DEF Weighing
  <2>6. pc[q] \in Decisions => pc[q] = Decision(l.op) /\ Counted(l, H)
    BY <1>1, <2>3 DEF GroundOK, Counted
  <2>7. pc[q] \in After => Leads(pc[q], l.op) /\ Admitted(l, H, sess', reqs', demanded')
    BY <1>1, <2>1, <2>3, AdmittedKept DEF GroundOK
  <2>8. pc[q] = "resumed" => "consent" \in H  BY <1>1, <2>3 DEF GroundOK
  <2>9. pc[q] = "sent" => Answered(l, H, reqs')  BY <1>1, <2>1, <2>3, AnsweredKept DEF GroundOK
  <2>10. pc[q] = "callback" => l.n \in Nonces  BY <1>1 DEF GroundOK
  <2> HIDE DEF l, H, E
  <2>11. GroundOK(pc[q], l, H, sess', reqs', demanded', E, KnownProviders')
    BY <2>4, <2>5, <2>6, <2>7, <2>8, <2>9, <2>10 DEF GroundOK
  <2> QED  BY <2>11 DEF Ground, l, H, E
<1> QED  BY <1>2, <1>3, <1>4 DEF Busy

-----------------------------------------------------------------------------
(* The policy                                                                *)

GroundStepOK ==
    /\ StepOK /\ Observe /\ Carried
    /\ SessOK /\ PatOK /\ ReqOK /\ DecOK /\ AppsOK /\ EntryInv /\ GroundInv
    /\ DOMAIN consents = Accounts \X Apps

\* What the manual decisions that are read say.
LEMMA CountedNow ==
    ASSUME AppsOK, DecOK, NEW p \in Procs, loc[p].x \in Apps, loc[p].a \in Accounts,
           NEW G, Holding(p) \subseteq G, NEW l, l.ev.manual = Manual(loc[p].x, loc[p].a)
    PROVE  Counted(l, G)
<1> DEFINE x == loc[p].x
           a == loc[p].a
<1>0. Reading(p)  BY ReadNow DEF Readings
<1>1. \A g \in apps[x].groups : g \in Groups  BY DEF AppsOK, RowOK
<1>2. \A g \in apps[x].groups : dec[<<g, a>>] # "none" => <<g, dec[<<g, a>>]>> \in Manual(x, a)
  BY <1>1 DEF DecOK, Manual, Attached
<1>3. \A m \in Manual(x, a) : \E g \in apps[x].groups : m = <<g, dec[<<g, a>>]>> /\ dec[<<g, a>>] # "none"
  BY DEF Manual, Attached
<1> SUFFICES ASSUME \A m \in Manual(x, a) : m[2] # "deny"
             PROVE  "undenied" \in G /\ (Manual(x, a) # {} => "allowed" \in G)
  BY DEF Counted
<1>4. \A g \in apps[x].groups : dec[<<g, a>>] # "deny"
  <2> SUFFICES ASSUME NEW g \in apps[x].groups, dec[<<g, a>>] = "deny"  PROVE FALSE
    OBVIOUS
  <2>1. <<g, dec[<<g, a>>]>> \in Manual(x, a)  BY <1>2
  <2>2. <<g, dec[<<g, a>>]>>[2] = "deny"  OBVIOUS
  <2> QED  BY <2>1, <2>2
<1>5. "undenied" \in G  BY <1>0, <1>4 DEF Reading
<1>6. ASSUME Manual(x, a) # {}  PROVE "allowed" \in G
  <2>1. PICK g \in apps[x].groups : dec[<<g, a>>] # "none"  BY <1>3, <1>6
  <2>2. dec[<<g, a>>] \in Effects  BY <1>1 DEF DecOK
  <2>3. dec[<<g, a>>] = "allow"  BY <1>4, <2>1, <2>2 DEF Effects
  <2> QED  BY <1>0, <2>3 DEF Reading
<1> QED  BY <1>5, <1>6

LEMMA SubjectApp == \A l, S, R, D : Subject(l, S, R, D) => l.x \in Apps /\ l.a \in Accounts
BY DEF Subject, Serving, AuthorizeOps, SamlOps, ForwardAuthOps, Apps, Clients

\* The second half of an evaluation.
LEMMA EvalGround ==
    ASSUME GroundStepOK, NEW p \in Procs, EvalManual(p)
    PROVE  \A q \in Procs : Ground(q)'
<1> DEFINE l == loc[p]
           m == loc'[p]
           G == grounds[p]
           H == grounds'[p]
           F == Facts(loc[p].a)
           E == Facts(loc[p].a)'
<1>0. /\ FrameInv /\ Observe /\ Carried /\ AppsOK /\ DecOK
      /\ \A q \in Procs : Ground(q) /\ Held(q)
  BY DEF GroundStepOK, StepOK, GroundInv
<1>1. /\ pc[p] = "evManual" /\ pc'[p] = Decision(l.op) /\ pc'[p] \in Decisions
      /\ \A q \in Procs \ {p} : pc'[q] = pc[q] /\ loc'[q] = loc[q]
      /\ \A f \in Fields \ {"ev"} : m[f] = l[f]
      /\ m.ev.restricted = l.ev.restricted /\ m.ev.facts = l.ev.facts
      /\ m.ev.known = l.ev.known /\ m.ev.manual = Manual(l.x, l.a)
  BY <1>0, EvalManualFacts
<1>2. Subject(l, sess, reqs, demanded) /\ Grounded(l, G) /\ Weighing(l, G, F, KnownProviders)
  BY <1>0, <1>1 DEF Ground, GroundOK
<1>3. m.op = l.op /\ m.a = l.a /\ m.s = l.s /\ m.x = l.x /\ m.n = l.n /\ m.age = l.age /\ m.val = l.val /\ m.opt = l.opt
  BY <1>1 DEF Fields
<1>4. l.op \in Serving /\ loc'[p].op \in Serving  BY <1>2, <1>3 DEF Subject
<1>5. G \subseteq H  BY <1>0, <1>4, Observed
<1>6. "torn" \in H \/ (E = F /\ KnownProviders' = KnownProviders)  BY <1>0, <1>1, <1>4, Untorn
<1>7. l.x \in Apps /\ l.a \in Accounts  BY <1>2, SubjectApp
<1>8. Holding(p) \subseteq H  BY <1>0, <1>4, <1>5 DEF Held
<1>9. Counted(m, H)  BY <1>0, <1>1, <1>7, <1>8, CountedNow
<1>10. Subject(l, sess', reqs', demanded') /\ Grounded(l, H)  BY <1>0, <1>2, <1>5, SubjectKept, GroundedKept
<1> HIDE DEF m, H, E, F
<1>11. Subject(m, sess', reqs', demanded')  BY <1>3, <1>10 DEF Subject
<1>12. Grounded(m, H)  BY <1>1, <1>3, <1>10 DEF Grounded
<1>13. Weighing(m, H, E, KnownProviders')  BY <1>1, <1>2, <1>5, <1>6 DEF Weighing
<1>14. GroundOK(pc'[p], m, H, sess', reqs', demanded', E, KnownProviders')
  BY <1>1, <1>3, <1>9, <1>11, <1>12, <1>13 DEF GroundOK, Decisions, After
<1>15. Ground(p)'  BY <1>14 DEF Ground, m, H, E
<1> QED  BY <1>0, <1>1, <1>15, GroundKept

\* An evaluation that lets the account in does so on grounds.
LEMMA AllowedGround ==
    ASSUME GroundInv, NEW p \in Procs, pc[p] \in Decisions, EvalAllows(loc[p].ev, loc[p].x)
    PROVE  LET G == grounds[p]
           IN  /\ "valid" \in G \/ "torn" \in G
               /\ "public" \in G \/ ("undenied" \in G /\ ("allowed" \in G \/ "matched" \in G \/ "torn" \in G))
<1> DEFINE l == loc[p]
           G == grounds[p]
           x == loc[p].x
<1>0. Reading(p)  BY ReadNow DEF Readings
<1>1. /\ Subject(l, sess, reqs, demanded) /\ Grounded(l, G) /\ Counted(l, G)
      /\ Weighing(l, G, Facts(l.a), KnownProviders)
  BY DEF GroundInv, Ground, GroundOK
<1>2. Holding(p) \subseteq G  BY <1>1 DEF Subject, GroundInv, Held
<1>3. /\ \A g \in Attached(x, "rule") : ParseAndValidateRule(groups[g].rule, l.ev.known)
      /\ \/ ~l.ev.restricted
         \/ /\ \A m \in l.ev.manual : m[2] # "deny"
            /\ l.ev.manual # {} \/ \E g \in Attached(x, "rule") : EvaluateCondition(groups[g].rule, l.ev.facts)
  BY DEF EvalAllows, DecideGroups
<1>4. \A r \in RulesOf(x) : \E g \in Attached(x, "rule") : r[2] = groups[g].rule  BY DEF RulesOf
<1>5. \A g \in Attached(x, "rule") : <<g, groups[g].rule>> \in RulesOf(x) /\ <<g, groups[g].rule>>[2] = groups[g].rule
  BY DEF RulesOf
<1>6. "valid" \in G \/ "torn" \in G
  <2> SUFFICES ASSUME l.ev.known = KnownProviders  PROVE "valid" \in G
    BY <1>1 DEF Weighing
  <2>1. \A r \in RulesOf(x) : ParseAndValidateRule(r[2], KnownProviders)  BY <1>3, <1>4
  <2> QED  BY <1>0, <1>2, <2>1 DEF Reading
<1>7. CASE ~l.ev.restricted  BY <1>1, <1>6, <1>7 DEF Grounded
<1>8. CASE (\A m \in l.ev.manual : m[2] # "deny") /\ l.ev.manual # {}  BY <1>1, <1>6, <1>8 DEF Counted
<1>9. ASSUME \A m \in l.ev.manual : m[2] # "deny",
             NEW g \in Attached(x, "rule"), EvaluateCondition(groups[g].rule, l.ev.facts)
      PROVE  "undenied" \in G /\ ("matched" \in G \/ "torn" \in G)
  <2>1. "undenied" \in G  BY <1>1, <1>9 DEF Counted
  <2> SUFFICES ASSUME l.ev.facts = Facts(l.a)  PROVE "matched" \in G
    BY <1>1, <2>1 DEF Weighing
  <2>2. \E r \in RulesOf(x) : EvaluateCondition(r[2], Facts(l.a))  BY <1>5, <1>9
  <2> QED  BY <1>0, <1>2, <2>2 DEF Reading
<1> QED  BY <1>3, <1>6, <1>7, <1>8, <1>9

-----------------------------------------------------------------------------
(* Decisions, and what comes after                                           *)

LEMMA DecisionOps ==
    \A op \in Serving :
        /\ Decision(op) = "azDecide" => op = "authorize"
        /\ Decision(op) = "needDecide" => op = "require"
        /\ Decision(op) = "ssoDecide" => op = "sso"
        /\ Decision(op) = "initDecide" => op = "ssoinit"
        /\ Decision(op) = "resume" => op = "resume"
        /\ Decision(op) = "faDecide" => op = "fa"
        /\ Decision(op) = "patDecide" => op = "pat"
BY DEF Serving, Decision

\* Where a request stands that is served.
LEMMA Served ==
    ASSUME GroundInv, NEW p \in Procs, pc[p] \in Decisions \cup After
    PROVE  /\ Subject(loc[p], sess, reqs, demanded) /\ Grounded(loc[p], grounds[p])
           /\ Holding(p) \subseteq grounds[p] /\ Reading(p) /\ ReadingOf(p)
           /\ loc[p].x \in Apps /\ loc[p].a \in Accounts
           /\ pc[p] \in Decisions => pc[p] = Decision(loc[p].op) /\ loc[p].op \in Serving
<1>1. Subject(loc[p], sess, reqs, demanded) /\ Grounded(loc[p], grounds[p])  BY DEF GroundInv, Ground, GroundOK
<1>2. pc[p] \in Decisions => pc[p] = Decision(loc[p].op)  BY DEF GroundInv, Ground, GroundOK
<1>3. loc[p].op \in Serving  BY <1>1 DEF Subject
<1>4. Holding(p) \subseteq grounds[p]  BY <1>3 DEF GroundInv, Held
<1>5. Reading(p) /\ ReadingOf(p)  BY ReadNow DEF Readings
<1>6. loc[p].x \in Apps /\ loc[p].a \in Accounts  BY <1>1, SubjectApp
<1> QED  BY <1>1, <1>2, <1>3, <1>4, <1>5, <1>6

\* A request that is let in goes on.
LEMMA GoesOn ==
    ASSUME GroundStepOK, NEW p \in Procs, pc[p] \in Decisions \cup After, NEW label \in After,
           Goto(p, label), UNCHANGED loc, Leads(label, loc[p].op),
           Admitted(loc[p], grounds[p], sess, reqs, demanded),
           label = "resumed" => "consent" \in grounds'[p],
           label = "sent" => Answered(loc[p], grounds'[p], reqs')
    PROVE  \A q \in Procs : Ground(q)'
<1> DEFINE l == loc[p]
           m == loc'[p]
           G == grounds[p]
           H == grounds'[p]
           E == Facts(loc[p].a)'
<1>0. FrameOK /\ Observe /\ Carried /\ GroundInv /\ \A q \in Procs : Ground(q)
  BY DEF GroundStepOK, StepOK, FrameInv, GroundInv
<1>1. pc'[p] = label /\ m = l /\ \A q \in Procs \ {p} : pc'[q] = pc[q] /\ loc'[q] = loc[q]  BY <1>0, GotoFacts
<1>2. Subject(l, sess, reqs, demanded) /\ Grounded(l, G)  BY <1>0, Served
<1>3. loc'[p].op \in Serving  BY <1>1, <1>2 DEF Subject
<1>4. G \subseteq H  BY <1>0, <1>3, Observed
<1>5. Subject(l, sess', reqs', demanded') /\ Grounded(l, H) /\ Admitted(l, H, sess', reqs', demanded')
  BY <1>0, <1>2, <1>4, SubjectKept, GroundedKept, AdmittedKept
<1>6. label \notin {"evManual"} \cup Decisions /\ label # "callback"  BY DEF After, Decisions
<1> HIDE DEF l, m, H, E
<1>7. GroundOK(label, m, H, sess', reqs', demanded', E, KnownProviders')
  BY <1>1, <1>5, <1>6 DEF GroundOK, l, H
<1>8. Ground(p)'  BY <1>1, <1>7 DEF Ground, m, H, E
<1> QED  BY <1>0, <1>1, <1>8, GroundKept

\* Everybody stays, but for a request whose label then stands for nothing.
LEMMA StaysOrLeaves ==
    ASSUME GroundStepOK, \A q \in Procs : (pc'[q] = pc[q] /\ loc'[q] = loc[q]) \/ pc'[q] \notin Busy
    PROVE  \A q \in Procs : Ground(q)'
<1>1. Observe /\ Carried /\ \A q \in Procs : Ground(q)  BY DEF GroundStepOK, GroundInv
<1>2. \A q \in Procs : pc'[q] \notin Busy => Ground(q)'  BY LooseGround DEF Ground
<1> QED  BY <1>1, <1>2, GroundKept

LEMMA FinishGround ==
    ASSUME GroundStepOK, NEW p \in Procs, Finish(p)
    PROVE  \A q \in Procs : Ground(q)'
<1>1. FrameOK  BY DEF GroundStepOK, StepOK, FrameInv
<1>2. pc'[p] = "idle" /\ \A q \in Procs \ {p} : pc'[q] = pc[q] /\ loc'[q] = loc[q]  BY <1>1, FinishFacts
<1>3. "idle" \notin Busy  BY DEF Busy, Decisions, After
<1> QED  BY <1>2, <1>3, StaysOrLeaves

LEMMA QuietGround ==
    ASSUME GroundStepOK, UNCHANGED <<pc, loc>>
    PROVE  \A q \in Procs : Ground(q)'
BY StaysOrLeaves

\* A marker that does: the account was asked to sign in again, and did.
LEMMA Reauthed ==
    ASSUME EntryInv, NEW l, Subject(l, sess, reqs, demanded), l.op \in {"authorize", "sso"},
           NEW kind \in {"reauth", "samlreauth"}, ReauthOK(l.n, kind, l.a, sess[l.s].at)
    PROVE  Renewed(l.a, l.s, sess, demanded)
<1>1. /\ l.n # None /\ Found(kv, l.n, clock) /\ kv[l.n].val.kind = kind
      /\ kv[l.n].val.a = l.a /\ sess[l.s].at >= kv[l.n].val.at
  BY DEF ReauthOK, Has
<1>2. l.n \in Nonces /\ sess[l.s].a = l.a  BY <1>1 DEF Subject, AuthorizeOps, SamlOps
<1>3. kv[l.n].val.at \in Nat /\ <<l.a, kv[l.n].val.at>> \in demanded  BY <1>1, <1>2 DEF EntryInv, EntryOK
<1>4. PICK d \in demanded : d = <<l.a, kv[l.n].val.at>>  BY <1>3
<1>5. d[1] = l.a /\ d[2] <= sess[l.s].at  BY <1>1, <1>4
<1> QED  BY <1>2, <1>5 DEF Renewed

\* Admission, but for a fresh sign-in.
LEMMA Admits ==
    ASSUME GroundInv, NEW p \in Procs, pc[p] \in Decisions, EvalAllows(loc[p].ev, loc[p].x), "account" \in grounds[p],
           loc[p].op = "authorize" /\ (loc[p].val = "login" \/ (loc[p].age # None /\ "young" \notin grounds[p]))
               => Renewed(loc[p].a, loc[p].s, sess, demanded),
           loc[p].op = "sso" /\ reqs[loc[p].val].force => Renewed(loc[p].a, loc[p].s, sess, demanded)
    PROVE  Admitted(loc[p], grounds[p], sess, reqs, demanded)
BY AllowedGround DEF Admitted

LEMMA AuthorizeDecides ==
    ASSUME GroundStepOK, NEW p \in Procs, AuthorizeFresh(p) \/ AuthorizeReauthed(p)
    PROVE  \A q \in Procs : Ground(q)'
<1> DEFINE l == loc[p]
           G == grounds[p]
<1>0. GroundInv /\ EntryInv /\ SessOK /\ clock \in Nat  BY DEF GroundStepOK, StepOK, NameInv, NameOK
<1>1. /\ pc[p] = "azDecide" /\ EvalAllows(l.ev, l.x) /\ Goto(p, "azGrant") /\ UNCHANGED loc
      /\ ~Demands(p) \/ ReauthOK(l.n, "reauth", l.a, sess[l.s].at)
  BY Zenon DEF AuthorizeFresh, AuthorizeReauthed, Decided
<1>2. pc[p] \in Decisions  BY <1>1 DEF Decisions
<1>3. /\ Subject(l, sess, reqs, demanded) /\ Grounded(l, G) /\ Holding(p) \subseteq G /\ ReadingOf(p)
      /\ l.op \in Serving /\ Decision(l.op) = "azDecide"
  BY <1>0, <1>1, <1>2, Served
<1>4. l.op = "authorize"  BY <1>3, DecisionOps
<1>5. "account" \in G  BY <1>3, <1>4 DEF Grounded
<1>6. CASE ~Demands(p)
  <2>1. l.val # "login" /\ (l.age # None => ~(clock - sess[l.s].at > l.age))  BY <1>6 DEF Demands
  <2>2. l.s \in Sids /\ l.age \in Nat \cup {None}  BY <1>3, <1>4 DEF Subject, AuthorizeOps
  <2>3. sess[l.s].at \in Nat  BY <1>0, <2>2 DEF SessOK, SessRow
  <2>4. l.age # None => clock - sess[l.s].at <= l.age  BY <1>0, <2>1, <2>2, <2>3
  <2>5. l.age # None => "young" \in G  BY <1>3, <2>4 DEF ReadingOf
  <2>6. Admitted(l, G, sess, reqs, demanded)  BY <1>0, <1>1, <1>2, <1>4, <1>5, <2>1, <2>5, Admits
  <2> QED  BY <1>1, <1>2, <1>4, <2>6, GoesOn DEF After, Leads
<1>7. CASE ReauthOK(l.n, "reauth", l.a, sess[l.s].at)
  <2>1. Renewed(l.a, l.s, sess, demanded)  BY <1>0, <1>3, <1>4, <1>7, Reauthed
  <2>2. Admitted(l, G, sess, reqs, demanded)  BY <1>0, <1>1, <1>2, <1>4, <1>5, <2>1, Admits
  <2> QED  BY <1>1, <1>2, <1>4, <2>2, GoesOn DEF After, Leads
<1> QED  BY <1>1, <1>6, <1>7

LEMMA SsoDecides ==
    ASSUME GroundStepOK, NEW p \in Procs, SsoFresh(p)
    PROVE  \A q \in Procs : Ground(q)'
<1> DEFINE l == loc[p]
           G == grounds[p]
<1>0. GroundInv /\ EntryInv  BY DEF GroundStepOK
<1>1. /\ pc[p] = "ssoDecide" /\ EvalAllows(l.ev, l.x) /\ Goto(p, "ssoConsume") /\ UNCHANGED loc
      /\ ~reqs[l.val].force \/ ReauthOK(l.n, "samlreauth", l.a, sess[l.s].at)
  BY Zenon DEF SsoFresh, SsoAllowed
<1>2. pc[p] \in Decisions  BY <1>1 DEF Decisions
<1>3. Subject(l, sess, reqs, demanded) /\ Grounded(l, G) /\ l.op \in Serving /\ Decision(l.op) = "ssoDecide"
  BY <1>0, <1>1, <1>2, Served
<1>4. l.op = "sso"  BY <1>3, DecisionOps
<1>5. "account" \in G  BY <1>3, <1>4 DEF Grounded
<1>6. reqs[l.val].force => Renewed(l.a, l.s, sess, demanded)  BY <1>0, <1>1, <1>3, <1>4, Reauthed
<1>7. Admitted(l, G, sess, reqs, demanded)  BY <1>0, <1>1, <1>2, <1>4, <1>5, <1>6, Admits
<1> QED  BY <1>1, <1>2, <1>4, <1>7, GoesOn DEF After, Leads

LEMMA RequireDecides ==
    ASSUME GroundStepOK, NEW p \in Procs, RequireIdentityDecide(p)
    PROVE  \A q \in Procs : Ground(q)'
<1> DEFINE l == loc[p]
           G == grounds[p]
<1>0. GroundInv /\ Observe  BY DEF GroundStepOK
<1>1. /\ pc[p] = "needDecide"
      /\ Finish(p) \/ (EvalAllows(l.ev, l.x) /\ HasIdentity(l.a, l.set) /\ Goto(p, "sent") /\ UNCHANGED loc)
  BY Zenon DEF RequireIdentityDecide
<1>2. ASSUME EvalAllows(l.ev, l.x), HasIdentity(l.a, l.set), Goto(p, "sent"), UNCHANGED loc
      PROVE  \A q \in Procs : Ground(q)'
  <2>1. pc[p] \in Decisions  BY <1>1 DEF Decisions
  <2>2. /\ Subject(l, sess, reqs, demanded) /\ Grounded(l, G) /\ l.op \in Serving /\ Decision(l.op) = "needDecide"
        /\ Holding(p) \subseteq G /\ ReadingOf(p)
    BY <1>0, <1>1, <2>1, Served
  <2>3. l.op = "require"  BY <2>2, DecisionOps
  <2>4. "account" \in G  BY <2>2, <2>3 DEF Grounded
  <2>5. Admitted(l, G, sess, reqs, demanded)  BY <1>0, <1>2, <2>1, <2>3, <2>4, Admits
  <2>6. "identity" \in G  BY <1>2, <2>2, <2>3 DEF ReadingOf
  <2>7. G \subseteq grounds'[p]  BY <1>0, <1>2, <2>2, Observed
  <2>8. Answered(l, grounds'[p], reqs')  BY <2>3, <2>6, <2>7 DEF Answered
  <2> QED  BY <1>2, <2>1, <2>3, <2>5, <2>8, GoesOn DEF After, Leads
<1> QED  BY <1>1, <1>2, FinishGround

LEMMA InitDecides ==
    ASSUME GroundStepOK, NEW p \in Procs, SsoInitDecide(p)
    PROVE  \A q \in Procs : Ground(q)'
<1> DEFINE l == loc[p]
           G == grounds[p]
<1>0. GroundInv  BY DEF GroundStepOK
<1>1. pc[p] = "initDecide" /\ (Finish(p) \/ (EvalAllows(l.ev, l.x) /\ Goto(p, "ssoGrant") /\ UNCHANGED loc))
  BY Zenon DEF SsoInitDecide
<1>2. ASSUME EvalAllows(l.ev, l.x), Goto(p, "ssoGrant"), UNCHANGED loc  PROVE \A q \in Procs : Ground(q)'
  <2>1. pc[p] \in Decisions  BY <1>1 DEF Decisions
  <2>2. Grounded(l, G) /\ l.op \in Serving /\ Decision(l.op) = "initDecide"  BY <1>0, <1>1, <2>1, Served
  <2>3. l.op = "ssoinit"  BY <2>2, DecisionOps
  <2>4. "account" \in G  BY <2>2, <2>3 DEF Grounded
  <2>5. Admitted(l, G, sess, reqs, demanded)  BY <1>0, <1>2, <2>1, <2>3, <2>4, Admits
  <2> QED  BY <1>2, <2>1, <2>3, <2>5, GoesOn DEF After, Leads
<1> QED  BY <1>1, <1>2, FinishGround

LEMMA ResumeDecides ==
    ASSUME GroundStepOK, NEW p \in Procs, ResumeRecords(p)
    PROVE  \A q \in Procs : Ground(q)'
<1> DEFINE l == loc[p]
           G == grounds[p]
<1>0. GroundInv /\ Observe /\ DOMAIN consents = Accounts \X Apps  BY DEF GroundStepOK
<1>1. /\ pc[p] = "resume"
      /\ \/ Finish(p)
         \/ /\ EvalAllows(l.ev, l.x) /\ Goto(p, "resumed") /\ UNCHANGED loc
            /\ consents' = [consents EXCEPT ![<<l.a, l.x>>] = {"saml"}]
  BY Zenon DEF ResumeRecords
<1>2. ASSUME EvalAllows(l.ev, l.x), Goto(p, "resumed"), UNCHANGED loc,
             consents' = [consents EXCEPT ![<<l.a, l.x>>] = {"saml"}]
      PROVE  \A q \in Procs : Ground(q)'
  <2>1. pc[p] \in Decisions  BY <1>1 DEF Decisions
  <2>2. /\ Subject(l, sess, reqs, demanded) /\ Grounded(l, G) /\ l.op \in Serving /\ Decision(l.op) = "resume"
        /\ l.a \in Accounts /\ l.x \in Apps
    BY <1>0, <1>1, <2>1, Served
  <2>3. l.op = "resume"  BY <2>2, DecisionOps
  <2>4. "account" \in G  BY <2>2, <2>3 DEF Grounded
  <2>5. Admitted(l, G, sess, reqs, demanded)  BY <1>0, <1>2, <2>1, <2>3, <2>4, Admits
  <2>6. l.x \in SamlApps  BY <2>2, <2>3 DEF Subject, SamlOps
  <2>7. consents'[<<loc'[p].a, loc'[p].x>>] # {} /\ loc'[p].x \in SamlApps  BY <1>0, <1>2, <2>2, <2>6
  <2>8. "consent" \in Holding(p)'  BY <2>7, ReadNext DEF Readings, ReadingOf
  <2>9. "consent" \in grounds'[p]  BY <1>0, <1>2, <2>2, <2>8, Observed
  <2> QED  BY <1>2, <2>1, <2>3, <2>5, <2>9, GoesOn DEF After, Leads
<1> QED  BY <1>1, <1>2, FinishGround

LEMMA VerifyDecides ==
    ASSUME GroundStepOK, NEW p \in Procs, VerifyDecide(p)
    PROVE  \A q \in Procs : Ground(q)'
<1> DEFINE l == loc[p]
           G == grounds[p]
<1>0. GroundInv  BY DEF GroundStepOK
<1>1. /\ pc[p] = "faDecide" /\ EvalAllows(l.ev, l.x) /\ Enabled(l.a)
      /\ \/ Finish(p)
         \/ ~MaintenanceLockout(l.a) /\ UNCHANGED loc /\ (Goto(p, "sent") \/ Goto(p, "faRenew"))
  <2>1. CASE kv[loc[p].n].exp - clock > FaTTL \div 4  BY <2>1, Zenon DEF VerifyDecide, VerifyAllowed
  <2>2. CASE ~(kv[loc[p].n].exp - clock > FaTTL \div 4)  BY <2>2, Zenon DEF VerifyDecide, VerifyAllowed
  <2> QED  BY <2>1, <2>2
<1>2. ASSUME ~MaintenanceLockout(l.a), UNCHANGED loc, NEW label \in {"sent", "faRenew"}, Goto(p, label)
      PROVE  \A q \in Procs : Ground(q)'
  <2>1. pc[p] \in Decisions  BY <1>1 DEF Decisions
  <2>2. l.op \in Serving /\ Decision(l.op) = "faDecide" /\ Holding(p) \subseteq G /\ Reading(p)  BY <1>0, <1>1, <2>1, Served
  <2>3. l.op = "fa"  BY <2>2, DecisionOps
  <2>4. "account" \in G  BY <1>1, <1>2, <2>2 DEF Reading
  <2>5. Admitted(l, G, sess, reqs, demanded)  BY <1>0, <1>1, <2>1, <2>3, <2>4, Admits
  <2>6. Answered(l, grounds'[p], reqs')  BY <2>3 DEF Answered
  <2> QED  BY <1>2, <2>1, <2>3, <2>5, <2>6, GoesOn DEF After, Leads
<1> QED  BY <1>1, <1>2, FinishGround

LEMMA PatDecides ==
    ASSUME GroundStepOK, NEW p \in Procs, VerifyPatDecide(p)
    PROVE  \A q \in Procs : Ground(q)'
<1> DEFINE l == loc[p]
           G == grounds[p]
<1>0. GroundInv  BY DEF GroundStepOK
<1>1. pc[p] = "patDecide" /\ (Finish(p) \/ (EvalAllows(l.ev, l.x) /\ Goto(p, "sent") /\ UNCHANGED loc))
  BY Zenon DEF VerifyPatDecide
<1>2. ASSUME EvalAllows(l.ev, l.x), Goto(p, "sent"), UNCHANGED loc  PROVE \A q \in Procs : Ground(q)'
  <2>1. pc[p] \in Decisions  BY <1>1 DEF Decisions
  <2>2. l.op \in Serving /\ Decision(l.op) = "patDecide" /\ Grounded(l, G)  BY <1>0, <1>1, <2>1, Served
  <2>3. l.op = "pat"  BY <2>2, DecisionOps
  <2>4. "account" \in G  BY <2>2, <2>3 DEF Grounded
  <2>5. Admitted(l, G, sess, reqs, demanded)  BY <1>0, <1>2, <2>1, <2>3, <2>4, Admits
  <2>6. Answered(l, grounds'[p], reqs')  BY <2>3 DEF Answered
  <2> QED  BY <1>2, <2>1, <2>3, <2>5, <2>6, GoesOn DEF After, Leads
<1> QED  BY <1>1, <1>2, FinishGround

LEMMA AdmittedAt ==
    ASSUME GroundInv, NEW p \in Procs, pc[p] \in After
    PROVE  Leads(pc[p], loc[p].op) /\ Admitted(loc[p], grounds[p], sess, reqs, demanded)
BY DEF GroundInv, Ground, GroundOK

LEMMA MintsGround ==
    ASSUME GroundStepOK, NEW p \in Procs, AuthorizeMints(p)
    PROVE  \A q \in Procs : Ground(q)'
<1> DEFINE l == loc[p]
           G == grounds[p]
<1>0. GroundInv /\ Observe  BY DEF GroundStepOK
<1>1. pc[p] = "azGrant" /\ ~NeedsConsent(p) /\ Goto(p, "sent") /\ UNCHANGED loc  BY Zenon DEF AuthorizeMints
<1>2. pc[p] \in After  BY <1>1 DEF After
<1>3. Subject(l, sess, reqs, demanded) /\ Grounded(l, G) /\ Holding(p) \subseteq G /\ ReadingOf(p)  BY <1>0, <1>2, Served
<1>4. l.op = "authorize" /\ Admitted(l, G, sess, reqs, demanded)  BY <1>0, <1>1, <1>2, AdmittedAt DEF Leads
<1>5. l.x \notin SamlApps  BY <1>3, <1>4, AppPolicyAssumption DEF Subject, AuthorizeOps, Clients
<1>6. "consent" \in G
  <2>1. CASE ~l.opt  BY <1>3, <1>4, <2>1 DEF Grounded
  <2>2. CASE l.set \subseteq consents[<<l.a, l.x>>]  BY <1>3, <1>5, <2>2 DEF ReadingOf
  <2> QED  BY <1>1, <2>1, <2>2 DEF NeedsConsent
<1>7. loc'[p].op \in Serving  BY <1>1, <1>4 DEF Serving
<1>8. G \subseteq grounds'[p]  BY <1>0, <1>7, Observed
<1>9. Answered(l, grounds'[p], reqs')  BY <1>4, <1>6, <1>8 DEF Answered
<1> QED  BY <1>1, <1>2, <1>4, <1>9, GoesOn DEF After, Leads

LEMMA ConsumeGround ==
    ASSUME GroundStepOK, NEW p \in Procs, SsoConsume(p)
    PROVE  \A q \in Procs : Ground(q)'
<1>0. GroundInv  BY DEF GroundStepOK
<1>1. pc[p] = "ssoConsume" /\ (Finish(p) \/ (Goto(p, "ssoGrant") /\ UNCHANGED loc))  BY Zenon DEF SsoConsume
<1>2. pc[p] \in After  BY <1>1 DEF After
<1>3. loc[p].op = "sso" /\ Admitted(loc[p], grounds[p], sess, reqs, demanded)  BY <1>0, <1>1, <1>2, AdmittedAt DEF Leads
<1>4. ASSUME Goto(p, "ssoGrant"), UNCHANGED loc  PROVE \A q \in Procs : Ground(q)'
  BY <1>2, <1>3, <1>4, GoesOn DEF After, Leads
<1> QED  BY <1>1, <1>4, FinishGround

LEMMA IssuesGround ==
    ASSUME GroundStepOK, NEW p \in Procs, SsoIssues(p)
    PROVE  \A q \in Procs : Ground(q)'
<1> DEFINE l == loc[p]
           G == grounds[p]
<1>0. GroundInv /\ Observe  BY DEF GroundStepOK
<1>1. /\ pc[p] = "ssoGrant" /\ UNCHANGED reqs
      /\ consents[<<l.a, l.x>>] # {} \/ (l.val # None /\ reqs[l.val].passive)
      /\ IssueAssertion(p, l.s, l.x, l.val)
  BY Zenon DEF SsoIssues
<1>2. pc[p] \in After  BY <1>1 DEF After
<1>3. Subject(l, sess, reqs, demanded) /\ Holding(p) \subseteq G /\ ReadingOf(p)  BY <1>0, <1>2, Served
<1>4. l.op \in {"sso", "ssoinit"} /\ Admitted(l, G, sess, reqs, demanded)  BY <1>0, <1>1, <1>2, AdmittedAt DEF Leads
<1>5. l.x \in SamlApps /\ (l.op = "ssoinit" => l.val = None)  BY <1>3, <1>4 DEF Subject, SamlOps
<1>6. "consent" \in G \/ (l.op = "sso" /\ reqs[l.val].passive)  BY <1>1, <1>3, <1>4, <1>5 DEF ReadingOf
<1>7. ASSUME Goto(p, "sent"), UNCHANGED loc  PROVE \A q \in Procs : Ground(q)'
  <2>1. loc'[p].op \in Serving  BY <1>4, <1>7 DEF Serving
  <2>2. G \subseteq grounds'[p]  BY <1>0, <2>1, Observed
  <2>3. Answered(l, grounds'[p], reqs')  BY <1>1, <1>4, <1>6, <2>2 DEF Answered
  <2> QED  BY <1>2, <1>4, <1>7, <2>3, GoesOn DEF After, Leads
<1> QED  BY <1>1, <1>7, IssuedMoves, FinishGround

LEMMA ResumeGround ==
    ASSUME GroundStepOK, NEW p \in Procs, ResumeIssues(p)
    PROVE  \A q \in Procs : Ground(q)'
<1> DEFINE l == loc[p]
           G == grounds[p]
<1>0. GroundInv /\ Observe  BY DEF GroundStepOK
<1>1. pc[p] = "resumed" /\ IssueAssertion(p, l.s, l.x, l.val)  BY Zenon DEF ResumeIssues
<1>2. pc[p] \in After  BY <1>1 DEF After
<1>3. "consent" \in G  BY <1>0, <1>1 DEF GroundInv, Ground, GroundOK
<1>4. l.op = "resume" /\ Admitted(l, G, sess, reqs, demanded)  BY <1>0, <1>1, <1>2, AdmittedAt DEF Leads
<1>5. ASSUME Goto(p, "sent"), UNCHANGED loc  PROVE \A q \in Procs : Ground(q)'
  <2>1. loc'[p].op \in Serving  BY <1>4, <1>5 DEF Serving
  <2>2. G \subseteq grounds'[p]  BY <1>0, <2>1, Observed
  <2>3. Answered(l, grounds'[p], reqs')  BY <1>3, <1>4, <2>2 DEF Answered
  <2> QED  BY <1>2, <1>4, <1>5, <2>3, GoesOn DEF After, Leads
<1> QED  BY <1>1, <1>5, IssuedMoves, FinishGround

LEMMA RenewsGround ==
    ASSUME GroundStepOK, NEW p \in Procs, VerifyRenews(p)
    PROVE  \A q \in Procs : Ground(q)'
<1>0. GroundInv  BY DEF GroundStepOK
<1>1. pc[p] = "faRenew" /\ (Finish(p) \/ (Goto(p, "sent") /\ UNCHANGED loc))  BY Zenon DEF VerifyRenews
<1>2. pc[p] \in After  BY <1>1 DEF After
<1>3. loc[p].op = "fa" /\ Admitted(loc[p], grounds[p], sess, reqs, demanded)  BY <1>0, <1>1, <1>2, AdmittedAt DEF Leads
<1>4. ASSUME Goto(p, "sent"), UNCHANGED loc  PROVE \A q \in Procs : Ground(q)'
  <2>1. Answered(loc[p], grounds'[p], reqs')  BY <1>3 DEF Answered
  <2> QED  BY <1>2, <1>3, <1>4, <2>1, GoesOn DEF After, Leads
<1> QED  BY <1>1, <1>4, FinishGround

LEMMA CallbackGround ==
    ASSUME GroundStepOK, NEW p \in Procs, NEW st, NEW c \in Nonces, Callback(p, st, c)
    PROVE  \A q \in Procs : Ground(q)'
<1> DEFINE v == [Blank EXCEPT !.op = "callback", !.x = kv[st].val.x, !.g = st, !.n = c]
<1>0. FrameOK /\ Observe /\ Carried /\ \A q \in Procs : Ground(q)  BY DEF GroundStepOK, StepOK, FrameInv, GroundInv
<1>1. Set(p, v) /\ Goto(p, "callback")  BY Zenon DEF Callback
<1>2. v.n = c  BY DEF Blank
<1> HIDE DEF v
<1>3. pc'[p] = "callback" /\ loc'[p] = v /\ \A q \in Procs \ {p} : pc'[q] = pc[q] /\ loc'[q] = loc[q]
  BY <1>0, <1>1, SetFacts
<1>4. "callback" \notin {"evManual"} \cup Decisions \cup After  BY DEF Decisions, After
<1>5. Ground(p)'  BY <1>2, <1>3, <1>4 DEF Ground, GroundOK, After
<1> QED  BY <1>0, <1>3, <1>5, GroundKept

-----------------------------------------------------------------------------
(* Requests are taken on                                                     *)

\* The first half of an evaluation, in the state it leaves.
LEMMA BeginGround ==
    ASSUME GroundStepOK, NEW p \in Procs, NEW x, NEW a, NEW l, Begin(p, x, a, l), UNCHANGED <<tables, policyVars>>,
           Subject(l, sess', reqs', demanded'), apps[x].on, ~apps[x].dis,
           l.op # "fa" => Enabled(a) /\ ~MaintenanceLockout(a),
           l.op \in AuthorizeOps \cup SamlOps => sess[l.s].live /\ sess[l.s].a = a,
           l.op = "fa" => UNCHANGED kv /\ Has(l.n, "fa") /\ kv[l.n].val.x = x /\ kv[l.n].val.a = a,
           l.op = "pat" => UNCHANGED pats /\ PatLive(l.val) /\ PatGrants(l.val, x) /\ pats[l.val].a = a,
           l.op = "authorize" => l.opt = apps[x].opt
    PROVE  \A q \in Procs : Ground(q)'
<1> DEFINE m == loc'[p]
           H == grounds'[p]
           E == Facts(loc[p].a)'
<1>0. FrameOK /\ Observe /\ Carried /\ \A q \in Procs : Ground(q)  BY DEF GroundStepOK, StepOK, FrameInv, GroundInv
<1>1. /\ pc'[p] = "evManual" /\ \A q \in Procs \ {p} : pc'[q] = pc[q] /\ loc'[q] = loc[q]
      /\ \A f \in Fields \ {"ev"} : m[f] = l[f]
      /\ m.ev.restricted = apps[x].restricted /\ m.ev.facts = Facts(a) /\ m.ev.known = KnownProviders
      /\ m.op \in Serving /\ m.op = l.op /\ m.x = x /\ m.a = a
  BY <1>0, BeginFacts
<1>2. l.x = x /\ l.a = a  BY DEF Begin, Form
<1>3. m.s = l.s /\ m.n = l.n /\ m.age = l.age /\ m.val = l.val /\ m.opt = l.opt /\ m.set = l.set  BY <1>1 DEF Fields
<1>4. /\ sess' = sess /\ apps' = apps /\ acct' = acct /\ maint' = maint /\ clock' = clock
      /\ UNCHANGED <<pw, totp, keys, idps, links>>
  BY DEF tables, policyVars, factors, federated
<1>5. Holding(p)' \subseteq H  BY <1>0, <1>1, Observed
<1>6. Reading(p)' /\ ReadingOf(p)'  BY ReadNext DEF Readings
<1>7. "open" \in H  BY <1>1, <1>4, <1>5, <1>6 DEF Reading
<1>8. l.op # "fa" => "account" \in H  BY <1>1, <1>4, <1>5, <1>6 DEF Reading, Enabled, MaintenanceLockout
<1>9. l.op \in AuthorizeOps \cup SamlOps => "session" \in H  BY <1>1, <1>3, <1>4, <1>5, <1>6 DEF Reading
<1>10. l.op = "fa" => "cookie" \in H  BY <1>1, <1>3, <1>4, <1>5, <1>6 DEF ReadingOf, Has, Found
<1>11. l.op = "pat" => "pat" \in H
  BY <1>1, <1>3, <1>4, <1>5, <1>6 DEF ReadingOf, PatLive, PatGrants
<1>12. l.op = "authorize" => x \notin SamlApps
  BY <1>2, AppPolicyAssumption DEF Subject, AuthorizeOps, Clients
<1>13. l.op = "authorize" /\ ~l.opt => "consent" \in H  BY <1>1, <1>4, <1>5, <1>6, <1>12 DEF ReadingOf
<1>14. ~m.ev.restricted => "public" \in H  BY <1>1, <1>4, <1>5, <1>6 DEF Reading
<1>15. E = Facts(a) /\ KnownProviders' = KnownProviders
  <2>1. KnownProviders' = KnownProviders  BY <1>4 DEF KnownProviders
  <2>2. E = Facts(a)  BY <1>1, <1>4 DEF Facts, KeysOf, UsableSignIn
  <2> QED  BY <2>1, <2>2
<1> HIDE DEF m, H, E
<1>16. Subject(m, sess', reqs', demanded')  BY <1>1, <1>2, <1>3 DEF Subject
<1>17. Grounded(m, H)  BY <1>1, <1>3, <1>7, <1>8, <1>9, <1>10, <1>11, <1>13, <1>14 DEF Grounded
<1>18. Weighing(m, H, E, KnownProviders')  BY <1>1, <1>15 DEF Weighing
<1>19. GroundOK("evManual", m, H, sess', reqs', demanded', E, KnownProviders')
  BY <1>16, <1>17, <1>18 DEF GroundOK, Decisions, After
<1>20. Ground(p)'  BY <1>1, <1>19 DEF Ground, m, H, E
<1> QED  BY <1>0, <1>1, <1>20, GroundKept

\* A request is taken on for the account of a session.
LEMMA VisitBegins ==
    ASSUME GroundStepOK, NEW p \in Procs, NEW s \in Visits, NEW x, NEW l, Caller(s), Begin(p, x, sess[s].a, l),
           UNCHANGED <<tables, policyVars>>, l.s = s, l.op \in AuthorizeOps \cup SamlOps,
           Subject(l, sess, reqs, demanded), apps[x].on, ~apps[x].dis, l.op = "authorize" => l.opt = apps[x].opt
    PROVE  \A q \in Procs : Ground(q)'
<1>1. SessOK /\ Carried  BY DEF GroundStepOK
<1>2. s \in Sids  BY DEF Visits
<1>3. Enabled(sess[s].a) /\ ~MaintenanceLockout(sess[s].a) /\ sess[s].live  BY <1>1, <1>2, CallerHolds
<1>4. Subject(l, sess', reqs', demanded')  BY <1>1, SubjectKept
<1>5. l.op # "fa" /\ l.op # "pat"  BY DEF AuthorizeOps, SamlOps
<1> QED  BY <1>3, <1>4, <1>5, BeginGround

LEMMA AuthorizeBegins ==
    ASSUME GroundStepOK, NEW p \in Procs, NEW s \in Visits, NEW x \in Clients, NEW sc, NEW prompt, NEW age \in MaxAges,
           NEW m \in Markers("reauth"), NEW ref, Authorize(p, s, x, sc, prompt, age, m, ref)
    PROVE  \A q \in Procs : Ground(q)'
<1> DEFINE a == sess[s].a
           l == AuthorizeInput(s, a, x, sc, prompt, age, m, ref, apps[x].opt)
<1>1. Form(l, "authorize", x, a) /\ l.s = s /\ l.age = age /\ l.n = m /\ l.opt = apps[x].opt  BY AuthorizeForm
<1>2. Idle(p, "authorize") /\ Evaluate(p, x, a, l)  BY Zenon DEF Authorize, AuthorizeInput, AuthorizeRequest
<1>3. GetOIDCClient(x) /\ Caller(s) /\ UNCHANGED <<tables, policyVars>>  BY Zenon DEF Authorize
<1> HIDE DEF l
<1>4. l.op = "authorize" /\ l.x = x /\ l.a = a  BY <1>1 DEF Form
<1>5. Begin(p, x, a, l)  BY <1>1, <1>2 DEF Begin, Idle, Serving
<1>6. SessOK  BY DEF GroundStepOK
<1>7. s \in Sids  BY DEF Visits
<1>8. a \in Accounts  BY <1>3, <1>6, <1>7, CallerHolds
<1>9. age \in Nat \cup {None} /\ m \in Nonces \cup {None}  BY AuthorizeAssumption DEF MaxAges, Markers
<1>10. Subject(l, sess, reqs, demanded)
  BY <1>1, <1>4, <1>7, <1>8, <1>9 DEF Subject, Serving, AuthorizeOps, SamlOps, ForwardAuthOps
<1>11. l.op \in AuthorizeOps \cup SamlOps  BY <1>4 DEF AuthorizeOps
<1> QED  BY <1>1, <1>3, <1>5, <1>10, <1>11, VisitBegins DEF GetOIDCClient

LEMMA RequireBegins ==
    ASSUME GroundStepOK, NEW p \in Procs, NEW s \in Visits, NEW x \in Clients, NEW P, RequireIdentity(p, s, x, P)
    PROVE  \A q \in Procs : Ground(q)'
<1> DEFINE a == sess[s].a
           l == [Blank EXCEPT !.op = "require", !.s = s, !.a = sess[s].a, !.x = x, !.set = P]
<1>1. Form(l, "require", x, a) /\ l.s = s  BY DEF Form, Blank, Fields
<1>2. Idle(p, "require") /\ Evaluate(p, x, a, l)  BY Zenon DEF RequireIdentity
<1>3. GetOIDCClient(x) /\ Caller(s) /\ UNCHANGED <<tables, policyVars>>  BY Zenon DEF RequireIdentity
<1> HIDE DEF l
<1>4. l.op = "require" /\ l.x = x /\ l.a = a  BY <1>1 DEF Form
<1>5. Begin(p, x, a, l)  BY <1>1, <1>2 DEF Begin, Idle, Serving
<1>6. SessOK  BY DEF GroundStepOK
<1>7. s \in Sids  BY DEF Visits
<1>8. a \in Accounts  BY <1>3, <1>6, <1>7, CallerHolds
<1>9. Subject(l, sess, reqs, demanded)
  BY <1>1, <1>4, <1>7, <1>8 DEF Subject, Serving, AuthorizeOps, SamlOps, ForwardAuthOps
<1>10. l.op \in AuthorizeOps \cup SamlOps  BY <1>4 DEF AuthorizeOps
<1> QED  BY <1>1, <1>3, <1>4, <1>5, <1>9, <1>10, VisitBegins DEF GetOIDCClient

LEMMA SsoBeginsGround ==
    ASSUME GroundStepOK, NEW p \in Procs, NEW s \in Visits, NEW r \in Requests, NEW m \in Markers("samlreauth"),
           Sso(p, s, r, m)
    PROVE  \A q \in Procs : Ground(q)'
<1> DEFINE a == sess[s].a
           x == reqs[r].x
           l == [Blank EXCEPT !.op = "sso", !.s = s, !.a = sess[s].a, !.x = reqs[r].x, !.val = r, !.n = m]
<1>1. Form(l, "sso", x, a) /\ l.s = s /\ l.val = r /\ l.n = m  BY DEF Form, Blank, Fields
<1>2. Idle(p, "sso") /\ Evaluate(p, x, a, l)  BY Zenon DEF Sso
<1>3. Acceptable(r, "authn") /\ Caller(s) /\ UNCHANGED <<tables, policyVars>>  BY Zenon DEF Sso
<1> HIDE DEF l
<1>4. l.op = "sso" /\ l.x = x /\ l.a = a  BY <1>1 DEF Form
<1>5. Begin(p, x, a, l)  BY <1>1, <1>2 DEF Begin, Idle, Serving
<1>6. SessOK /\ ReqOK  BY DEF GroundStepOK
<1>7. s \in Sids  BY DEF Visits
<1>8. a \in Accounts  BY <1>3, <1>6, <1>7, CallerHolds
<1>9. reqs[r].kind # "none" /\ apps[x].on /\ ~apps[x].dis  BY <1>3 DEF Acceptable
<1>10. x \in SamlApps /\ m \in Nonces \cup {None}  BY <1>6, <1>9 DEF ReqOK, Markers
<1>11. Subject(l, sess, reqs, demanded)
  BY <1>1, <1>4, <1>7, <1>8, <1>9, <1>10 DEF Subject, Serving, AuthorizeOps, SamlOps, ForwardAuthOps
<1>12. l.op \in AuthorizeOps \cup SamlOps /\ l.op # "authorize"  BY <1>4 DEF SamlOps
<1> QED  BY <1>1, <1>3, <1>5, <1>9, <1>11, <1>12, VisitBegins

LEMMA InitBeginsGround ==
    ASSUME GroundStepOK, NEW p \in Procs, NEW s \in Visits, NEW x \in SamlApps, SsoInit(p, s, x)
    PROVE  \A q \in Procs : Ground(q)'
<1> DEFINE a == sess[s].a
           l == [Blank EXCEPT !.op = "ssoinit", !.s = s, !.a = sess[s].a, !.x = x]
<1>1. Form(l, "ssoinit", x, a) /\ l.s = s /\ l.val = None  BY DEF Form, Blank, Fields
<1>2. Idle(p, "ssoinit") /\ Evaluate(p, x, a, l)  BY Zenon DEF SsoInit
<1>3. Caller(s) /\ apps[x].on /\ ~apps[x].dis /\ UNCHANGED <<tables, policyVars>>  BY Zenon DEF SsoInit
<1> HIDE DEF l
<1>4. l.op = "ssoinit" /\ l.x = x /\ l.a = a  BY <1>1 DEF Form
<1>5. Begin(p, x, a, l)  BY <1>1, <1>2 DEF Begin, Idle, Serving
<1>6. SessOK  BY DEF GroundStepOK
<1>7. s \in Sids  BY DEF Visits
<1>8. a \in Accounts  BY <1>3, <1>6, <1>7, CallerHolds
<1>9. Subject(l, sess, reqs, demanded)
  BY <1>1, <1>4, <1>7, <1>8 DEF Subject, Serving, AuthorizeOps, SamlOps, ForwardAuthOps
<1>10. l.op \in AuthorizeOps \cup SamlOps /\ l.op # "authorize"  BY <1>4 DEF SamlOps
<1> QED  BY <1>1, <1>3, <1>5, <1>9, <1>10, VisitBegins

LEMMA ResumeBegins ==
    ASSUME GroundStepOK, NEW p \in Procs, NEW s \in Visits, NEW n \in Nonces, ConsentResume(p, s, n)
    PROVE  \A q \in Procs : Ground(q)'
<1> DEFINE t == kv[n].val
           l == [Blank EXCEPT !.op = "resume", !.s = s, !.a = t.a, !.x = t.x, !.val = t.ref, !.n = n]
<1>1. Form(l, "resume", t.x, t.a) /\ l.s = s /\ l.val = t.ref  BY DEF Form, Blank, Fields
<1>2. Idle(p, "samlconsent") /\ Caller(s) /\ Has(n, "samlticket") /\ UNCHANGED <<tables, policyVars>>
  BY Zenon DEF ConsentResume
<1>3. \/ t.a = sess[s].a /\ apps[t.x].on /\ ~apps[t.x].dis /\ Evaluate(p, t.x, t.a, l)
      \/ UNCHANGED <<pc, loc>>
  BY Zenon DEF ConsentResume, frame
<1> HIDE DEF l
<1>4. l.op = "resume" /\ l.x = t.x /\ l.a = t.a  BY <1>1 DEF Form
<1>5. SessOK /\ EntryInv  BY DEF GroundStepOK
<1>6. s \in Sids  BY DEF Visits
<1>7. Found(kv, n, clock) /\ t.kind = "samlticket"  BY <1>2 DEF Has
<1>8. t.x \in SamlApps /\ t.a \in Accounts /\ Resumable(t.ref, t.a, sess, reqs, demanded)  BY <1>5, <1>7 DEF EntryInv, EntryOK
<1> HIDE DEF t
<1>9. ASSUME t.a = sess[s].a, apps[t.x].on, ~apps[t.x].dis, Evaluate(p, t.x, t.a, l)
      PROVE  \A q \in Procs : Ground(q)'
  <2>1. Begin(p, t.x, sess[s].a, l)  BY <1>1, <1>2, <1>9 DEF Begin, Idle, Serving
  <2>2. Subject(l, sess, reqs, demanded)
    BY <1>1, <1>4, <1>6, <1>8, <1>9 DEF Subject, Serving, AuthorizeOps, SamlOps, ForwardAuthOps
  <2>3. l.op \in AuthorizeOps \cup SamlOps /\ l.op # "authorize"  BY <1>4 DEF SamlOps
  <2> QED  BY <1>1, <1>2, <1>9, <2>1, <2>2, <2>3, VisitBegins
<1> QED  BY <1>3, <1>9, QuietGround

LEMMA VerifyBegins ==
    ASSUME GroundStepOK, NEW p \in Procs, NEW x \in FaApps, NEW n \in Nonces, Verify(p, x, n)
    PROVE  \A q \in Procs : Ground(q)'
<1> DEFINE a == kv[n].val.a
           l == [Blank EXCEPT !.op = "fa", !.a = kv[n].val.a, !.x = x, !.n = n, !.val = kv[n].val]
<1>1. Form(l, "fa", x, a) /\ l.n = n  BY DEF Form, Blank, Fields
<1>2. Idle(p, "verify") /\ Evaluate(p, x, a, l)  BY Zenon DEF Verify
<1>3. Guards(x) /\ Has(n, "fa") /\ kv[n].val.x = x /\ UNCHANGED <<tables, policyVars>> /\ UNCHANGED kv
  BY Zenon DEF Verify, authorizeVars
<1> HIDE DEF l
<1>4. l.op = "fa" /\ l.x = x /\ l.a = a  BY <1>1 DEF Form
<1>5. Begin(p, x, a, l)  BY <1>1, <1>2 DEF Begin, Idle, Serving
<1>6. EntryInv /\ Carried  BY DEF GroundStepOK
<1>7. a \in Accounts  BY <1>3, <1>6 DEF Has, EntryInv, EntryOK
<1>8. Subject(l, sess, reqs, demanded)
  BY <1>1, <1>4, <1>7 DEF Subject, Serving, AuthorizeOps, SamlOps, ForwardAuthOps
<1>9. Subject(l, sess', reqs', demanded')  BY <1>6, <1>8, SubjectKept
<1>10. l.op \notin AuthorizeOps \cup SamlOps  BY <1>4 DEF AuthorizeOps, SamlOps
<1> QED  BY <1>1, <1>3, <1>4, <1>5, <1>9, <1>10, BeginGround DEF Guards

LEMMA PatBegins ==
    ASSUME GroundStepOK, NEW p \in Procs, NEW x \in FaApps, NEW t \in Pats, VerifyPat(p, x, t)
    PROVE  \A q \in Procs : Ground(q)'
<1> DEFINE a == pats[t].a
           l == [Blank EXCEPT !.op = "pat", !.a = pats[t].a, !.x = x, !.val = t]
<1>1. Form(l, "pat", x, a) /\ l.val = t  BY DEF Form, Blank, Fields
<1>2. Idle(p, "pat") /\ Evaluate(p, x, a, l)  BY Zenon DEF VerifyPat
<1>3. Guards(x) /\ PatLive(t) /\ Enabled(a) /\ ~MaintenanceLockout(a) /\ PatGrants(t, x)  BY Zenon DEF VerifyPat
<1>4. UNCHANGED <<tables, policyVars>> /\ UNCHANGED pats  BY Zenon DEF VerifyPat, faVars
<1> HIDE DEF l
<1>5. l.op = "pat" /\ l.x = x /\ l.a = a  BY <1>1 DEF Form
<1>6. Begin(p, x, a, l)  BY <1>1, <1>2 DEF Begin, Idle, Serving
<1>7. PatOK /\ Carried  BY DEF GroundStepOK
<1>8. a \in Accounts  BY <1>3, <1>7 DEF PatLive, PatOK, PatRow, Owners
<1>9. Subject(l, sess, reqs, demanded)
  BY <1>1, <1>5, <1>8 DEF Subject, Serving, AuthorizeOps, SamlOps, ForwardAuthOps
<1>10. Subject(l, sess', reqs', demanded')  BY <1>7, <1>9, SubjectKept
<1>11. l.op \notin AuthorizeOps \cup SamlOps  BY <1>5 DEF AuthorizeOps, SamlOps
<1> QED  BY <1>1, <1>3, <1>4, <1>5, <1>6, <1>10, <1>11, BeginGround DEF Guards

-----------------------------------------------------------------------------
(* The steps of each component                                               *)

\* A request goes where nothing is asked of it.
LEMMA LeavesGround ==
    ASSUME GroundStepOK, NEW p \in Procs, NEW label, label \notin Busy, NEW v, Goto(p, label), Set(p, v)
    PROVE  \A q \in Procs : Ground(q)'
<1>1. FrameOK  BY DEF GroundStepOK, StepOK, FrameInv
<1>2. pc'[p] = label /\ \A q \in Procs \ {p} : pc'[q] = pc[q] /\ loc'[q] = loc[q]  BY <1>1, SetFacts
<1> QED  BY <1>2, StaysOrLeaves

LEMMA AuthorizeGround ==
    ASSUME GroundStepOK, AuthorizeNext
    PROVE  \A q \in Procs : Ground(q)'
<1> DEFINE Done == \A q \in Procs : Ground(q)'
<1>1. ASSUME NEW s \in Visits, NEW x \in Clients, NEW p \in Procs, NEW sc \in Requested, NEW prompt \in Prompts,
             NEW age \in MaxAges, NEW m \in Markers("reauth"), NEW ref, Authorize(p, s, x, sc, prompt, age, m, ref)
      PROVE  Done
  BY <1>1, AuthorizeBegins
<1>2. ASSUME NEW s \in Visits, NEW x \in Clients, NEW p \in Procs, NEW P, RequireIdentity(p, s, x, P)
      PROVE  Done
  BY <1>2, RequireBegins
<1>3. ASSUME NEW s, NEW x, RevokeConsent(s, x) \/ \E P : RequireIdentityMismatch(s, x, P)  PROVE Done
  <2>1. UNCHANGED <<pc, loc>>  BY <1>3, Zenon DEF RevokeConsent, RequireIdentityMismatch, frame
  <2> QED  BY <2>1, QuietGround
<1>4. ASSUME NEW p \in Procs, AuthorizeDenied(p) \/ AuthorizeReauthFails(p) \/ AuthorizeAsks(p) \/ ConsentApproved(p)
      PROVE  Done
  <2>1. Finish(p)  BY <1>4, Zenon DEF AuthorizeDenied, AuthorizeReauthFails, AuthorizeAsks, ConsentApproved
  <2> QED  BY <2>1, FinishGround
<1>5. ASSUME NEW p \in Procs, AuthorizeFresh(p) \/ AuthorizeReauthed(p)  PROVE Done  BY <1>5, AuthorizeDecides
<1>6. ASSUME NEW p \in Procs, AuthorizeMints(p)  PROVE Done  BY <1>6, MintsGround
<1>7. ASSUME NEW p \in Procs, RequireIdentityDecide(p)  PROVE Done  BY <1>7, RequireDecides
<1>8. ASSUME NEW p \in Procs, NEW s, NEW n, NEW b, ConsentDecision(p, s, n, b)  PROVE Done
  <2>1. UNCHANGED <<pc, loc>> \/ (Goto(p, "consentWrite") /\ \E v : Set(p, v))  BY <1>8, Zenon DEF ConsentDecision, frame
  <2>2. "consentWrite" \notin Busy  BY DEF Busy, Decisions, After
  <2> QED  BY <2>1, <2>2, QuietGround, LeavesGround
<1> HIDE DEF Done
<1>9. ASSUME \E s \in Visits, x \in Clients :
        \/ \E p \in Procs, sc \in Requested, prompt \in Prompts, age \in MaxAges :
           \E m \in Markers("reauth"), ref \in IF x \in FaApps THEN 0..handed ELSE {0} :
               Authorize(p, s, x, sc, prompt, age, m, ref)
        \/ \E P \in SUBSET Idps :
            \/ RequireIdentityMismatch(s, x, P)
            \/ \E p \in Procs : RequireIdentity(p, s, x, P)
      PROVE  Done
  BY <1>1, <1>2, <1>3, <1>9, Zenon
<1>10. ASSUME \E p \in Procs :
        \/ AuthorizeDenied(p) \/ AuthorizeFresh(p) \/ AuthorizeReauthed(p) \/ AuthorizeReauthFails(p)
        \/ AuthorizeAsks(p) \/ AuthorizeMints(p) \/ RequireIdentityDecide(p)
        \/ \E s \in Visits, n \in Nonces, b \in BOOLEAN : ConsentDecision(p, s, n, b)
        \/ ConsentApproved(p)
      PROVE  Done
  BY <1>4, <1>5, <1>6, <1>7, <1>8, <1>10, Zenon
<1>11. Done  BY <1>3, <1>9, <1>10, Zenon DEF AuthorizeNext
<1> QED  BY <1>11 DEF Done

LEMMA SamlGround ==
    ASSUME GroundStepOK, SamlNext
    PROVE  \A q \in Procs : Ground(q)'
<1> DEFINE Done == \A q \in Procs : Ground(q)'
<1>1. ASSUME NEW p \in Procs, NEW s \in Visits, NEW r \in Requests, NEW m \in Markers("samlreauth"), Sso(p, s, r, m)
      PROVE  Done
  BY <1>1, SsoBeginsGround
<1>2. ASSUME NEW p \in Procs, NEW s \in Visits, NEW x \in SamlApps, SsoInit(p, s, x)  PROVE Done  BY <1>2, InitBeginsGround
<1>3. ASSUME NEW p \in Procs, NEW s \in Visits, NEW n \in Nonces, ConsentResume(p, s, n)  PROVE Done  BY <1>3, ResumeBegins
<1>4. ASSUME \/ \E r, kind, x, skew, pa, fo, a : SendRequest(r, kind, x, skew, pa, fo, a)
             \/ \E r : SsoNoSession(r) \/ SloAborts(r)
             \/ \E s, n : SamlDecline(s, n)
      PROVE  Done
  <2>1. UNCHANGED <<pc, loc>>  BY <1>4, Zenon DEF SendRequest, SsoNoSession, SloAborts, SamlDecline, frame
  <2> QED  BY <2>1, QuietGround
<1>5. ASSUME NEW p \in Procs, SsoRefused(p) \/ SsoLosesSession(p) \/ SsoReauthFails(p) \/ SsoAsks(p) \/ SloDone(p)
      PROVE  Done
  <2>1. Finish(p)  BY <1>5, Zenon DEF SsoRefused, SsoLosesSession, SsoReauthFails, SsoAsks, SloDone
  <2> QED  BY <2>1, FinishGround
<1>6. ASSUME NEW p \in Procs, SsoFresh(p) \/ SsoConsume(p) \/ SsoIssues(p) \/ SsoInitDecide(p)  PROVE Done
  BY <1>6, SsoDecides, ConsumeGround, IssuesGround, InitDecides
<1>7. ASSUME NEW p \in Procs, ResumeRecords(p) \/ ResumeIssues(p)  PROVE Done  BY <1>7, ResumeDecides, ResumeGround
<1>8. "slo" \notin Busy  BY DEF Busy, Decisions, After
<1>9. ASSUME NEW p \in Procs, NEW r, Slo(p, r)  PROVE Done
  <2>1. Goto(p, "slo") /\ \E v : Set(p, v)  BY <1>9, Zenon DEF Slo
  <2> QED  BY <1>8, <2>1, LeavesGround
<1>10. ASSUME NEW p \in Procs, NEW s, NEW ok, SloRow(p, s, ok)  PROVE Done
  <2>1. FrameOK  BY DEF GroundStepOK, StepOK, FrameInv
  <2>2. pc[p] = "slo" /\ UNCHANGED pc /\ \E v : Set(p, v)  BY <1>10, Zenon DEF SloRow
  <2>3. pc'[p] = "slo" /\ \A q \in Procs \ {p} : pc'[q] = pc[q] /\ loc'[q] = loc[q]  BY <2>1, <2>2 DEF Set, FrameOK
  <2> QED  BY <1>8, <2>3, StaysOrLeaves
<1> HIDE DEF Done
<1>11. ASSUME \E p \in Procs :
        \/ \E s \in Visits, r \in Requests, m \in Markers("samlreauth") : Sso(p, s, r, m)
        \/ SsoRefused(p) \/ SsoLosesSession(p) \/ SsoFresh(p) \/ SsoConsume(p) \/ SsoIssues(p)
        \/ SsoReauthFails(p) \/ SsoAsks(p)
        \/ \E s \in Visits, x \in SamlApps : SsoInit(p, s, x)
        \/ SsoInitDecide(p)
        \/ \E s \in Visits, n \in Nonces : ConsentResume(p, s, n)
        \/ ResumeRecords(p) \/ ResumeIssues(p)
        \/ \E r \in Requests : Slo(p, r)
        \/ \E s \in Sids, ok \in BOOLEAN : SloRow(p, s, ok)
        \/ SloDone(p)
      PROVE  Done
  BY <1>1, <1>2, <1>3, <1>5, <1>6, <1>7, <1>9, <1>10, <1>11, Zenon
<1>12. Done  BY <1>4, <1>11, Zenon DEF SamlNext
<1> QED  BY <1>12 DEF Done

LEMMA ForwardAuthGround ==
    ASSUME GroundStepOK, ForwardAuthNext
    PROVE  \A q \in Procs : Ground(q)'
<1> DEFINE Done == \A q \in Procs : Ground(q)'
<1>1. ASSUME NEW p \in Procs, NEW x \in FaApps, NEW n \in Nonces, Verify(p, x, n)  PROVE Done  BY <1>1, VerifyBegins
<1>2. ASSUME NEW p \in Procs, NEW x \in FaApps, NEW t \in Pats, VerifyPat(p, x, t)  PROVE Done  BY <1>2, PatBegins
<1>3. ASSUME NEW p \in Procs, NEW st, NEW c \in Nonces, Callback(p, st, c)  PROVE Done  BY <1>3, CallbackGround
<1>4. ASSUME NEW p \in Procs, VerifyDecide(p) \/ VerifyRenews(p) \/ VerifyPatDecide(p)  PROVE Done
  BY <1>4, VerifyDecides, RenewsGround, PatDecides
<1>5. ASSUME NEW p \in Procs, VerifyDenied(p) \/ CallbackMints(p)  PROVE Done
  <2>1. Finish(p)  BY <1>5, Zenon DEF VerifyDenied, CallbackMints
  <2> QED  BY <2>1, FinishGround
<1>6. ASSUME \/ \E s, t, access, A, b : CreateToken(s, t, access, A, b)
             \/ \E s, t : RevokeToken(s, t)
             \/ \E n : SignOut(n)
             \/ \E x : VerifyRedirects(x)
      PROVE  Done
  <2>1. UNCHANGED <<pc, loc>>  BY <1>6, Zenon DEF CreateToken, RevokeToken, SignOut, VerifyRedirects, frame
  <2> QED  BY <2>1, QuietGround
<1> HIDE DEF Done
<1>7. ASSUME \E p \in Procs :
        \/ \E x \in FaApps, n \in Nonces : Verify(p, x, n)
        \/ VerifyDecide(p) \/ VerifyRenews(p) \/ VerifyDenied(p) \/ VerifyPatDecide(p)
        \/ \E st, c \in Nonces : c <= handed /\ Callback(p, st, c)
        \/ CallbackMints(p)
        \/ \E x \in FaApps, t \in Pats : VerifyPat(p, x, t)
      PROVE  Done
  BY <1>1, <1>2, <1>3, <1>4, <1>5, <1>7, Zenon
<1>8. Done  BY <1>6, <1>7, Zenon DEF ForwardAuthNext
<1> QED  BY <1>8 DEF Done

LEMMA GroundStep ==
    ASSUME GroundStepOK, Next
    PROVE  GroundInv'
<1> DEFINE Done == \A q \in Procs : Ground(q)'
<1>0. FrameOK /\ Observe  BY DEF GroundStepOK, StepOK, FrameInv
<1>1. ComponentStep  BY <1>0, StepSplit
<1>2. ASSUME NEW L, Moves(L), L \cap Busy = {}  PROVE Done
  <2>1. \A q \in Procs : (pc'[q] = pc[q] /\ loc'[q] = loc[q]) \/ pc'[q] \notin Busy  BY <1>2 DEF Moves
  <2> QED  BY <2>1, StaysOrLeaves
<1>3. (PolicyAt \cup KeysAt \cup CommandsAt) \cap Busy = {}
  BY DEF PolicyAt, KeysAt, CommandsAt, Busy, Decisions, After
<1>4. ASSUME Moves(PolicyAt) \/ Moves(KeysAt) \/ Moves(CommandsAt)  PROVE Done  BY <1>2, <1>3, <1>4
<1>5. ASSUME NEW p \in Procs, EvalManual(p)  PROVE Done  BY <1>5, EvalGround
<1>6. ASSUME NEW p \in Procs, ReplaceGroupsCommit(p) \/ Ends(p) \/ Deletes(p)  PROVE Done
  <2>1. Finish(p)  BY <1>6, Zenon DEF ReplaceGroupsCommit, Ends, Deletes
  <2> QED  BY <2>1, FinishGround
<1>7. ASSUME NEW p \in Procs, NEW s, NEW x, NEW G, ReplaceGroups(p, s, x, G)  PROVE Done
  <2>1. pc'[p] = "replace" /\ \A q \in Procs \ {p} : pc'[q] = pc[q] /\ loc'[q] = loc[q]  BY <1>0, <1>7, ReplaceFacts
  <2>2. "replace" \notin Busy  BY DEF Busy, Decisions, After
  <2> QED  BY <2>1, <2>2, StaysOrLeaves
<1>8. ASSUME AuthorizeNext \/ SamlNext \/ ForwardAuthNext  PROVE Done
  BY <1>8, AuthorizeGround, SamlGround, ForwardAuthGround
<1>9. ASSUME SurroundingsKept  PROVE Done
  <2>1. UNCHANGED <<pc, loc>>  BY <1>9, Zenon DEF SurroundingsKept, frame
  <2> QED  BY <2>1, QuietGround
<1> HIDE DEF Done
<1>10. Done  BY <1>1, <1>4, <1>5, <1>6, <1>7, <1>8, <1>9, Zenon DEF ComponentStep
<1> QED  BY <1>0, <1>10, HeldStep DEF Done, GroundInv

-----------------------------------------------------------------------------
(* The invariant                                                             *)

TableInv == FrameInv /\ NameInv /\ ScopeInv /\ ConsentInv /\ SessOK /\ PatOK /\ ReqOK /\ DecInv

IssueInv == TableInv /\ EntryInv /\ GroundInv

LEMMA TableInit == Init => TableInv
<1> SUFFICES ASSUME Init  PROVE TableInv
  OBVIOUS
<1>1. FrameInv /\ NameInv /\ ScopeInv  BY FrameInit, NameInit, ScopeInit
<1>2. ConsentInv
  <2>1. /\ consents = [y \in Accounts \X Apps |->
             IF y[1] # User \/ ~apps[y[2]].on \/ y[2] \in FaApps THEN {}
             ELSE Starts("consented", IF y[2] \in SamlApps THEN {"saml"} ELSE Scopes, {})]
        /\ AuthorizeInit
    BY Zenon DEF Init
  <2> QED  BY <2>1 DEF AuthorizeInit, ConsentInv, ConsentHolds
<1>3. SessOK
  <2>1. sess = [s \in Sids |-> CASE s = 1 -> [NoSession EXCEPT !.a = Root, !.live = TRUE]
                                 [] s = 2 -> [NoSession EXCEPT !.a = User, !.live = TRUE]
                                 [] OTHER -> NoSession]
    BY Zenon DEF Init
  <2>2. SessRow(NoSession) /\ \A a \in Accounts : SessRow([NoSession EXCEPT !.a = a, !.live = TRUE])
    BY DEF SessRow, SessFields, NoSession
  <2>3. Root \in Accounts /\ User \in Accounts  BY ApplicationsAssumption
  <2> DEFINE r == [NoSession EXCEPT !.a = Root, !.live = TRUE]
             u == [NoSession EXCEPT !.a = User, !.live = TRUE]
  <2>4. SessRow(r) /\ SessRow(u)  BY <2>2, <2>3
  <2> HIDE DEF r, u
  <2>5. sess = [s \in Sids |-> CASE s = 1 -> r [] s = 2 -> u [] OTHER -> NoSession]  BY <2>1 DEF r, u
  <2> QED  BY <2>2, <2>4, <2>5 DEF SessOK
<1>4. PatOK
  <2> DEFINE v == [NoPat EXCEPT !.a = User, !.access = "selected_apps", !.apps = {FirstOf(FaApps)}, !.exp = clock + PatTTL]
  <2>1. pats = [t \in Pats |-> IF t = FirstOf(Pats) THEN Starts("token", v, NoPat) ELSE NoPat]  BY Zenon DEF Init
  <2>2. PatRow(NoPat) /\ PatRow(v)  BY ApplicationsAssumption DEF PatRow, PatFields, NoPat, Owners
  <2> HIDE DEF v
  <2> QED  BY <2>1, <2>2 DEF PatOK, Starts
<1>5. ReqOK
  <2>1. SamlInit  BY Zenon DEF Init
  <2>2. reqs = [r \in Requests |-> NoReq] /\ NoReq.kind = "none"  BY <2>1 DEF SamlInit, NoReq
  <2> QED  BY <2>2 DEF ReqOK
<1>6. DecInv
  <2> DEFINE m == [kind |-> "manual", rule |-> None]
             c == [kind |-> "rule", rule |-> [op |-> "", kids |-> <<>>, fact |-> <<"provider", Idp>>]]
  <2>1. /\ groups = [g \in Groups |-> CASE g = FirstOf(Groups) -> m [] "bare" \in ops -> NoGroup [] OTHER -> c]
        /\ dec = [y \in Groups \X Accounts |-> IF groups[y[1]].kind = "manual" /\ y[2] = User
                                               THEN Starts("allowed", "allow", "none") ELSE "none"]
        /\ pc = [p \in Procs |-> "idle"]
    BY Zenon DEF Init
  <2>2. GroupRow(m) /\ GroupRow(c) /\ GroupRow(NoGroup)  BY DEF GroupRow, NoGroup
  <2> HIDE DEF m, c
  <2>3. DOMAIN groups = Groups /\ \A g \in Groups : GroupRow(groups[g])  BY <2>1, <2>2
  <2>4. ASSUME NEW g \in Groups, NEW a \in Accounts
        PROVE  dec[<<g, a>>] \in Effects /\ (dec[<<g, a>>] # "none" => groups[g].kind = "manual")
    BY <2>1 DEF Starts, Effects
  <2>5. DecideOK  BY <2>1 DEF DecideOK
  <2> QED  BY <2>1, <2>3, <2>4, <2>5 DEF DecInv, DecOK
<1> QED  BY <1>1, <1>2, <1>3, <1>4, <1>5, <1>6 DEF TableInv

LEMMA IssueInit == Init => IssueInv
<1> SUFFICES ASSUME Init  PROVE IssueInv
  OBVIOUS
<1>1. TableInv  BY TableInit
<1>2. EntryInv
  <2> DEFINE v == [NoVal EXCEPT !.kind = "fa", !.a = User, !.x = FirstOf(FaApps)]
  <2>1. v.kind = "fa" /\ v.a \in Accounts  BY ApplicationsAssumption DEF NoVal
  <2>2. kv = [n \in Nonces |-> IF n <= handed THEN Entry(v, clock + 1) ELSE NoEntry] /\ clock = 1  BY Zenon DEF Init
  <2> HIDE DEF v
  <2>3. Entry(v, clock + 1).val = v /\ NoEntry.exp = 0  BY DEF Entry, NoEntry
  <2>4. ASSUME NEW n \in Nonces, Found(kv, n, clock)  PROVE kv[n].val = v
    <3>1. kv[n] # NoEntry  BY <2>2, <2>3, <2>4 DEF Found
    <3> QED  BY <2>2, <2>3, <3>1
  <2> QED  BY <2>1, <2>4 DEF EntryInv, EntryOK
<1>3. GroundInv
  <2>1. pc = [p \in Procs |-> "idle"] /\ loc = [p \in Procs |-> Blank] /\ grounds = [p \in Procs |-> {}]
    BY Zenon DEF Init
  <2>2. "idle" \notin Busy  BY DEF Busy, Decisions, After
  <2>3. \A p \in Procs : Ground(p)  BY <2>1, <2>2, LooseGround DEF Ground
  <2>4. \A p \in Procs : loc[p].op \notin Serving  BY <2>1 DEF Blank, Serving
  <2> QED  BY <2>1, <2>3, <2>4 DEF GroundInv, Held
<1> QED  BY <1>1, <1>2, <1>3 DEF IssueInv

\* What is stored next is known from where a request stands.
LEMMA Sources ==
    ASSUME GroundInv, NEW p \in Procs
    PROVE  Source(p)
<1> DEFINE l == loc[p]
<1>1. GroundOK(pc[p], l, grounds[p], sess, reqs, demanded, Facts(l.a), KnownProviders)  BY DEF GroundInv, Ground
<1>2. pc[p] = "callback" => l.n \in Nonces  BY <1>1 DEF GroundOK
<1>3. ASSUME pc[p] \in {"azGrant", "ssoGrant"}
      PROVE  Subject(l, sess, reqs, demanded) /\ Leads(pc[p], l.op) /\ Admitted(l, grounds[p], sess, reqs, demanded)
  BY <1>1, <1>3 DEF GroundOK, After
<1>4. pc[p] = "azGrant" => l.a \in Accounts  BY <1>3 DEF Subject
<1>5. ASSUME pc[p] = "ssoGrant"
      PROVE  l.x \in SamlApps /\ l.a \in Accounts /\ Resumable(l.val, l.a, sess, reqs, demanded)
  <2>1. l.op \in {"sso", "ssoinit"}  BY <1>3, <1>5 DEF Leads
  <2>2. l.x \in SamlApps /\ l.a \in Accounts /\ l.s \in Sids  BY <1>3, <1>5, <2>1 DEF Subject, SamlOps
  <2>3. CASE l.op = "ssoinit"  BY <1>3, <1>5, <2>2, <2>3 DEF Subject, Resumable
  <2>4. CASE l.op = "sso"  BY <1>3, <1>5, <2>2, <2>4 DEF Subject, Admitted, Resumable
  <2> QED  BY <2>1, <2>3, <2>4
<1> QED  BY <1>2, <1>4, <1>5 DEF Source

\* Nothing changes.
LEMMA GroundStutters ==
    ASSUME GroundInv, UNCHANGED vars
    PROVE  GroundInv'
<1>1. /\ UNCHANGED <<clock, maint, acct, sess, pw, totp, keys, idps, links, pc, loc>>
      /\ UNCHANGED <<apps, groups, dec, kv, consents, demanded, reqs, pats, grounds>>
  <2>1. UNCHANGED <<directory, policyVars, authorizeVars>> /\ UNCHANGED <<samlVars, faVars, grounds>>  BY Zenon DEF vars
  <2>2. UNCHANGED <<clock, maint, acct, sess, pw, totp, keys, idps, links, pc, loc>>
    BY <2>1, Zenon DEF directory, tables, factors, federated, frame
  <2>3. UNCHANGED <<apps, groups, dec, kv, consents, demanded, reqs, pats, grounds>>
    BY <2>1, Zenon DEF policyVars, authorizeVars, authorizeHistory, samlVars, faVars
  <2> QED  BY <2>2, <2>3
<1>2. KnownProviders' = KnownProviders  BY <1>1 DEF KnownProviders
<1>3. ASSUME NEW q \in Procs  PROVE Facts(loc[q].a)' = Facts(loc[q].a)
  BY <1>1 DEF Facts, KeysOf, UsableSignIn
<1>4. ASSUME NEW q \in Procs  PROVE Ground(q)'
  BY <1>1, <1>2, <1>3 DEF GroundInv, Ground
<1>5. ASSUME NEW q \in Procs  PROVE Holding(q)' = Holding(q)
  BY <1>1, <1>2, <1>3 DEF Holding, RulesOf, Attached, Enabled, MaintenanceLockout, HasIdentity, Has, Found
<1>6. ASSUME NEW q \in Procs  PROVE Held(q)'  BY <1>1, <1>5 DEF GroundInv, Held
<1> QED  BY <1>1, <1>4, <1>6 DEF GroundInv

LEMMA IssueStep ==
    ASSUME IssueInv, [Next]_vars
    PROVE  IssueInv'
<1>0. TableInv /\ EntryInv /\ GroundInv  BY DEF IssueInv
<1>1. FrameInv /\ NameInv /\ ScopeInv /\ ConsentInv /\ SessOK /\ PatOK /\ ReqOK /\ DecInv  BY <1>0 DEF TableInv
<1>2. SessOK' /\ SessKept /\ ReqOK' /\ ReqKept /\ demanded \subseteq demanded'  BY <1>1, SessStep, ReqStep, Demanded
<1>3. Carried  BY <1>2 DEF Carried
<1>4. TableInv'
  BY <1>1, <1>2, FrameStep, NameStep, ScopeStep, ConsentStep, PatStep, DecStep DEF TableInv
<1>5. StepOK  BY <1>1 DEF StepOK
<1>6. EntryInv'
  <2>1. EntryStepOK  BY <1>0, <1>3, <1>5 DEF EntryStepOK
  <2> QED  BY <1>0, <2>1, Sources, EntryStep
<1>7. GroundInv'
  <2>1. CASE UNCHANGED vars  BY <1>0, <2>1, GroundStutters
  <2>2. CASE Next
    <3>1. Observe  BY <2>2, Zenon DEF Next
    <3>2. GroundStepOK  BY <1>0, <1>1, <1>3, <1>5, <3>1 DEF GroundStepOK, DecInv, ScopeInv, ConsentInv
    <3> QED  BY <2>2, <3>2, GroundStep
  <2> QED  BY <2>1, <2>2
<1> QED  BY <1>4, <1>6, <1>7 DEF IssueInv

LEMMA GroundsDo == GroundInv => IssuedOnGrounds
<1> SUFFICES ASSUME GroundInv, NEW p \in Procs, pc[p] = "sent"
             PROVE  LET l == loc[p] G == grounds[p]
                        forced == IF l.op = "authorize" THEN l.val = "login" \/ (l.age # None /\ "young" \notin G)
                                  ELSE l.op \in {"sso", "resume"} /\ l.val # None /\ reqs[l.val].force
                    IN  /\ {"open", "account"} \subseteq G
                        /\ {"valid", "torn"} \cap G # {}
                        /\ "public" \in G \/ ("undenied" \in G /\ {"allowed", "matched", "torn"} \cap G # {})
                        /\ CASE l.op = "fa" -> "cookie" \in G
                             [] l.op = "pat" -> "pat" \in G
                             [] l.op = "require" -> {"session", "identity"} \subseteq G
                             [] l.op = "sso" -> "session" \in G /\ ("consent" \in G \/ reqs[l.val].passive)
                             [] OTHER -> {"session", "consent"} \subseteq G
                        /\ forced => \E d \in demanded, s \in Sids :
                               /\ d[1] = l.a /\ sess[s].a = l.a /\ d[2] <= sess[s].at
                               /\ l.op # "resume" => s = l.s
  BY DEF IssuedOnGrounds
<1> DEFINE l == loc[p]
           G == grounds[p]
           forced == IF l.op = "authorize" THEN l.val = "login" \/ (l.age # None /\ "young" \notin G)
                     ELSE l.op \in {"sso", "resume"} /\ l.val # None /\ reqs[l.val].force
<1>1. /\ Subject(l, sess, reqs, demanded) /\ Grounded(l, G) /\ Admitted(l, G, sess, reqs, demanded)
      /\ Answered(l, G, reqs)
  BY DEF GroundInv, Ground, GroundOK, After
<1>2. {"open", "account"} \subseteq G  BY <1>1 DEF Grounded, Admitted
<1>3. /\ {"valid", "torn"} \cap G # {}
      /\ "public" \in G \/ ("undenied" \in G /\ {"allowed", "matched", "torn"} \cap G # {})
  BY <1>1 DEF Admitted
<1>4. l.op \in Serving  BY <1>1 DEF Subject
<1>5. /\ l.op = "fa" => "cookie" \in G
      /\ l.op = "pat" => "pat" \in G
      /\ l.op = "require" => {"session", "identity"} \subseteq G
      /\ l.op = "sso" => "session" \in G /\ ("consent" \in G \/ reqs[l.val].passive)
      /\ l.op \in {"authorize", "ssoinit", "resume"} => {"session", "consent"} \subseteq G
  BY <1>1 DEF Grounded, Answered, AuthorizeOps, SamlOps
<1>6. (CASE l.op = "fa" -> "cookie" \in G
        [] l.op = "pat" -> "pat" \in G
        [] l.op = "require" -> {"session", "identity"} \subseteq G
        [] l.op = "sso" -> "session" \in G /\ ("consent" \in G \/ reqs[l.val].passive)
        [] OTHER -> {"session", "consent"} \subseteq G)
  BY <1>4, <1>5 DEF Serving
<1>7. ASSUME forced
      PROVE  \E d \in demanded, s \in Sids :
                 /\ d[1] = l.a /\ sess[s].a = l.a /\ d[2] <= sess[s].at
                 /\ l.op # "resume" => s = l.s
  <2>1. ASSUME NEW s \in Sids, Renewed(l.a, s, sess, demanded), l.op # "resume" => s = l.s
        PROVE  \E d \in demanded, t \in Sids :
                   /\ d[1] = l.a /\ sess[t].a = l.a /\ d[2] <= sess[t].at
                   /\ l.op # "resume" => t = l.s
    BY <2>1 DEF Renewed
  <2>2. CASE l.op \in {"authorize", "sso"}
    <3>1. l.s \in Sids  BY <1>1, <2>2 DEF Subject, AuthorizeOps, SamlOps
    <3>2. Renewed(l.a, l.s, sess, demanded)  BY <1>1, <1>7, <2>2 DEF Admitted
    <3> QED  BY <2>1, <3>1, <3>2
  <2>3. CASE l.op = "resume"
    <3>1. \E s \in Sids : Renewed(l.a, s, sess, demanded)  BY <1>1, <1>7, <2>3 DEF Subject, Resumable
    <3> QED  BY <2>1, <2>3, <3>1
  <2> QED  BY <1>7, <2>2, <2>3
<1> QED  BY <1>2, <1>3, <1>6, <1>7

\* IssuedOnGrounds for every number of requests, accounts, applications and sessions:
\* however accounts are disabled, sessions revoked, policies edited and consents taken
\* back between the steps of a request, an answer that lets somebody in rests on facts
\* each of which held at some instant since the request came in, and on a sign-in after
\* the demand where a fresh one was wanted.
THEOREM AlwaysIssuedOnGrounds == Spec => []IssuedOnGrounds
<1>1. Init => IssueInv  BY IssueInit
<1>2. IssueInv /\ [Next]_vars => IssueInv'  BY IssueStep
<1>3. IssueInv => IssuedOnGrounds  BY GroundsDo DEF IssueInv
<1> QED  BY <1>1, <1>2, <1>3, PTL DEF Spec
=============================================================================
