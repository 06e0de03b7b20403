--------------------------- MODULE IdentityProofs ---------------------------
(***************************************************************************)
(* Identity, for any number of accounts, requests, sessions, addresses,    *)
(* invitations, providers and flows.  A request acts for an account that   *)
(* it was given by something that names one (a session, a passkey, a       *)
(* partial session, an enrollment, an identity or a flow), so each table   *)
(* is written for accounts only.  The steps of each component are first    *)
(* shown to move requests between the labels of that component; then what  *)
(* they do to each table is told once, and each invariant is kept by what  *)
(* is told of the tables it is about: who owns what, what is spent, how    *)
(* often a factor is tried, and what an account still signs in with.       *)
(***************************************************************************)
EXTENDS Identity, FiniteSetTheorems, TLAPS

-----------------------------------------------------------------------------
(* Who holds what                                                            *)

\* The labels at which a request acts for an account, and those at which it holds a flow.
Acting == {"pwVerify", "totpGet", "totpUpdate", "totpDone", "rcTx", "rcDone", "keyUse", "codeClaim",
           "codeCompare", "mailVerify", "enrollTx", "enrollPtTx", "enrollRevoke", "enrollIssue",
           "linkConfirm", "fedDone", "fedIssue", "disWrite", "delCheck", "revokeAll"}
InFlow == {"flowPrepare", "flowConsume", "flowResolve"}

\* The labels at which it was given a code of an authenticator.
Coding == {"pwVerify", "totpGet", "totpUpdate", "rcTx", "enrollPtTx"}

\* A flow goes to a provider; one that links an identity links it to an account, one of
\* an invitation names it.
FlowFields == {"idp", "intent", "a", "s", "t", "act", "until"}
Aimed(st) ==
    /\ DOMAIN st = FlowFields /\ st.idp \in Idps
    /\ st.intent = "link" => st.a \in Accounts
    /\ st.intent = "invite" => st.t \in Invites

\* The locals v of a request at label l: what it acts for is an account.
Holder(l, v) ==
    /\ l \in Acting => v.a \in Accounts
    /\ l \in {"pwVerify", "totpGet"} => DOMAIN v = DOMAIN Blank
    /\ l \in {"codeClaim", "codeCompare", "mailVerify"} => v.m \in Mails
    /\ l = "codeClaim" => {"a", "m"} \subseteq DOMAIN v
    /\ l \in {"enrollTx", "enrollPtTx"} => v.t \in Invites
    /\ l = "enrollTx" => v.k \in Creds
    /\ l \in InFlow => Aimed(v.st)
    /\ l \in Coding => v.code \in Codes
    /\ l \in {"pwVerify", "enrollPtTx"} => v.pwd \in Passwords
    /\ l = "enrollPtTx" => v.code.sec # 0

FrameOK ==
    /\ DOMAIN pc = Procs /\ DOMAIN loc = Procs
    /\ \A p \in Procs : Holder(pc[p], loc[p])

SessionFields == {"a", "live", "sudo", "at", "out"}
SessionsOK ==
    /\ DOMAIN sess = Sids
    /\ \A s \in Sids : DOMAIN sess[s] = SessionFields /\ (sess[s].live => sess[s].a \in Accounts)

\* Passkeys, partial sessions, proposals, flows and grants name accounts.
KeyFields == {"a", "n", "clone"}
KeysOK ==
    /\ DOMAIN keys = Creds
    /\ \A k \in Creds : DOMAIN keys[k] = KeyFields /\ keys[k].a \in Owners
PartialOK == DOMAIN partial = Tokens /\ \A t \in Tokens : partial[t] # NoEntry => partial[t].val \in Accounts
ProposalsOK ==
    DOMAIN enrolling = Invites /\ \A t \in Invites : enrolling[t] # NoEntry => enrolling[t].val \in Accounts
FlowsOK == DOMAIN flow = Flows /\ \A f \in Flows : flow[f] # NoEntry => Aimed(flow[f].val)
GrantsOK == DOMAIN grants = Flows /\ \A f \in Flows : grants[f] # NoEntry => grants[f].val.a \in Accounts
HoldersOK == clock \in Nat /\ KeysOK /\ PartialOK /\ ProposalsOK /\ FlowsOK /\ GrantsOK

-----------------------------------------------------------------------------
(* The tables                                                                *)

AccountRows == [on : BOOLEAN, gone : BOOLEAN, admin : BOOLEAN, dis : BOOLEAN]

\* A request that set out to disable somebody did not find an admin.
AccountsOK ==
    /\ acct \in [Accounts -> AccountRows]
    /\ \A p \in Procs : pc[p] = "disWrite" =>
         loc[p].dis \in BOOLEAN /\ loc[p].was \in BOOLEAN /\ loc[p].admin \in BOOLEAN /\ ~(loc[p].dis /\ loc[p].admin)

\* Nobody removes the bootstrapped admin while the count of admins cannot be locked.
RootSafe ==
    /\ Enabled(Root) /\ acct[Root].admin
    /\ \A p \in Procs : /\ pc[p] = "disWrite" /\ loc[p].a = Root => ~loc[p].dis
                        /\ pc[p] = "delCheck" => loc[p].a # Root

LinkFields == {"idp", "sub", "a", "conf"}
LinksOK == \A l \in links : DOMAIN l = LinkFields /\ l.a \in Accounts /\ l.idp \in Idps

\* Only invitations are bound to a provider, and the identity one carries is at one.
InviteFields == {"st", "intent", "a", "admin", "idp", "local", "snap", "until"}
Invitation(row) ==
    /\ DOMAIN row = InviteFields /\ row.admin \in BOOLEAN
    /\ row.idp # None => row.intent = "invite"
    /\ row.snap # None => row.snap.idp \in Idps
InvitesOK == DOMAIN inv = Invites /\ \A t \in Invites : Invitation(inv[t])

MailOK ==
    /\ DOMAIN mail = Mails /\ DOMAIN prim = Accounts /\ nextMail \in Nat \ {0}
    /\ \A m \in Mails : /\ DOMAIN mail[m] = {"a", "addr", "ver"} /\ mail[m].a \in Owners
                         /\ (mail[m].ver => mail[m].a # None)
                         /\ (m >= nextMail => mail[m] = NoMail)
    /\ \A a \in Accounts : prim[a] \in Mails \cup {0}

PasswordsOK ==
    /\ DOMAIN pw = Accounts /\ DOMAIN retired = Accounts /\ DOMAIN revived = Accounts
    /\ \A a \in Accounts : None \notin retired[a]

IdentityInv ==
    FrameOK /\ SessionsOK /\ HoldersOK /\ AccountsOK /\ LinksOK /\ InvitesOK /\ MailOK /\ PasswordsOK
-----------------------------------------------------------------------------
(* How requests move                                                         *)

\* The labels between which the requests of each component move.
SignInAt == SignInPcs \cup {"idle"}
EmailAt == EmailPcs \cup {"idle"}
EnrollAt == EnrollPcs \cup {"idle"}
FederationAt == FedPcs \cup {"idle"}

\* Only requests between labels of L move, and they hold what their label wants.
Moves(L) ==
    /\ DOMAIN pc' = Procs /\ DOMAIN loc' = Procs
    /\ \A q \in Procs : \/ pc'[q] = pc[q] /\ loc'[q] = loc[q]
                        \/ pc[q] \in L /\ pc'[q] \in L /\ Holder(pc'[q], loc'[q])

\* Request p goes on, between labels of L.
Step(p, L) ==
    /\ pc[p] \in L
    /\ \E l \in L : /\ Goto(p, l)
                    /\ \/ loc' = loc /\ Holder(l, loc[p])
                       \/ \E v : Set(p, v) /\ Holder(l, v)

LEMMA StepMoves ==
    ASSUME FrameOK, NEW L, NEW p \in Procs, Step(p, L)
    PROVE  Moves(L)
<1>1. PICK l \in L : Goto(p, l) /\ ((loc' = loc /\ Holder(l, loc[p])) \/ (\E v : Set(p, v) /\ Holder(l, v)))
  BY DEF Step
<1>2. DOMAIN pc' = Procs /\ pc'[p] = l /\ (\A q \in Procs \ {p} : pc'[q] = pc[q])
  BY <1>1 DEF Goto, FrameOK
<1>3. DOMAIN loc' = Procs /\ Holder(l, loc'[p]) /\ (\A q \in Procs \ {p} : loc'[q] = loc[q])
  <2>1. CASE loc' = loc /\ Holder(l, loc[p])  BY <2>1 DEF FrameOK
  <2>2. CASE \E v : Set(p, v) /\ Holder(l, v)
    <3>1. PICK v : Set(p, v) /\ Holder(l, v)  BY <2>2
    <3>2. DOMAIN loc' = Procs /\ loc'[p] = v /\ (\A q \in Procs \ {p} : loc'[q] = loc[q])
      BY <3>1 DEF Set, FrameOK
    <3> QED  BY <3>1, <3>2
  <2> QED  BY <1>1, <2>1, <2>2
<1> QED  BY <1>2, <1>3, Zenon DEF Moves, Step

LEMMA QuietMoves ==
    ASSUME FrameOK, NEW L, UNCHANGED <<pc, loc>>
    PROVE  Moves(L)
BY DEF Moves, FrameOK

\* What is moved holds what it should.
LEMMA MovesFrame ==
    ASSUME FrameOK, NEW L, Moves(L)
    PROVE  FrameOK'
BY DEF FrameOK, Moves, Holder, Aimed

\* A request that is answered holds nothing.
LEMMA FinishSteps ==
    ASSUME NEW p, NEW L, pc[p] \in L, "idle" \in L, Finish(p)
    PROVE  Step(p, L)
<1>1. Holder("idle", Blank)  BY DEF Holder, Acting, InFlow, Coding
<1> QED  BY <1>1, Zenon DEF Step, Finish

\* A request that goes on with what it has, or with v.
LEMMA KeepSteps ==
    ASSUME NEW p, NEW L, pc[p] \in L, NEW l \in L, Goto(p, l), UNCHANGED loc, Holder(l, loc[p])
    PROVE  Step(p, L)
BY Zenon DEF Step

LEMMA SetSteps ==
    ASSUME NEW p, NEW L, pc[p] \in L, NEW l \in L, Goto(p, l), NEW v, Set(p, v), Holder(l, v)
    PROVE  Step(p, L)
BY Zenon DEF Step

\* A session that answers has an account, and so has what is found in a store.
LEMMA Callers ==
    ASSUME SessionsOK, NEW s \in Sids, sess[s].live
    PROVE  sess[s].a \in Accounts
BY DEF SessionsOK

LEMMA FoundEntry ==
    ASSUME clock \in Nat, NEW store, NEW k, Found(store, k, clock)
    PROVE  store[k] # NoEntry
BY DEF Found, NoEntry

\* The locals of a sign-in request: those of Blank, for account a and some code.
Signing(v, a) == DOMAIN v = DOMAIN Blank /\ v.a = a /\ v.code \in Codes

LEMMA SigningHolds ==
    ASSUME NEW a \in Accounts, NEW v, Signing(v, a), NEW l \in SignInPcs,
           l = "pwVerify" => v.pwd \in Passwords
    PROVE  Holder(l, v)
BY DEF Holder, Signing, SignInPcs, InFlow, Coding

\* The invariant of the requests and of what they are given.
HeldOK == FrameOK /\ SessionsOK /\ HoldersOK

LEMMA SignInLabels ==
    /\ "idle" \in SignInAt /\ SignInPcs \subseteq SignInAt
    /\ "pwVerify" \in SignInPcs /\ "totpGet" \in SignInPcs /\ "totpUpdate" \in SignInPcs
    /\ "totpDone" \in SignInPcs /\ "rcTx" \in SignInPcs /\ "rcDone" \in SignInPcs
    /\ "keyUse" \in SignInPcs /\ "addDel" \in SignInPcs /\ "regenTx" \in SignInPcs
    /\ "regenCommit" \in SignInPcs
BY DEF SignInAt, SignInPcs

LEMMA TotpGetSteps ==
    ASSUME NEW p \in Procs, pc[p] \in SignInAt, NEW l, NEW a \in Accounts, Signing(l, a), TotpGet(p, l)
    PROVE  Step(p, SignInAt)
<1>1. ASSUME Finish(p)
      PROVE  Step(p, SignInAt)
  BY <1>1, FinishSteps, SignInLabels, Zenon
<1>2. ASSUME NEW c, NEW b, Set(p, [l EXCEPT !.cred = c, !.ok = b]), Goto(p, "totpUpdate")
      PROVE  Step(p, SignInAt)
  <2> DEFINE v == [l EXCEPT !.cred = c, !.ok = b]
  <2>1. Signing(v, a)  BY DEF Signing, Blank
  <2>2. Holder("totpUpdate", v)  BY <2>1, SigningHolds, SignInLabels
  <2> HIDE DEF v
  <2> QED  BY <1>2, <2>2, SetSteps, SignInLabels, Zenon DEF v
<1> QED  BY <1>1, <1>2, Zenon DEF TotpGet

LEMMA SignInReads ==
    ASSUME HeldOK, NEW p \in Procs, PasswordStep(p) \/ TotpStep(p) \/ RecoveryStep(p)
    PROVE  Moves(SignInAt)
<1>1. ASSUME NEW a \in Accounts, NEW v \in Passwords, PasswordBegin(p, a, v)  PROVE Step(p, SignInAt)
  <2> DEFINE l == [Blank EXCEPT !.op = "signin", !.a = a, !.pwd = v, !.row = pw[a]]
  <2>1. Signing(l, a) /\ l.pwd = v  BY DEF Signing, Blank, Codes
  <2>2. Holder("pwVerify", l)  BY <2>1, SigningHolds, SignInLabels
  <2>3. pc[p] = "idle" /\ Set(p, l) /\ Goto(p, "pwVerify")  BY <1>1, Zenon DEF PasswordBegin, Idle
  <2> HIDE DEF l
  <2> QED  BY <2>2, <2>3, SetSteps, SignInLabels, Zenon
<1>2. ASSUME NEW t, PasswordCompletes(p, t)  PROVE Step(p, SignInAt)
  BY <1>2, FinishSteps, SignInLabels, Zenon DEF PasswordCompletes, PasswordVerified
<1>3. ASSUME PasswordFails(p)
      PROVE  Step(p, SignInAt)
  BY <1>3, FinishSteps, SignInLabels, Zenon DEF PasswordFails
<1>4. ASSUME PasswordSudo(p)
      PROVE  Step(p, SignInAt)
  <2>1. pc[p] = "pwVerify" /\ Goto(p, "totpGet") /\ UNCHANGED loc  BY <1>4 DEF PasswordSudo, PasswordVerified
  <2>2. Holder("totpGet", loc[p])  BY <2>1 DEF HeldOK, FrameOK, Holder, Acting, InFlow, Coding
  <2> QED  BY <2>1, <2>2, KeepSteps, SignInLabels, Zenon
<1>5. ASSUME NEW t \in Tokens, NEW c \in Codes, TotpVerify(p, t, c)  PROVE Step(p, SignInAt) \/ UNCHANGED <<pc, loc>>
  <2> DEFINE a == partial[t].val
             l == [Blank EXCEPT !.op = "signin", !.a = a, !.tok = t, !.code = c]
  <2>1. a \in Accounts  BY <1>5, FoundEntry DEF TotpVerify, PopPartial, HeldOK, HoldersOK, KeysOK, PartialOK, ProposalsOK, FlowsOK, GrantsOK
  <2>2. Signing(l, a)  BY DEF Signing, Blank
  <2>3. pc[p] = "idle" /\ (TotpGet(p, l) \/ UNCHANGED frame)  BY <1>5, Zenon DEF TotpVerify, Idle
  <2> HIDE DEF l, a
  <2> QED  BY <2>1, <2>2, <2>3, TotpGetSteps, SignInLabels, Zenon DEF frame
<1>6. ASSUME TotpSudo(p)
      PROVE  Step(p, SignInAt)
  <2>1. pc[p] = "totpGet" /\ TotpGet(p, loc[p])  BY <1>6 DEF TotpSudo
  <2>2. Signing(loc[p], loc[p].a) /\ loc[p].a \in Accounts
    BY <2>1 DEF HeldOK, FrameOK, Holder, Acting, Coding, Signing
  <2> QED  BY <2>1, <2>2, TotpGetSteps, SignInLabels, Zenon
<1>7. ASSUME TotpUpdate(p)
      PROVE  Step(p, SignInAt)
  <2>1. pc[p] = "totpUpdate" /\ Goto(p, "totpDone") /\ UNCHANGED loc  BY <1>7 DEF TotpUpdate
  <2>2. Holder("totpDone", loc[p])  BY <2>1 DEF HeldOK, FrameOK, Holder, Acting, InFlow, Coding
  <2> QED  BY <2>1, <2>2, KeepSteps, SignInLabels, Zenon
<1>8. ASSUME TotpFails(p) \/ TotpSignsIn(p)  PROVE Step(p, SignInAt)
  BY <1>8, FinishSteps, SignInLabels, Zenon DEF TotpFails, TotpSignsIn
<1>9. ASSUME NEW t \in Tokens, NEW rc, NEW c \in Codes, RecoveryVerify(p, t, rc, c)
      PROVE  Step(p, SignInAt) \/ UNCHANGED <<pc, loc>>
  <2> DEFINE a == partial[t].val
             ok == rc \in codes[a]
             l == [Blank EXCEPT !.op = "signin", !.a = a, !.tok = t, !.rc = rc,
                                !.code = IF ok THEN c ELSE NoCode, !.ok = ok]
  <2>1. a \in Accounts  BY <1>9, FoundEntry DEF RecoveryVerify, PopPartial, HeldOK, HoldersOK, KeysOK, PartialOK, ProposalsOK, FlowsOK, GrantsOK
  <2>2. Signing(l, a)  BY DEF Signing, Blank, Codes
  <2>3. Holder("rcTx", l)  BY <2>1, <2>2, SigningHolds, SignInLabels
  <2>4. pc[p] = "idle" /\ ((Set(p, l) /\ Goto(p, "rcTx")) \/ UNCHANGED frame)
    BY <1>9, Zenon DEF RecoveryVerify, Idle
  <2> HIDE DEF l, a
  <2> QED  BY <2>3, <2>4, SetSteps, SignInLabels, Zenon DEF frame
<1>10. ASSUME RecoveryRedeem(p)
      PROVE  Step(p, SignInAt)
  <2>1. pc[p] = "rcTx" /\ Goto(p, "rcDone") /\ UNCHANGED loc  BY <1>10 DEF RecoveryRedeem
  <2>2. Holder("rcDone", loc[p])  BY <2>1 DEF HeldOK, FrameOK, Holder, Acting, InFlow, Coding
  <2> QED  BY <2>1, <2>2, KeepSteps, SignInLabels, Zenon
<1>11. ASSUME RecoveryFails(p) \/ RecoverySignsIn(p)  PROVE Step(p, SignInAt)
  BY <1>11, FinishSteps, SignInLabels, Zenon DEF RecoveryFails, RecoverySignsIn
<1>12. ASSUME Step(p, SignInAt) \/ UNCHANGED <<pc, loc>>  PROVE Moves(SignInAt)
  BY <1>12, StepMoves, QuietMoves DEF HeldOK
<1> QED  BY <1>1, <1>2, <1>3, <1>4, <1>5, <1>6, <1>7, <1>8, <1>9, <1>10, <1>11, <1>12, Zenon
         DEF PasswordStep, TotpStep, RecoveryStep

LEMMA SignInKeys ==
    ASSUME HeldOK, NEW p \in Procs, PasskeyStep(p) \/ SudoStep(p) \/ FactorStep(p)
    PROVE  Moves(SignInAt)
<1>1. ASSUME NEW t, NEW k \in Creds, NEW n, LoginComplete(p, t, k, n)
      PROVE  Step(p, SignInAt) \/ UNCHANGED <<pc, loc>>
  <2> DEFINE a == keys[k].a
             l == [Blank EXCEPT !.op = "signin", !.a = a, !.tok = t, !.k = k, !.n = n, !.ok = n < keys[k].n]
  <2>1. a \in Owners  BY DEF HeldOK, HoldersOK, KeysOK, PartialOK, ProposalsOK, FlowsOK, GrantsOK
  <2>2. Signing(l, a)  BY DEF Signing, Blank, Codes
  <2>3. pc[p] = "idle" /\ ((a # None /\ Set(p, l) /\ Goto(p, "keyUse")) \/ UNCHANGED frame)
    BY <1>1, Zenon DEF LoginComplete, Idle
  <2> HIDE DEF l, a
  <2>4. a # None => Holder("keyUse", l)  BY <2>1, <2>2, SigningHolds, SignInLabels DEF Owners
  <2> QED  BY <2>3, <2>4, SetSteps, SignInLabels, Zenon DEF frame
<1>2. ASSUME PasskeySignsIn(p) \/ SudoByTotp(p) \/ SudoByKey(p)
      PROVE  Step(p, SignInAt)
  BY <1>2, FinishSteps, SignInLabels, Zenon DEF PasskeySignsIn, SudoByTotp, SudoByKey
<1>3. ASSUME NEW s \in Sids, NEW v \in Passwords, NEW c \in Codes, SudoCompletePassword(p, s, v, c)
      PROVE  Step(p, SignInAt) \/ UNCHANGED <<pc, loc>>
  <2> DEFINE a == sess[s].a
             l == [Blank EXCEPT !.op = "sudo", !.a = a, !.s = s, !.pwd = v, !.row = pw[a], !.code = c]
  <2>1. a \in Accounts  BY <1>3, Callers DEF SudoCompletePassword, Caller, HeldOK
  <2>2. Signing(l, a)  BY DEF Signing, Blank, Codes
  <2>3. pc[p] = "idle" /\ ((Set(p, l) /\ Goto(p, "pwVerify")) \/ UNCHANGED frame)
    BY <1>3, Zenon DEF SudoCompletePassword, Idle
  <2>4. Holder("pwVerify", l)
    <3>1. l.pwd = v  BY DEF Blank
    <3> QED  BY <2>1, <2>2, <3>1, SigningHolds, SignInLabels
  <2> HIDE DEF l, a
  <2> QED  BY <2>3, <2>4, SetSteps, SignInLabels, Zenon DEF frame
<1>4. ASSUME NEW s \in Sids, NEW k, NEW n, SudoCompleteKey(p, s, k, n)
      PROVE  Step(p, SignInAt) \/ UNCHANGED <<pc, loc>>
  <2> DEFINE a == sess[s].a
             l == [Blank EXCEPT !.op = "sudo", !.a = a, !.s = s, !.k = k, !.n = n, !.ok = n < keys[k].n]
  <2>1. a \in Accounts  BY <1>4, Callers DEF SudoCompleteKey, Caller, HeldOK
  <2>2. Signing(l, a)  BY DEF Signing, Blank, Codes
  <2>3. pc[p] = "idle" /\ ((Set(p, l) /\ Goto(p, "keyUse")) \/ UNCHANGED frame)
    BY <1>4, Zenon DEF SudoCompleteKey, Idle
  <2>4. Holder("keyUse", l)  BY <2>1, <2>2, SigningHolds, SignInLabels
  <2> HIDE DEF l, a
  <2> QED  BY <2>3, <2>4, SetSteps, SignInLabels, Zenon DEF frame
<1>5. ASSUME NEW s, RegenerateBegin(p, s)  PROVE Step(p, SignInAt)
  <2> DEFINE l == [Blank EXCEPT !.op = "regenerate", !.a = sess[s].a]
  <2>1. Holder("regenTx", l)  BY DEF Holder, Acting, InFlow, Coding
  <2>2. pc[p] = "idle" /\ Set(p, l) /\ Goto(p, "regenTx")  BY <1>5, Zenon DEF RegenerateBegin, Idle
  <2> HIDE DEF l
  <2> QED  BY <2>1, <2>2, SetSteps, SignInLabels, Zenon
<1>6. ASSUME RegenerateDelete(p)
      PROVE  Step(p, SignInAt)
  <2> DEFINE l == [loc[p] EXCEPT !.seen = codes[loc[p].a]]
  <2>1. Holder("regenCommit", l)  BY DEF Holder, Acting, InFlow, Coding
  <2>2. pc[p] = "regenTx" /\ Set(p, l) /\ Goto(p, "regenCommit")  BY <1>6, Zenon DEF RegenerateDelete
  <2> HIDE DEF l
  <2> QED  BY <2>1, <2>2, SetSteps, SignInLabels, Zenon
<1>7. ASSUME NEW s, NEW k, AddKeyInsert(p, s, k)  PROVE Step(p, SignInAt)
  <2> DEFINE l == [Blank EXCEPT !.op = "keys", !.s = s]
  <2>1. Holder("addDel", l)  BY DEF Holder, Acting, InFlow, Coding
  <2>2. pc[p] = "idle" /\ Set(p, l) /\ Goto(p, "addDel")  BY <1>7, Zenon DEF AddKeyInsert, Idle
  <2> HIDE DEF l
  <2> QED  BY <2>1, <2>2, SetSteps, SignInLabels, Zenon
<1>8. ASSUME RegenerateCommit(p) \/ AddKeyDone(p)  PROVE Step(p, SignInAt)
  BY <1>8, FinishSteps, SignInLabels, Zenon DEF RegenerateCommit, AddKeyDone
<1>9. ASSUME Step(p, SignInAt) \/ UNCHANGED <<pc, loc>>  PROVE Moves(SignInAt)
  BY <1>9, StepMoves, QuietMoves DEF HeldOK
<1> QED  BY <1>1, <1>2, <1>3, <1>4, <1>5, <1>6, <1>7, <1>8, <1>9, Zenon DEF PasskeyStep, SudoStep, FactorStep

LEMMA SignInMoves ==
    ASSUME HeldOK, SignInNext
    PROVE  Moves(SignInAt)
<1>1. ASSUME NEW p \in Procs,
             PasswordStep(p) \/ TotpStep(p) \/ RecoveryStep(p) \/ PasskeyStep(p) \/ SudoStep(p) \/ FactorStep(p)
      PROVE  Moves(SignInAt)
  BY <1>1, SignInReads, SignInKeys
<1>2. ASSUME \/ \E t \in Tokens : LoginBegin(t)
             \/ \E s \in Sids, m \in {"webauthn", "password_totp"} : SudoBegin(s, m)
             \/ \E s \in Sids : AddKeyBegin(s)
      PROVE  UNCHANGED <<pc, loc>>
  BY <1>2, Zenon DEF LoginBegin, SudoBegin, AddKeyBegin, directory, frame
<1>3. ASSUME NEW s \in Sids,
             \/ \E v \in Passwords : PasswordSet(s, v) \/ \E c \in Codes : PasswordTotpEnroll(s, v, c)
             \/ \E c \in Codes : TotpReenroll(s, c)
             \/ RevokePwdTotp(s)
      PROVE  UNCHANGED <<pc, loc>>
  BY <1>3, Zenon DEF PasswordSet, PasswordTotpEnroll, TotpReenroll, RevokePwdTotp, frame
<1>4. ASSUME NEW s \in Sids,
             \/ Logout(s) \/ \E t \in Sids : RevokeMySession(s, t)
             \/ \E k \in Creds : DeleteKey(s, k)
             \/ \E l \in links : Unlink(s, l)
      PROVE  UNCHANGED <<pc, loc>>
  BY <1>4, Zenon DEF Logout, RevokeMySession, DeleteKey, Unlink, frame
<1>5. ASSUME UNCHANGED <<pc, loc>>  PROVE Moves(SignInAt)  BY <1>5, QuietMoves DEF HeldOK
<1> QED  BY <1>1, <1>2, <1>3, <1>4, <1>5, Zenon DEF SignInNext

LEMMA EmailLabels ==
    "idle" \in EmailAt /\ "codeClaim" \in EmailAt /\ "codeCompare" \in EmailAt /\ "mailVerify" \in EmailAt
BY DEF EmailAt, EmailPcs

LEMMA EmailMoves ==
    ASSUME HeldOK, EmailNext
    PROVE  Moves(EmailAt)
<1>1. ASSUME NEW p \in Procs, NEW s \in Sids, NEW m \in Mails, NEW right, VerifyMyEmail(p, s, m, right)
      PROVE  Step(p, EmailAt)
  <2> DEFINE rec == mailCode[m].val
             l == [op |-> "emailcode", a |-> rec.a, m |-> m, rec |-> rec, right |-> right]
  <2>1. rec.a \in Accounts  BY <1>1, Callers, Zenon DEF VerifyMyEmail, Caller, HeldOK
  <2>2. Holder("codeClaim", l)  BY <2>1 DEF Holder, InFlow, Coding
  <2>3. pc[p] = "idle" /\ Set(p, l) /\ Goto(p, "codeClaim")  BY <1>1, Zenon DEF VerifyMyEmail, Idle
  <2> HIDE DEF l
  <2> QED  BY <2>2, <2>3, SetSteps, EmailLabels, Zenon
<1>2. ASSUME NEW p \in Procs, CodeClaim(p)
      PROVE  Step(p, EmailAt)
  <2> DEFINE l == [loc[p] EXCEPT !.rec = Claimed(@)]
  <2>1. pc[p] = "codeClaim" /\ ((Set(p, l) /\ Goto(p, "codeCompare")) \/ Finish(p))
    BY <1>2, Zenon DEF CodeClaim
  <2>2. loc[p].a \in Accounts /\ loc[p].m \in Mails /\ {"a", "m"} \subseteq DOMAIN loc[p]
    BY <2>1 DEF HeldOK, FrameOK, Holder, Acting
  <2>3. l.a = loc[p].a /\ l.m = loc[p].m  BY <2>2
  <2>4. Holder("codeCompare", l)  BY <2>2, <2>3 DEF Holder, InFlow, Coding
  <2> HIDE DEF l
  <2> QED  BY <2>1, <2>4, SetSteps, FinishSteps, EmailLabels, Zenon
<1>3. ASSUME NEW p \in Procs, CodeCompare(p)
      PROVE  Step(p, EmailAt)
  <2>1. pc[p] = "codeCompare" /\ ((Goto(p, "mailVerify") /\ UNCHANGED loc) \/ Finish(p))
    BY <1>3, Zenon DEF CodeCompare
  <2>2. Holder("mailVerify", loc[p])  BY <2>1 DEF HeldOK, FrameOK, Holder, Acting, InFlow, Coding
  <2> QED  BY <2>1, <2>2, KeepSteps, FinishSteps, EmailLabels, Zenon
<1>4. ASSUME NEW p \in Procs, MailVerify(p)
      PROVE  Step(p, EmailAt)
  BY <1>4, FinishSteps, EmailLabels, Zenon DEF MailVerify
<1>5. ASSUME NEW s \in Sids, NEW m \in Mails,
             \/ SetMyEmailPrimary(s, m) \/ DeleteMyEmail(s, m) \/ VerifyAccountEmail(s, m)
             \/ SetAccountEmailPrimary(s, m) \/ DeleteAccountEmail(s, m)
             \/ \E delivered \in BOOLEAN : SendMyEmailCode(s, m, delivered)
      PROVE  UNCHANGED <<pc, loc>>
  BY <1>5, Zenon DEF SetMyEmailPrimary, DeleteMyEmail, VerifyAccountEmail, SetAccountEmailPrimary,
     DeleteAccountEmail, SendMyEmailCode, directory, frame
<1>6. ASSUME NEW s \in Sids, NEW addr,
             AddMyEmail(s, addr) \/ \E a, ver, primary : AddAccountEmail(s, a, addr, ver, primary)
      PROVE  UNCHANGED <<pc, loc>>
  BY <1>6, Zenon DEF AddMyEmail, AddAccountEmail, directory, frame
<1>7. ASSUME NEW p \in Procs, Step(p, EmailAt)  PROVE Moves(EmailAt)  BY <1>7, StepMoves DEF HeldOK
<1>8. ASSUME UNCHANGED <<pc, loc>>  PROVE Moves(EmailAt)  BY <1>8, QuietMoves DEF HeldOK
<1> QED  BY <1>1, <1>2, <1>3, <1>4, <1>5, <1>6, <1>7, <1>8, Zenon DEF EmailNext, MailStep

LEMMA EnrollLabels ==
    /\ "idle" \in EnrollAt /\ "enrollTx" \in EnrollAt /\ "enrollPtTx" \in EnrollAt
    /\ "enrollRevoke" \in EnrollAt /\ "enrollIssue" \in EnrollAt
BY DEF EnrollAt, EnrollPcs

\* What a redemption leaves its request with.
LEMMA RedeemSteps ==
    ASSUME HeldOK, NEW p \in Procs, pc[p] \in {"enrollTx", "enrollPtTx"}, Redeem(p)
    PROVE  Step(p, EnrollAt)
<1> DEFINE l == [op |-> "enroll", t |-> loc[p].t, a |-> loc[p].a, reset |-> inv[loc[p].t].intent = "reset",
                 key |-> pc[p] = "enrollTx"]
<1>1. loc[p].a \in Accounts  BY DEF HeldOK, FrameOK, Holder, Acting
<1>2. Holder("enrollRevoke", l)  BY <1>1 DEF Holder, InFlow, Coding
<1>3. Set(p, l) /\ Goto(p, "enrollRevoke")  BY Zenon DEF Redeem
<1>4. pc[p] \in EnrollAt  BY EnrollLabels
<1> HIDE DEF l
<1> QED  BY <1>2, <1>3, <1>4, SetSteps, EnrollLabels, Zenon

LEMMA EnrollMoves ==
    ASSUME HeldOK, EnrollNext
    PROVE  Moves(EnrollAt)
<1>1. ASSUME NEW p \in Procs, NEW t \in Invites, NEW k \in Creds, EnrollmentComplete(p, t, k)
      PROVE  Step(p, EnrollAt)
  <2> DEFINE l == [op |-> "enroll", t |-> t, a |-> enrolling[t].val, k |-> k]
  <2>1. enrolling[t].val \in Accounts
    BY <1>1, FoundEntry, Zenon DEF EnrollmentComplete, HeldOK, HoldersOK, KeysOK, PartialOK, ProposalsOK, FlowsOK, GrantsOK
  <2>2. Holder("enrollTx", l)  BY <2>1 DEF Holder, InFlow, Coding
  <2>3. pc[p] = "idle" /\ Set(p, l) /\ Goto(p, "enrollTx")  BY <1>1, Zenon DEF EnrollmentComplete, Idle
  <2> HIDE DEF l
  <2> QED  BY <2>2, <2>3, SetSteps, EnrollLabels, Zenon
<1>2. ASSUME NEW p \in Procs, NEW t \in Invites, NEW a \in Accounts, NEW v \in Passwords, NEW c \in Codes,
             PasswordTotpVerify(p, t, a, v, c)
      PROVE  Step(p, EnrollAt)
  <2> DEFINE l == [op |-> "enroll", t |-> t, a |-> a, pwd |-> v, code |-> c]
  <2>0. c.sec # 0  BY <1>2, Zenon DEF PasswordTotpVerify
  <2>1. Holder("enrollPtTx", l)  BY <2>0 DEF Holder, InFlow, Coding
  <2>2. pc[p] = "idle" /\ Set(p, l) /\ Goto(p, "enrollPtTx")  BY <1>2, Zenon DEF PasswordTotpVerify, Idle
  <2> HIDE DEF l
  <2> QED  BY <2>1, <2>2, SetSteps, EnrollLabels, Zenon
<1>3. ASSUME NEW p \in Procs, EnrollWithPasskey(p) \/ EnrollWithPassword(p)
      PROVE  Step(p, EnrollAt)
  BY <1>3, RedeemSteps DEF EnrollWithPasskey, EnrollWithPassword
<1>4. ASSUME NEW p \in Procs, NEW fails, EnrollRevokes(p, fails)
      PROVE  Step(p, EnrollAt)
  <2>1. pc[p] = "enrollRevoke" /\ Goto(p, "enrollIssue") /\ UNCHANGED loc  BY <1>4, Zenon DEF EnrollRevokes
  <2>2. Holder("enrollIssue", loc[p])  BY <2>1 DEF HeldOK, FrameOK, Holder, Acting, InFlow, Coding
  <2> QED  BY <2>1, <2>2, KeepSteps, EnrollLabels, Zenon
<1>5. ASSUME NEW p \in Procs, EnrollSignsIn(p)
      PROVE  Step(p, EnrollAt)
  BY <1>5, FinishSteps, EnrollLabels, Zenon DEF EnrollSignsIn
<1>6. ASSUME NEW t \in Invites, EnrollIssueStep(t)
      PROVE  UNCHANGED <<pc, loc>>
  BY <1>6, Zenon DEF EnrollIssueStep, EnrollAdmin, IssueEnrollment, RevokeInvitation, ReissueEnrollment,
     CreateInvitation, EnrollmentBegin, directory, frame
<1>7. ASSUME NEW p \in Procs, Step(p, EnrollAt)  PROVE Moves(EnrollAt)  BY <1>7, StepMoves DEF HeldOK
<1>8. ASSUME UNCHANGED <<pc, loc>>  PROVE Moves(EnrollAt)  BY <1>8, QuietMoves DEF HeldOK
<1> QED  BY <1>1, <1>2, <1>3, <1>4, <1>5, <1>6, <1>7, <1>8, Zenon DEF EnrollNext, EnrollReadStep

LEMMA FederationLabels ==
    /\ "idle" \in FederationAt /\ "flowPrepare" \in FederationAt /\ "flowConsume" \in FederationAt
    /\ "flowResolve" \in FederationAt /\ "linkConfirm" \in FederationAt /\ "fedDone" \in FederationAt
    /\ "fedIssue" \in FederationAt
BY DEF FederationAt, FedPcs

\* A request that loaded a flow holds it as it was read.
LEMMA FlowLoadSteps ==
    ASSUME HeldOK, NEW p \in Procs, NEW f \in Flows, NEW s, NEW step \in {"flowPrepare", "flowConsume"},
           NEW act, FlowLoad(p, f, s, step, act)
    PROVE  Step(p, FederationAt)
<1> DEFINE l == [op |-> "flow", f |-> f, st |-> flow[f].val, prov |-> idps[flow[f].val.idp]]
<1>1. Aimed(flow[f].val)  BY FoundEntry, Zenon DEF FlowLoad, FlowBound, HeldOK, HoldersOK, KeysOK, PartialOK, ProposalsOK, FlowsOK, GrantsOK
<1>2. Holder(step, l)  BY <1>1 DEF Holder, Acting, Coding
<1>3. pc[p] = "idle" /\ Set(p, l) /\ Goto(p, step)  BY Zenon DEF FlowLoad
<1>4. step \in FederationAt  BY FederationLabels
<1> HIDE DEF l
<1> QED  BY <1>2, <1>3, <1>4, SetSteps, FederationLabels, Zenon

\* A resolved request goes on for the account that was resolved.
LEMMA ResolvedSteps ==
    ASSUME NEW p \in Procs, pc[p] = "flowResolve", NEW step \in {"fedDone", "linkConfirm"},
           NEW a \in Accounts, NEW u, NEW conf, NEW new, Resolved(p, step, a, u, conf, new)
    PROVE  Step(p, FederationAt)
<1> DEFINE l == [op |-> "flow", f |-> loc[p].f, st |-> loc[p].st, prov |-> loc[p].prov,
                 a |-> a, u |-> u, conf |-> conf, new |-> new]
<1>1. Holder(step, l)  BY DEF Holder, InFlow, Coding
<1>2. Set(p, l) /\ Goto(p, step)  BY Zenon DEF Resolved
<1>3. step \in FederationAt  BY FederationLabels
<1> HIDE DEF l
<1> QED  BY <1>1, <1>2, <1>3, SetSteps, FederationLabels, Zenon

LEMMA ResolveSteps ==
    ASSUME HeldOK, LinksOK, NEW p \in Procs, NEW u, ResolveStep(p, u)
    PROVE  Step(p, FederationAt)
<1>1. ASSUME NEW addr, ResolveExisting(p, u, addr)
      PROVE  Step(p, FederationAt)
  <2>1. PICK l \in Bound(u) : Resolved(p, "fedDone", l.a, u, l.conf, FALSE)  BY <1>1, Zenon DEF ResolveExisting
  <2>2. l.a \in Accounts  BY DEF Bound, LinksOK
  <2>3. pc[p] = "flowResolve"  BY <1>1 DEF ResolveExisting, Resolving
  <2> QED  BY <2>1, <2>2, <2>3, ResolvedSteps
<1>2. ASSUME NEW addr, ResolveLink(p, u, addr)
      PROVE  Step(p, FederationAt)
  <2>1. pc[p] = "flowResolve" /\ loc[p].st.intent = "link" /\ Resolved(p, "linkConfirm", loc[p].st.a, u, FALSE, FALSE)
    BY <1>2, Zenon DEF ResolveLink, Resolving
  <2>2. loc[p].st.a \in Accounts  BY <2>1 DEF HeldOK, FrameOK, Holder, InFlow, Coding, Aimed
  <2> QED  BY <2>1, <2>2, ResolvedSteps
<1>3. ASSUME NEW a \in Accounts, NEW addr, ApplyAutoProvision(p, a, u, addr) \/ ApplyInviteProvision(p, a, u, addr)
      PROVE  Step(p, FederationAt)
  <2>1. pc[p] = "flowResolve" /\ Resolved(p, "fedDone", a, u, FALSE, TRUE)
    BY <1>3, Zenon DEF ApplyAutoProvision, ApplyInviteProvision, Resolving, Provision
  <2> QED  BY <2>1, ResolvedSteps
<1>4. ASSUME AttachInviteIdentity(p, u)
      PROVE  Step(p, FederationAt)
  BY <1>4, FinishSteps, FederationLabels, Zenon DEF AttachInviteIdentity, Resolving
<1> QED  BY <1>1, <1>2, <1>3, <1>4, Zenon DEF ResolveStep

LEMMA FederationMoves ==
    ASSUME HeldOK, LinksOK, FederationNext
    PROVE  Moves(FederationAt)
<1>1. ASSUME NEW p \in Procs, NEW u \in Subs, ResolveStep(p, u)
      PROVE  Step(p, FederationAt)
  BY <1>1, ResolveSteps
<1>2. ASSUME NEW p \in Procs, NEW f \in Flows, NEW s,
             PrepareFlow(p, f, s) \/ \E route : FederationCallback(p, f, s, route)
      PROVE  Step(p, FederationAt)
  BY <1>2, FlowLoadSteps, Zenon DEF PrepareFlow, FederationCallback, VerifyFlow
<1>3. ASSUME NEW p \in Procs, NEW f \in Flows, FederationConfirm(p, f)
      PROVE  Step(p, FederationAt)
  <2> DEFINE l == [op |-> "confirm", a |-> grants[f].val.a]
  <2>1. grants[f].val.a \in Accounts
    BY <1>3, FoundEntry, Zenon DEF FederationConfirm, PopGrant, HeldOK, HoldersOK, KeysOK, PartialOK, ProposalsOK, FlowsOK, GrantsOK
  <2>2. Holder("fedIssue", l)  BY <2>1 DEF Holder, InFlow, Coding
  <2>3. pc[p] = "idle" /\ Set(p, l) /\ Goto(p, "fedIssue")  BY <1>3, Zenon DEF FederationConfirm
  <2> HIDE DEF l
  <2> QED  BY <2>2, <2>3, SetSteps, FederationLabels, Zenon
<1>4. ASSUME NEW p \in Procs,
             FlowPrepared(p) \/ FlowFails(p) \/ FederationSignsIn(p) \/ \E ok \in BOOLEAN : LinkConfirm(p, ok)
      PROVE  Step(p, FederationAt)
  BY <1>4, FinishSteps, FederationLabels, Zenon DEF FlowPrepared, FlowFails, FederationSignsIn, LinkConfirm
<1>5. ASSUME NEW p \in Procs, FlowConsume(p)
      PROVE  Step(p, FederationAt)
  <2>1. pc[p] = "flowConsume" /\ ((Goto(p, "flowResolve") /\ UNCHANGED loc) \/ Finish(p))
    BY <1>5, Zenon DEF FlowConsume
  <2>2. Holder("flowResolve", loc[p])  BY <2>1 DEF HeldOK, FrameOK, Holder, Acting, InFlow, Coding
  <2> QED  BY <2>1, <2>2, KeepSteps, FinishSteps, FederationLabels, Zenon
<1>6. ASSUME NEW p \in Procs, FederationCompletes(p)
      PROVE  Step(p, FederationAt)
  <2>1. pc[p] = "fedDone" /\ ((Goto(p, "fedIssue") /\ UNCHANGED loc) \/ Finish(p))
    BY <1>6, Zenon DEF FederationCompletes
  <2>2. Holder("fedIssue", loc[p])  BY <2>1 DEF HeldOK, FrameOK, Holder, Acting, InFlow, Coding
  <2> QED  BY <2>1, <2>2, KeepSteps, FinishSteps, FederationLabels, Zenon
<1>7. ASSUME NEW f \in Flows,
             \/ \E i \in Idps : \/ FederationLogin(f, i) \/ (\E s \in Sids : IdentitiesLinkBegin(s, f, i))
                                \/ (\E t \in Invites : EnrollmentStartFederation(f, i, t))
             \/ LeaseLost(f) \/ ConfirmDecline(f)
      PROVE  UNCHANGED <<pc, loc>>
  BY <1>7, Zenon DEF FederationLogin, BeginPublic, IdentitiesLinkBegin, BeginLink, EnrollmentStartFederation,
     BeginInvite, Begin, LeaseLost, ConfirmDecline, directory, frame
<1>8. ASSUME NEW s, NEW i, ProviderStep(s, i)
      PROVE  UNCHANGED <<pc, loc>>
  BY <1>8, Zenon DEF ProviderStep, frame
<1>9. ASSUME NEW p \in Procs, Step(p, FederationAt)  PROVE Moves(FederationAt)  BY <1>9, StepMoves DEF HeldOK
<1>10. ASSUME UNCHANGED <<pc, loc>>  PROVE Moves(FederationAt)  BY <1>10, QuietMoves DEF HeldOK
<1> QED  BY <1>1, <1>2, <1>3, <1>4, <1>5, <1>6, <1>7, <1>8, <1>9, <1>10, Zenon DEF FederationNext, FlowStep

-----------------------------------------------------------------------------
(* What the steps do to the tables                                           *)

SessionsMove ==
    \/ UNCHANGED sess
    \/ \E a \in Accounts : IssueSession(a)
    \/ \E s : SudoGrant(s) \/ EndSession(s)
    \/ \E a : sess' = RevokedAll(a) \/ sess' = Outlive(a)

KeysMove ==
    \/ UNCHANGED keys
    \/ \E p : UseKey(p)
    \/ \E k \in Creds, a \in Accounts : keys' = [keys EXCEPT ![k] = InsertCredential(a)]
    \/ \E k \in Creds : keys' = [keys EXCEPT ![k] = NoKey]
    \/ /\ DOMAIN keys' = Creds
       /\ \A k \in Creds : \/ keys'[k] \in {keys[k], NoKey}
                           \/ \E a \in Accounts : keys'[k] = InsertCredential(a)

PartialMove ==
    \/ UNCHANGED partial
    \/ \E t, ttl : \E a \in Accounts : partial' = SetEx(partial, t, a, ttl, clock)
    \/ \E t : partial' = Del(partial, t)

PasswordsMove ==
    \/ UNCHANGED <<pw, retired, revived>>
    \/ \E a, v : Rehash(a, v) /\ UNCHANGED retired
    \/ \E a, v : SetPassword(a, v)
    \/ \E a : pw' = [pw EXCEPT ![a] = NoPw] /\ (Retire(a) \/ UNCHANGED retired) /\ UNCHANGED revived

\* What signing in and managing one's factors may do.
SignInEffect ==
    /\ UNCHANGED <<clock, acct>> /\ links' \subseteq links
    /\ SessionsMove /\ KeysMove /\ PartialMove /\ PasswordsMove

SignInQuiet == UNCHANGED <<clock, acct, sess, pw, retired, revived, keys, partial, links>>

LEMMA QuietEffect ==
    ASSUME SignInQuiet
    PROVE  SignInEffect
BY Zenon DEF SignInQuiet, SignInEffect, SessionsMove, KeysMove, PartialMove, PasswordsMove

LEMMA SignInEffects ==
    ASSUME HeldOK, SignInNext
    PROVE  SignInEffect
<1> USE DEF tables, factors, federated, stashes, signInHistory, signInVars, frame
<1>1. ASSUME NEW p \in Procs,
             \/ \E a \in Accounts, v \in Passwords : PasswordBegin(p, a, v)
             \/ PasswordFails(p) \/ TotpSudo(p) \/ TotpUpdate(p) \/ TotpFails(p)
      PROVE  SignInQuiet
  BY <1>1, Zenon DEF PasswordBegin, PasswordFails, TotpSudo, TotpUpdate, TotpFails, SignInQuiet
<1>2. ASSUME NEW p \in Procs,
             \/ RecoveryRedeem(p) \/ RecoveryFails(p) \/ RegenerateDelete(p) \/ RegenerateCommit(p)
             \/ \E s \in Sids : RegenerateBegin(p, s)
             \/ AddKeyDone(p)
      PROVE  SignInQuiet
  BY <1>2, Zenon DEF RecoveryRedeem, RecoveryFails, RegenerateDelete, RegenerateCommit, RegenerateBegin, AddKeyDone,
     SignInQuiet
<1>3. ASSUME NEW p \in Procs,
             \/ \E t, k, n : LoginComplete(p, t, k, n)
             \/ \E s, v, c : SudoCompletePassword(p, s, v, c)
             \/ \E s, k, n : SudoCompleteKey(p, s, k, n)
      PROVE  SignInQuiet
  BY <1>3, Zenon DEF LoginComplete, SudoCompletePassword, SudoCompleteKey, SignInQuiet
<1>4. ASSUME \/ \E t \in Tokens : LoginBegin(t)
             \/ \E s \in Sids, m \in {"webauthn", "password_totp"} : SudoBegin(s, m)
             \/ \E s \in Sids : AddKeyBegin(s)
             \/ \E s \in Sids, c \in Codes : TotpReenroll(s, c)
      PROVE  SignInQuiet
  BY <1>4, Zenon DEF LoginBegin, SudoBegin, AddKeyBegin, TotpReenroll, directory, SignInQuiet
<1> DEFINE OnlySessions == UNCHANGED <<clock, acct, pw, retired, revived, keys, partial, links>> /\ SessionsMove
<1>5. ASSUME OnlySessions  PROVE SignInEffect
  BY <1>5, Zenon DEF SignInEffect, KeysMove, PartialMove, PasswordsMove
<1>6. ASSUME NEW s \in Sids, Logout(s) \/ \E t \in Sids : RevokeMySession(s, t)
      PROVE  OnlySessions
  BY <1>6, Zenon DEF Logout, RevokeMySession, SessionsMove
<1>7. ASSUME NEW p \in Procs, TotpSignsIn(p) \/ RecoverySignsIn(p)
      PROVE  OnlySessions
  <2>1. pc[p] \in {"totpDone", "rcDone"}  BY <1>7 DEF TotpSignsIn, RecoverySignsIn
  <2>2. loc[p].a \in Accounts  BY <2>1 DEF HeldOK, FrameOK, Holder, Acting
  <2> QED  BY <1>7, <2>2, Zenon DEF TotpSignsIn, RecoverySignsIn, IssueUnlessLockedOut, SessionsMove
<1>8. ASSUME NEW p \in Procs, SudoByTotp(p)
      PROVE  OnlySessions
  BY <1>8, Zenon DEF SudoByTotp, SessionsMove
<1>9. ASSUME NEW p \in Procs, SudoByKey(p)
      PROVE  SignInEffect
  <2>1. SessionsMove /\ KeysMove  BY <1>9, Zenon DEF SudoByKey, SessionsMove, KeysMove
  <2>2. UNCHANGED <<clock, acct, pw, retired, revived, partial, links>>  BY <1>9, Zenon DEF SudoByKey
  <2> QED  BY <2>1, <2>2, Zenon DEF SignInEffect, PartialMove, PasswordsMove
<1>10. ASSUME NEW p \in Procs, PasskeySignsIn(p)
       PROVE  SignInEffect
  <2>1. loc[p].a \in Accounts  BY <1>10 DEF PasskeySignsIn, HeldOK, FrameOK, Holder, Acting
  <2>2. SessionsMove /\ KeysMove  BY <1>10, <2>1, Zenon DEF PasskeySignsIn, SessionsMove, KeysMove
  <2>3. UNCHANGED <<clock, acct, pw, retired, revived, partial, links>>  BY <1>10, Zenon DEF PasskeySignsIn
  <2> QED  BY <2>2, <2>3, Zenon DEF SignInEffect, PartialMove, PasswordsMove
<1>11. ASSUME NEW p \in Procs, NEW t, NEW c, TotpVerify(p, t, c) \/ \E rc : RecoveryVerify(p, t, rc, c)
       PROVE  SignInEffect
  <2>1. PartialMove  BY <1>11, Zenon DEF TotpVerify, RecoveryVerify, PopPartial, PartialMove
  <2>2. UNCHANGED <<clock, acct, sess, pw, retired, revived, keys, links>>
    BY <1>11, Zenon DEF TotpVerify, RecoveryVerify
  <2> QED  BY <2>1, <2>2, Zenon DEF SignInEffect, SessionsMove, KeysMove, PasswordsMove
<1>12. ASSUME NEW p \in Procs, NEW t, PasswordCompletes(p, t)
       PROVE  SignInEffect
  <2>1. loc[p].a \in Accounts
    BY <1>12 DEF PasswordCompletes, PasswordVerified, HeldOK, FrameOK, Holder, Acting
  <2>2. PartialMove  BY <1>12, <2>1, Zenon DEF PasswordCompletes, PartialMove
  <2>3. UNCHANGED <<clock, acct, sess, keys, links>>  BY <1>12, Zenon DEF PasswordCompletes, PasswordVerified
  <2>4. PasswordsMove  BY <1>12, Zenon DEF PasswordCompletes, PasswordVerified, PasswordsMove
  <2> QED  BY <2>2, <2>3, <2>4, Zenon DEF SignInEffect, SessionsMove, KeysMove
<1>13. ASSUME NEW p \in Procs, PasswordSudo(p)
       PROVE  SignInEffect
  <2>1. UNCHANGED <<clock, acct, sess, keys, links, partial>>  BY <1>13, Zenon DEF PasswordSudo, PasswordVerified
  <2>2. PasswordsMove  BY <1>13, Zenon DEF PasswordSudo, PasswordVerified, PasswordsMove
  <2> QED  BY <2>1, <2>2, Zenon DEF SignInEffect, SessionsMove, KeysMove, PartialMove
<1>14. ASSUME NEW s \in Sids, NEW v, PasswordSet(s, v) \/ (\E c : PasswordTotpEnroll(s, v, c)) \/ RevokePwdTotp(s)
       PROVE  SignInEffect
  <2>1. UNCHANGED <<clock, acct, sess, keys, links, partial>>
    BY <1>14, Zenon DEF PasswordSet, PasswordTotpEnroll, RevokePwdTotp
  <2>2. PasswordsMove  BY <1>14, Zenon DEF PasswordSet, PasswordTotpEnroll, RevokePwdTotp, PasswordsMove
  <2> QED  BY <2>1, <2>2, Zenon DEF SignInEffect, SessionsMove, KeysMove, PartialMove
<1>15. ASSUME NEW s \in Sids, NEW k \in Creds, (\E p : AddKeyInsert(p, s, k)) \/ DeleteKey(s, k)
       PROVE  SignInEffect
  <2>1. Caller(s)  BY <1>15, Zenon DEF AddKeyInsert, DeleteKey, Me
  <2>2. sess[s].a \in Accounts  BY <2>1, Callers, Zenon DEF Caller, HeldOK
  <2>3. KeysMove  BY <1>15, <2>2, Zenon DEF AddKeyInsert, DeleteKey, KeysMove
  <2>4. UNCHANGED <<clock, acct, sess, pw, retired, revived, links, partial>>  BY <1>15, Zenon DEF AddKeyInsert, DeleteKey
  <2> QED  BY <2>3, <2>4, Zenon DEF SignInEffect, SessionsMove, PartialMove, PasswordsMove
<1>16. ASSUME NEW s \in Sids, NEW l, Unlink(s, l)
       PROVE  SignInEffect
  <2>1. links' \subseteq links  BY <1>16 DEF Unlink
  <2>2. UNCHANGED <<clock, acct, sess, pw, retired, revived, keys, partial>>  BY <1>16, Zenon DEF Unlink
  <2> QED  BY <2>1, <2>2, Zenon DEF SignInEffect, SessionsMove, KeysMove, PartialMove, PasswordsMove
<1> HIDE DEF OnlySessions
<1>17. ASSUME NEW p \in Procs, PasswordStep(p) \/ TotpStep(p) \/ RecoveryStep(p)
       PROVE  SignInEffect
  BY <1>1, <1>2, <1>5, <1>7, <1>11, <1>12, <1>13, <1>17, QuietEffect, Zenon DEF PasswordStep, TotpStep, RecoveryStep
<1>18. ASSUME NEW p \in Procs, PasskeyStep(p) \/ SudoStep(p) \/ FactorStep(p)
       PROVE  SignInEffect
  BY <1>2, <1>3, <1>5, <1>8, <1>9, <1>10, <1>15, <1>18, QuietEffect, Zenon DEF PasskeyStep, SudoStep, FactorStep
<1> QED  BY <1>4, <1>5, <1>6, <1>14, <1>15, <1>16, <1>17, <1>18, QuietEffect, Zenon DEF SignInNext

\* Sessions keep their account; a new one is marked when its account is not enabled.
SessionKept(s) ==
    /\ sess'[s].a = sess[s].a
    /\ sess'[s].live => sess[s].live
    /\ sess[s].out => sess'[s].out
SessionIssued(s) ==
    /\ sess'[s].a \in Accounts
    /\ ~Enabled(sess'[s].a) => sess'[s].out

LEMMA SessionsMoved ==
    ASSUME SessionsOK, SessionsMove
    PROVE  SessionsOK' /\ \A s \in Sids : SessionKept(s) \/ SessionIssued(s)
<1> USE DEF SessionsOK, SessionKept
<1>1. CASE UNCHANGED sess  BY <1>1
<1>2. ASSUME NEW a \in Accounts, IssueSession(a)
      PROVE  SessionsOK' /\ \A s \in Sids : SessionKept(s) \/ SessionIssued(s)
  <2> DEFINE n == NextSid
             new == [a |-> a, live |-> TRUE, sudo |-> 0, at |-> clock, out |-> ~Enabled(a)]
  <2>1. sess' = sess \/ sess' = [sess EXCEPT ![n] = new]  BY <1>2, Zenon DEF IssueSession, InsertSession
  <2>2. CASE sess' = sess  BY <2>2
  <2>3. CASE sess' = [sess EXCEPT ![n] = new]
    <3>1. DOMAIN new = SessionFields /\ new.a = a /\ new.live /\ new.out = ~Enabled(a)  BY DEF SessionFields
    <3> HIDE DEF n, new
    <3>2. DOMAIN sess' = Sids /\ \A s \in Sids : sess'[s] = IF s = n THEN new ELSE sess[s]  BY <2>3
    <3> QED  BY <3>1, <3>2 DEF SessionIssued
  <2> QED  BY <2>1, <2>2, <2>3
<1>3. ASSUME NEW n, SudoGrant(n) \/ EndSession(n)
      PROVE  SessionsOK' /\ \A s \in Sids : SessionKept(s) \/ SessionIssued(s)
  BY <1>3 DEF SudoGrant, EndSession, SessionFields
<1>4. ASSUME NEW a, sess' = RevokedAll(a) \/ sess' = Outlive(a)
      PROVE  SessionsOK' /\ \A s \in Sids : SessionKept(s) \/ SessionIssued(s)
  BY <1>4 DEF RevokedAll, Outlive, SessionFields
<1> QED  BY <1>1, <1>2, <1>3, <1>4, Zenon DEF SessionsMove

LEMMA KeysMoved ==
    ASSUME KeysOK, KeysMove
    PROVE  KeysOK'
<1>1. DOMAIN NoKey = KeyFields /\ NoKey.a = None /\ None \in Owners  BY DEF NoKey, KeyFields, Owners
<1>2. \A a : DOMAIN InsertCredential(a) = KeyFields /\ InsertCredential(a).a = a
  BY DEF InsertCredential, NoKey, KeyFields
<1>3. \A a \in Accounts : a \in Owners  BY DEF Owners
<1>4. CASE UNCHANGED keys  BY <1>4 DEF KeysOK
<1>5. ASSUME NEW p, UseKey(p)  PROVE KeysOK'  BY <1>5 DEF UseKey, KeysOK, KeyFields
<1>6. ASSUME NEW k \in Creds, NEW a \in Accounts, keys' = [keys EXCEPT ![k] = InsertCredential(a)]
      PROVE  KeysOK'
  <2> HIDE DEF KeyFields
  <2> QED  BY <1>2, <1>3, <1>6 DEF KeysOK
<1>7. ASSUME NEW k \in Creds, keys' = [keys EXCEPT ![k] = NoKey]
      PROVE  KeysOK'
  BY <1>1, <1>7 DEF KeysOK
<1>8. CASE /\ DOMAIN keys' = Creds
           /\ \A k \in Creds : \/ keys'[k] \in {keys[k], NoKey}
                               \/ \E a \in Accounts : keys'[k] = InsertCredential(a)
  <2>1. ASSUME NEW k \in Creds
        PROVE  DOMAIN keys'[k] = KeyFields /\ keys'[k].a \in Owners
    <3>1. CASE keys'[k] = keys[k]  BY <3>1, Zenon DEF KeysOK
    <3>2. CASE keys'[k] = NoKey  BY <3>2, <1>1
    <3>3. CASE \E a \in Accounts : keys'[k] = InsertCredential(a)  BY <3>3, <1>2, <1>3, Zenon
    <3> QED  BY <1>8, <3>1, <3>2, <3>3
  <2> QED  BY <1>8, <2>1, Zenon DEF KeysOK
<1> QED  BY <1>4, <1>5, <1>6, <1>7, <1>8, Zenon DEF KeysMove

\* What SetEx and Del leave in a cell.
LEMMA SetExCells ==
    ASSUME NEW store, NEW k, NEW v, NEW ttl, NEW now
    PROVE  /\ DOMAIN SetEx(store, k, v, ttl, now) = DOMAIN store
           /\ \A j \in DOMAIN store : IF j = k THEN SetEx(store, k, v, ttl, now)[j].val = v
                                               ELSE SetEx(store, k, v, ttl, now)[j] = store[j]
BY DEF SetEx, Entry

LEMMA DelCells ==
    ASSUME NEW store, NEW k
    PROVE  /\ DOMAIN Del(store, k) = DOMAIN store
           /\ \A j \in DOMAIN store : Del(store, k)[j] = IF j = k THEN NoEntry ELSE store[j]
BY DEF Del

LEMMA PartialMoved ==
    ASSUME PartialOK, PartialMove
    PROVE  PartialOK'
<1>1. CASE UNCHANGED partial  BY <1>1 DEF PartialOK
<1>2. ASSUME NEW t, NEW ttl, NEW a \in Accounts, partial' = SetEx(partial, t, a, ttl, clock)  PROVE PartialOK'
  BY <1>2, SetExCells DEF PartialOK
<1>3. ASSUME NEW t, partial' = Del(partial, t)  PROVE PartialOK'
  BY <1>3, DelCells DEF PartialOK
<1> QED  BY <1>1, <1>2, <1>3, Zenon DEF PartialMove

LEMMA PasswordsMoved ==
    ASSUME PasswordsOK, OnlyRehashRevives, PasswordsMove
    PROVE  PasswordsOK' /\ OnlyRehashRevives'
<1> USE DEF PasswordsOK, OnlyRehashRevives
<1>1. CASE UNCHANGED <<pw, retired, revived>>  BY <1>1
<1>2. ASSUME NEW a, NEW v, Rehash(a, v), UNCHANGED retired
      PROVE  PasswordsOK' /\ OnlyRehashRevives'
  <2> DEFINE row == [val |-> v, old |-> FALSE]
  <2>1. row.val = v  OBVIOUS
  <2> HIDE DEF row
  <2>2. /\ DOMAIN pw' = Accounts /\ DOMAIN revived' = Accounts
        /\ \A b \in Accounts \ {a} : pw'[b] = pw[b] /\ revived'[b] = revived[b]
        /\ a \in Accounts => \/ pw'[a] = pw[a] /\ revived'[a] = revived[a]
                             \/ pw'[a] = row /\ revived'[a] = revived[a] \cup ({v} \cap retired[a])
    BY <1>2 DEF Rehash, row
  <2>3. ASSUME NEW b \in Accounts, pw'[b].val \in retired'[b]  PROVE pw'[b].val \in revived'[b]
    <3>1. pw'[b].val \in retired[b]  BY <1>2, <2>3
    <3>2. CASE b # a  BY <3>1, <3>2, <2>2
    <3>3. CASE b = a  BY <3>1, <3>3, <2>1, <2>2
    <3> QED  BY <3>2, <3>3
  <2> QED  BY <1>2, <2>2, <2>3
<1>3. ASSUME NEW a, NEW v, SetPassword(a, v)
      PROVE  PasswordsOK' /\ OnlyRehashRevives'
  <2> DEFINE row == [val |-> v, old |-> FALSE]
  <2>1. row.val = v  OBVIOUS
  <2> HIDE DEF row
  <2>2. /\ DOMAIN pw' = Accounts /\ DOMAIN retired' = Accounts /\ DOMAIN revived' = Accounts
        /\ \A b \in Accounts \ {a} : pw'[b] = pw[b] /\ retired'[b] = retired[b] /\ revived'[b] = revived[b]
        /\ a \in Accounts => /\ pw'[a] = row
                             /\ retired'[a] = (retired[a] \cup ({pw[a].val} \ {None})) \ {v}
    BY <1>3 DEF SetPassword, row
  <2>3. \A b \in Accounts : None \notin retired'[b]  BY <2>2
  <2>4. ASSUME NEW b \in Accounts, pw'[b].val \in retired'[b]  PROVE pw'[b].val \in revived'[b]
    <3>1. b # a  BY <2>1, <2>2, <2>4
    <3> QED  BY <2>2, <2>4, <3>1
  <2> QED  BY <2>2, <2>3, <2>4
<1>4. ASSUME NEW a, pw' = [pw EXCEPT ![a] = NoPw], Retire(a) \/ UNCHANGED retired, UNCHANGED revived
      PROVE  PasswordsOK' /\ OnlyRehashRevives'
  <2>1. NoPw.val = None  BY DEF NoPw
  <2>2. /\ DOMAIN pw' = Accounts /\ DOMAIN retired' = Accounts /\ DOMAIN revived' = Accounts
        /\ \A b \in Accounts \ {a} : pw'[b] = pw[b] /\ retired'[b] = retired[b] /\ revived'[b] = revived[b]
        /\ a \in Accounts => /\ pw'[a] = NoPw
                             /\ \/ retired'[a] = retired[a] \cup ({pw[a].val} \ {None})
                                \/ retired'[a] = retired[a]
    BY <1>4 DEF Retire
  <2>3. \A b \in Accounts : None \notin retired'[b]  BY <2>2
  <2>4. ASSUME NEW b \in Accounts, pw'[b].val \in retired'[b]  PROVE pw'[b].val \in revived'[b]
    <3>1. b # a  BY <2>1, <2>2, <2>3, <2>4
    <3> QED  BY <2>2, <2>4, <3>1
  <2> QED  BY <2>2, <2>3, <2>4
<1> QED  BY <1>1, <1>2, <1>3, <1>4, Zenon DEF PasswordsMove

-----------------------------------------------------------------------------
(* E-mail                                                                    *)

\* An address of a is verified, inserted, made primary, or removed, or all of a's are.
MailVerified(a, m) ==
    /\ m \in Mails /\ mail[m].a = a /\ ~TakenElsewhere(a, mail[m].addr)
    /\ mail' = [mail EXCEPT ![m].ver = TRUE]
    /\ prim' = [prim EXCEPT ![a] = m] \/ EnsurePrimary(a, m)
    /\ UNCHANGED nextMail
MailInserted(a, addr, ver) ==
    /\ Insert(a, addr, ver)
    /\ IF ver THEN ~TakenElsewhere(a, addr) /\ (prim' = [prim EXCEPT ![a] = nextMail] \/ EnsurePrimary(a, nextMail))
              ELSE UNCHANGED prim
MailGone(a) ==
    /\ mail' = [m \in Mails |-> IF mail[m].a = a THEN NoMail ELSE mail[m]]
    /\ prim' = [prim EXCEPT ![a] = 0]
    /\ UNCHANGED nextMail

MailMove ==
    \/ UNCHANGED <<mail, nextMail, prim>>
    \/ \E a \in Accounts :
        \/ \E addr : \E ver \in BOOLEAN : MailInserted(a, addr, ver)
        \/ \E m \in Mails : MailVerified(a, m) \/ SetPrimary(a, m) \/ \E allow : Remove(a, m, allow)
        \/ MailGone(a)

\* PrimaryFollows for one account.
PrimaryOf(a) ==
    /\ prim[a] # 0 => mail[prim[a]].a = a /\ mail[prim[a]].ver
    /\ (\E m \in MailOf(a) : mail[m].ver) => prim[a] # 0
    /\ \A m \in MailOf(a) : mail[m].ver => ~TakenElsewhere(a, mail[m].addr)

LEMMA PrimaryOfAll == PrimaryFollows <=> \A a \in Accounts : PrimaryOf(a)
BY Zenon DEF PrimaryFollows, PrimaryOf

LEMMA VerifiedKeeps ==
    ASSUME MailOK, PrimaryFollows, NEW a \in Accounts, NEW m, MailVerified(a, m)
    PROVE  MailOK' /\ PrimaryFollows'
<1> USE DirectoryAssumption DEF Mails, Owners
<1>1. /\ DOMAIN mail' = Mails /\ DOMAIN prim' = Accounts /\ nextMail' = nextMail /\ m \in Mails
      /\ \A n \in Mails \ {m} : mail'[n] = mail[n]
      /\ DOMAIN mail'[m] = {"a", "addr", "ver"} /\ mail'[m].a = a /\ mail'[m].addr = mail[m].addr /\ mail'[m].ver
      /\ \A b \in Accounts \ {a} : prim'[b] = prim[b]
      /\ prim'[a] = m \/ (prim[a] # 0 /\ prim'[a] = prim[a])
  BY DEF MailVerified, EnsurePrimary, MailOK
<1>2. mail[m].a = a /\ m < nextMail /\ m \in Nat \ {0}  BY DEF MailVerified, MailOK, NoMail
<1>3. \A n \in Mails : n # m /\ mail[n].addr = mail[m].addr /\ mail[n].ver => mail[n].a = a
  BY DEF MailVerified, TakenElsewhere
<1>4. MailOK'  BY <1>1, <1>2 DEF MailOK
<1>5. ASSUME NEW b \in Accounts  PROVE PrimaryOf(b)'
  <2>1. PrimaryOf(b)  BY PrimaryOfAll
  <2>2. prim[b] \in Mails \cup {0}  BY DEF MailOK
  <2>3. (prim'[b] # 0 => mail'[prim'[b]].a = b /\ mail'[prim'[b]].ver)
    BY <1>1, <1>2, <2>1, <2>2 DEF PrimaryOf
  <2>4. ASSUME NEW n \in Mails, mail'[n].a = b, mail'[n].ver  PROVE prim'[b] # 0
    <3>1. CASE b = a  BY <1>1, <1>2, <3>1
    <3>2. CASE b # a  BY <1>1, <2>1, <2>4, <3>2 DEF PrimaryOf, MailOf
    <3> QED  BY <3>1, <3>2
  <2>5. ASSUME NEW n \in Mails, mail'[n].a = b, mail'[n].ver,
               NEW k \in Mails, mail'[k].addr = mail'[n].addr, mail'[k].ver
        PROVE  mail'[k].a = b
    <3>1. CASE n = m  BY <1>1, <1>3, <2>5, <3>1
    <3>2. CASE n # m /\ k = m  BY <1>1, <1>3, <2>5, <3>2
    <3>3. CASE n # m /\ k # m  BY <1>1, <2>1, <2>5, <3>3 DEF PrimaryOf, MailOf, TakenElsewhere
    <3> QED  BY <3>1, <3>2, <3>3
  <2> QED  BY <2>3, <2>4, <2>5, Zenon DEF PrimaryOf, MailOf, TakenElsewhere
<1>6. (\A b \in Accounts : PrimaryOf(b)') => PrimaryFollows'  BY Zenon DEF PrimaryFollows, PrimaryOf
<1> QED  BY <1>4, <1>5, <1>6

LEMMA InsertedKeeps ==
    ASSUME MailOK, PrimaryFollows, NEW a \in Accounts, NEW addr, NEW ver \in BOOLEAN, MailInserted(a, addr, ver)
    PROVE  MailOK' /\ PrimaryFollows'
<1> USE DirectoryAssumption DEF Mails, Owners
<1> DEFINE m == nextMail
           row == [a |-> a, addr |-> addr, ver |-> ver]
<1>1. DOMAIN row = {"a", "addr", "ver"} /\ row.a = a /\ row.addr = addr /\ row.ver = ver  OBVIOUS
<1>2. m \in Mails /\ mail' = [mail EXCEPT ![m] = row] /\ nextMail' = m + 1
  BY IdentityAssumption DEF MailInserted, Insert, MailOK
<1>3. mail[m].ver = FALSE /\ mail[m].a = None  BY <1>2 DEF MailOK, NoMail
<1> HIDE DEF row
<1>4. /\ DOMAIN mail' = Mails
      /\ \A n \in Mails \ {m} : mail'[n] = mail[n]
      /\ DOMAIN mail'[m] = {"a", "addr", "ver"} /\ mail'[m].a = a /\ mail'[m].addr = addr /\ mail'[m].ver = ver
  BY <1>1, <1>2 DEF MailOK
<1>5. /\ DOMAIN prim' = Accounts
      /\ \A b \in Accounts \ {a} : prim'[b] = prim[b]
      /\ ver => prim'[a] = m \/ (prim[a] # 0 /\ prim'[a] = prim[a])
      /\ ~ver => prim'[a] = prim[a]
  BY DEF MailInserted, EnsurePrimary, MailOK
<1>6. ver => \A n \in Mails : n # m /\ mail[n].addr = addr /\ mail[n].ver => mail[n].a = a
  BY DEF MailInserted, TakenElsewhere
<1>7. m \in Nat \ {0}  BY DEF MailOK
<1> HIDE DEF m
<1>8. MailOK'
  <2>1. \A n \in Mails : n >= nextMail' => n # m /\ n >= nextMail  BY <1>2, <1>7 DEF m, MailOK
  <2> QED  BY <1>2, <1>4, <1>5, <1>7, <2>1 DEF MailOK
<1>9. ASSUME NEW b \in Accounts  PROVE PrimaryOf(b)'
  <2>1. PrimaryOf(b)  BY PrimaryOfAll
  <2>2. prim[b] \in Mails \cup {0} /\ prim[b] # m
    <3>1. prim[b] \in Mails \cup {0}  BY DEF MailOK
    <3>2. prim[b] # m  BY <1>3, <1>7, <2>1 DEF PrimaryOf
    <3> QED  BY <3>1, <3>2
  <2>3. (prim'[b] # 0 => mail'[prim'[b]].a = b /\ mail'[prim'[b]].ver)
    BY <1>2, <1>4, <1>5, <1>7, <2>1, <2>2 DEF PrimaryOf
  <2>4. ASSUME NEW n \in Mails, mail'[n].a = b, mail'[n].ver  PROVE prim'[b] # 0
    <3>1. CASE n = m  BY <1>4, <1>5, <1>7, <2>4, <3>1
    <3>2. CASE n # m
      <4>1. prim[b] # 0  BY <1>4, <2>1, <2>4, <3>2 DEF PrimaryOf, MailOf
      <4> QED  BY <1>5, <1>7, <4>1
    <3> QED  BY <3>1, <3>2
  <2>5. ASSUME NEW n \in Mails, mail'[n].a = b, mail'[n].ver,
               NEW k \in Mails, mail'[k].addr = mail'[n].addr, mail'[k].ver
        PROVE  mail'[k].a = b
    <3>1. CASE n = m  BY <1>4, <1>6, <2>5, <3>1
    <3>2. CASE n # m /\ k = m  BY <1>4, <1>6, <2>5, <3>2
    <3>3. CASE n # m /\ k # m  BY <1>4, <2>1, <2>5, <3>3 DEF PrimaryOf, MailOf, TakenElsewhere
    <3> QED  BY <3>1, <3>2, <3>3
  <2> QED  BY <2>3, <2>4, <2>5, Zenon DEF PrimaryOf, MailOf, TakenElsewhere
<1>10. (\A b \in Accounts : PrimaryOf(b)') => PrimaryFollows'  BY Zenon DEF PrimaryFollows, PrimaryOf
<1> QED  BY <1>8, <1>9, <1>10

LEMMA PrimarySetKeeps ==
    ASSUME MailOK, PrimaryFollows, NEW a \in Accounts, NEW m \in Mails, SetPrimary(a, m)
    PROVE  MailOK' /\ PrimaryFollows'
<1>1. /\ mail' = mail /\ nextMail' = nextMail /\ DOMAIN prim' = Accounts /\ prim'[a] = m
      /\ \A b \in Accounts \ {a} : prim'[b] = prim[b]
      /\ mail[m].a = a /\ mail[m].ver /\ m # 0
  BY DEF SetPrimary, MailOK, Mails
<1>2. MailOK'  BY <1>1 DEF MailOK, Mails, Owners
<1>3. PrimaryFollows'  BY <1>1 DEF PrimaryFollows, MailOf, TakenElsewhere, Mails
<1> QED  BY <1>2, <1>3

LEMMA RemovedKeeps ==
    ASSUME MailOK, PrimaryFollows, NEW a \in Accounts, NEW m \in Mails, NEW allow, Remove(a, m, allow)
    PROVE  MailOK' /\ PrimaryFollows'
<1> USE DirectoryAssumption DEF Owners
<1>1. PICK f \in Fallbacks(a, m) : prim' = [prim EXCEPT ![a] = IF @ = m THEN f ELSE @]  BY Zenon DEF Remove
<1>2. /\ DOMAIN mail' = Mails /\ mail'[m] = NoMail /\ nextMail' = nextMail
      /\ \A n \in Mails \ {m} : mail'[n] = mail[n]
  BY DEF Remove, MailOK
<1>3. /\ DOMAIN prim' = Accounts /\ \A b \in Accounts \ {a} : prim'[b] = prim[b]
      /\ prim'[a] = IF prim[a] = m THEN f ELSE prim[a]
  BY <1>1 DEF MailOK
<1>4. mail[m].a = a  BY DEF Remove
<1>5. \/ f = 0 /\ \A n \in Mails \ {m} : mail[n].a = a => ~mail[n].ver
      \/ f \in Mails \ {m} /\ mail[f].a = a /\ mail[f].ver
  BY DEF Fallbacks, MailOf
<1>6. NoMail.a = None /\ NoMail.ver = FALSE /\ DOMAIN NoMail = {"a", "addr", "ver"}  BY DEF NoMail
<1>7. \A n \in Mails : n # 0  BY DEF Mails
<1>8. MailOK'  BY <1>2, <1>3, <1>5, <1>6 DEF MailOK
<1>9. ASSUME NEW b \in Accounts  PROVE PrimaryOf(b)'
  <2>1. PrimaryOf(b)  BY PrimaryOfAll
  <2>2. prim[b] \in Mails \cup {0}  BY DEF MailOK
  <2>3. (prim'[b] # 0 => mail'[prim'[b]].a = b /\ mail'[prim'[b]].ver)
    <3>1. CASE b = a  BY <1>2, <1>3, <1>5, <2>1, <2>2, <3>1 DEF PrimaryOf
    <3>2. CASE b # a
      <4>1. prim[b] # m  BY <1>4, <1>7, <2>1, <3>2 DEF PrimaryOf
      <4> QED  BY <1>2, <1>3, <2>1, <2>2, <3>2, <4>1 DEF PrimaryOf
    <3> QED  BY <3>1, <3>2
  <2>4. ASSUME NEW n \in Mails, mail'[n].a = b, mail'[n].ver  PROVE prim'[b] # 0
    <3>1. n # m /\ mail[n].a = b /\ mail[n].ver  BY <1>2, <1>6, <2>4
    <3>2. prim[b] # 0  BY <2>1, <3>1 DEF PrimaryOf, MailOf
    <3> QED  BY <1>3, <1>5, <1>7, <3>1, <3>2
  <2>5. ASSUME NEW n \in Mails, mail'[n].a = b, mail'[n].ver,
               NEW k \in Mails, mail'[k].addr = mail'[n].addr, mail'[k].ver
        PROVE  mail'[k].a = b
    <3>1. n # m /\ k # m  BY <1>2, <1>6, <2>5
    <3> QED  BY <1>2, <2>1, <2>5, <3>1 DEF PrimaryOf, MailOf, TakenElsewhere
  <2> QED  BY <2>3, <2>4, <2>5, Zenon DEF PrimaryOf, MailOf, TakenElsewhere
<1>10. (\A b \in Accounts : PrimaryOf(b)') => PrimaryFollows'  BY Zenon DEF PrimaryFollows, PrimaryOf
<1> QED  BY <1>8, <1>9, <1>10

LEMMA GoneKeeps ==
    ASSUME MailOK, PrimaryFollows, NEW a \in Accounts, MailGone(a)
    PROVE  MailOK' /\ PrimaryFollows'
<1> USE DirectoryAssumption DEF Owners
<1>1. /\ DOMAIN mail' = Mails /\ nextMail' = nextMail
      /\ \A n \in Mails : mail'[n] = IF mail[n].a = a THEN NoMail ELSE mail[n]
  BY DEF MailGone
<1>2. DOMAIN prim' = Accounts /\ prim'[a] = 0 /\ \A b \in Accounts \ {a} : prim'[b] = prim[b]
  BY DEF MailGone, MailOK
<1>3. NoMail.a = None /\ NoMail.ver = FALSE /\ DOMAIN NoMail = {"a", "addr", "ver"}  BY DEF NoMail
<1>4. MailOK'  BY <1>1, <1>2, <1>3 DEF MailOK
<1>5. ASSUME NEW b \in Accounts  PROVE PrimaryOf(b)'
  <2>1. PrimaryOf(b)  BY PrimaryOfAll
  <2>2. prim[b] \in Mails \cup {0}  BY DEF MailOK
  <2>3. (prim'[b] # 0 => mail'[prim'[b]].a = b /\ mail'[prim'[b]].ver)
    BY <1>1, <1>2, <2>1, <2>2 DEF PrimaryOf
  <2>4. ASSUME NEW n \in Mails, mail'[n].a = b, mail'[n].ver  PROVE prim'[b] # 0
    <3>1. b # a /\ mail[n].a = b /\ mail[n].ver  BY <1>1, <1>3, <2>4
    <3> QED  BY <1>2, <2>1, <3>1 DEF PrimaryOf, MailOf
  <2>5. ASSUME NEW n \in Mails, mail'[n].a = b, mail'[n].ver,
               NEW k \in Mails, mail'[k].addr = mail'[n].addr, mail'[k].ver
        PROVE  mail'[k].a = b
    <3>1. mail'[n] = mail[n] /\ mail'[k] = mail[k]  BY <1>1, <1>3, <2>5
    <3> QED  BY <2>1, <2>5, <3>1 DEF PrimaryOf, MailOf, TakenElsewhere
  <2> QED  BY <2>3, <2>4, <2>5, Zenon DEF PrimaryOf, MailOf, TakenElsewhere
<1>6. (\A b \in Accounts : PrimaryOf(b)') => PrimaryFollows'  BY Zenon DEF PrimaryFollows, PrimaryOf
<1> QED  BY <1>4, <1>5, <1>6

LEMMA MailMoved ==
    ASSUME MailOK, PrimaryFollows, MailMove
    PROVE  MailOK' /\ PrimaryFollows'
<1>1. CASE UNCHANGED <<mail, nextMail, prim>>
  BY <1>1 DEF MailOK, PrimaryFollows, MailOf, TakenElsewhere
<1> QED  BY <1>1, VerifiedKeeps, InsertedKeeps, PrimarySetKeeps, RemovedKeeps, GoneKeeps, Zenon DEF MailMove

\* What the address rules do, as one of the moves above.
LEMMA AddMoves ==
    ASSUME NEW a \in Accounts, NEW addr, Add(a, addr)
    PROVE  MailMove
<1>1. MailInserted(a, addr, FALSE)  BY DEF Add, MailInserted
<1> QED  BY <1>1, Zenon DEF MailMove

LEMMA AdminAddMoves ==
    ASSUME NEW a \in Accounts, NEW addr, NEW ver \in BOOLEAN, NEW primary \in BOOLEAN, AdminAdd(a, addr, ver, primary)
    PROVE  MailMove
<1>1. CASE ByAddress(a, addr) = {}
  <2>1. MailInserted(a, addr, ver)  BY <1>1 DEF AdminAdd, MailInserted
  <2> QED  BY <2>1, Zenon DEF MailMove
<1>2. CASE ByAddress(a, addr) # {}
  <2>1. PICK m \in ByAddress(a, addr) :
           /\ ~TakenElsewhere(a, addr)
           /\ mail' = [mail EXCEPT ![m].ver = TRUE]
           /\ IF primary THEN prim' = [prim EXCEPT ![a] = m] ELSE EnsurePrimary(a, m)
           /\ UNCHANGED nextMail
    BY <1>2, Zenon DEF AdminAdd
  <2>2. m \in Mails /\ mail[m].a = a /\ mail[m].addr = addr  BY DEF ByAddress, MailOf
  <2>3. MailVerified(a, m)  BY <2>1, <2>2, Zenon DEF MailVerified
  <2> QED  BY <2>2, <2>3, Zenon DEF MailMove
<1> QED  BY <1>1, <1>2

LEMMA AssertMoves ==
    ASSUME NEW a \in Accounts, NEW m \in Mails, AssertVerified(a, m)
    PROVE  MailMove
<1>1. MailVerified(a, m)  BY Zenon DEF AssertVerified, Verifiable, MailVerified
<1> QED  BY <1>1, Zenon DEF MailMove

LEMMA AbsorbMoves ==
    ASSUME NEW a \in Accounts, NEW addr, Absorb(a, addr)
    PROVE  MailMove
<1>1. CASE UNCHANGED <<mail, nextMail, prim>>  BY <1>1, Zenon DEF MailMove
<1>2. CASE ~TakenElsewhere(a, addr) /\ Insert(a, addr, TRUE) /\ EnsurePrimary(a, nextMail)
  <2>1. MailInserted(a, addr, TRUE)  BY <1>2 DEF MailInserted
  <2> QED  BY <2>1, Zenon DEF MailMove
<1>3. CASE \E m \in ByAddress(a, addr) : AssertVerified(a, m)
  <2>1. PICK m \in ByAddress(a, addr) : AssertVerified(a, m)  BY <1>3
  <2>2. m \in Mails  BY DEF ByAddress, MailOf
  <2> QED  BY <2>1, <2>2, AssertMoves
<1> QED  BY <1>1, <1>2, <1>3, Zenon DEF Absorb

LEMMA EmailEffects ==
    ASSUME HeldOK, MailOK, EmailNext
    PROVE  MailMove /\ UNCHANGED tables
<1>1. ASSUME NEW p \in Procs, MailVerify(p)
      PROVE  MailMove
  <2>1. loc[p].a \in Accounts /\ loc[p].m \in Mails  BY <1>1 DEF MailVerify, HeldOK, FrameOK, Holder, Acting
  <2>2. AssertVerified(loc[p].a, loc[p].m) \/ UNCHANGED <<mail, nextMail, prim>>  BY <1>1, Zenon DEF MailVerify
  <2> QED  BY <2>1, <2>2, AssertMoves, Zenon DEF MailMove
<1>2. ASSUME NEW p \in Procs,
             \/ CodeClaim(p) \/ CodeCompare(p) \/ \E s, m, right : VerifyMyEmail(p, s, m, right)
             \/ \E s, m, delivered : SendMyEmailCode(s, m, delivered)
      PROVE  UNCHANGED <<mail, nextMail, prim>>
  BY <1>2, Zenon DEF CodeClaim, CodeCompare, VerifyMyEmail, SendMyEmailCode, emailVars
<1>3. ASSUME NEW s \in Sids, NEW m, NEW delivered, SendMyEmailCode(s, m, delivered)
      PROVE  UNCHANGED <<mail, nextMail, prim>>
  BY <1>3, Zenon DEF SendMyEmailCode
<1>4. ASSUME NEW s \in Sids, NEW m \in Mails, SetMyEmailPrimary(s, m) \/ DeleteMyEmail(s, m)
      PROVE  MailMove
  <2>1. Caller(s)  BY <1>4, Zenon DEF SetMyEmailPrimary, DeleteMyEmail
  <2>2. sess[s].a \in Accounts  BY <2>1, Callers, Zenon DEF Caller, HeldOK
  <2> QED  BY <1>4, <2>2, Zenon DEF SetMyEmailPrimary, DeleteMyEmail, MailMove
<1>5. ASSUME NEW s \in Sids, NEW m \in Mails,
             VerifyAccountEmail(s, m) \/ SetAccountEmailPrimary(s, m) \/ DeleteAccountEmail(s, m)
      PROVE  MailMove
  <2>1. mail[m].a # None  BY <1>5, Zenon DEF VerifyAccountEmail, SetAccountEmailPrimary, DeleteAccountEmail
  <2>2. mail[m].a \in Accounts  BY <2>1 DEF MailOK, Owners
  <2> QED  BY <1>5, <2>2, AssertMoves, Zenon DEF VerifyAccountEmail, SetAccountEmailPrimary, DeleteAccountEmail, MailMove
<1>6. ASSUME NEW s \in Sids, NEW addr, AddMyEmail(s, addr)
      PROVE  MailMove
  <2>1. Caller(s) /\ Add(sess[s].a, addr)  BY <1>6, Zenon DEF AddMyEmail
  <2>2. sess[s].a \in Accounts  BY <2>1, Callers, Zenon DEF Caller, HeldOK
  <2> QED  BY <2>1, <2>2, AddMoves
<1>7. ASSUME NEW s, NEW a \in Accounts, NEW addr, NEW ver \in BOOLEAN, NEW primary \in BOOLEAN,
             AddAccountEmail(s, a, addr, ver, primary)
      PROVE  MailMove
  BY <1>7, AdminAddMoves, Zenon DEF AddAccountEmail
<1>8. ASSUME UNCHANGED <<mail, nextMail, prim>>  PROVE MailMove  BY <1>8, Zenon DEF MailMove
<1>9. MailMove
  BY <1>1, <1>2, <1>3, <1>4, <1>5, <1>6, <1>7, <1>8, Zenon DEF EmailNext, MailStep
<1>10. ASSUME NEW s \in Sids, NEW m \in Mails, MailStep(s, m)
       PROVE  UNCHANGED tables
  BY <1>10, Zenon DEF MailStep, SetMyEmailPrimary, DeleteMyEmail, VerifyAccountEmail, SetAccountEmailPrimary,
     DeleteAccountEmail, SendMyEmailCode, VerifyMyEmail, directory
<1>11. ASSUME NEW s, NEW addr, AddMyEmail(s, addr) \/ \E a, ver, primary : AddAccountEmail(s, a, addr, ver, primary)
       PROVE  UNCHANGED tables
  BY <1>11, Zenon DEF AddMyEmail, AddAccountEmail, directory
<1>12. ASSUME NEW p, CodeClaim(p) \/ CodeCompare(p) \/ MailVerify(p)
       PROVE  UNCHANGED tables
  BY <1>12, Zenon DEF CodeClaim, CodeCompare, MailVerify
<1>13. UNCHANGED tables  BY <1>10, <1>11, <1>12, Zenon DEF EmailNext
<1> QED  BY <1>9, <1>13

-----------------------------------------------------------------------------
(* Enrollment                                                                *)

\* A new account, by a redemption or an upstream identity.
AccountsMove ==
    \/ UNCHANGED acct
    \/ \E a \in Accounts : \E admin \in BOOLEAN : ~acct[a].on /\ InsertAccount(a, admin)

\* Identities are inserted for free subjects, confirmed and deleted.
LinksMove ==
    \/ links' \subseteq links
    \/ \E u, conf : \E i \in Idps, a \in Accounts : SubjectFree(u) /\ links' = InsertAccountIdentity(i, u, a, conf)
    \/ \E a, u : Confirm(a, u)

InvitesMove ==
    \/ UNCHANGED inv
    \/ \E t \in Invites : \E row : Invitation(row) /\ inv' = [inv EXCEPT ![t] = row]
    \/ \E t : inv' = [inv EXCEPT ![t].st = "spent"]
    \/ \E t : \E i \in Idps : \E u : inv' = AttachedInviteIdentity(t, i, u)
    \/ DOMAIN inv' = Invites /\ \A t \in Invites : inv'[t] \in {inv[t], [NoInvite EXCEPT !.st = "gone"]}

LEMMA LinksMoved ==
    ASSUME LinksOK, LinksMove
    PROVE  LinksOK'
<1>1. CASE links' \subseteq links  BY <1>1 DEF LinksOK
<1>2. ASSUME NEW i \in Idps, NEW u, NEW conf, NEW a \in Accounts, links' = InsertAccountIdentity(i, u, a, conf)
      PROVE  LinksOK'
  BY <1>2 DEF LinksOK, InsertAccountIdentity, Linked, LinkFields
<1>3. ASSUME NEW a, NEW u, Confirm(a, u)
      PROVE  LinksOK'
  <2>1. ASSUME NEW k \in links'  PROVE DOMAIN k = LinkFields /\ k.a \in Accounts /\ k.idp \in Idps
    <3>1. PICK l \in links : k = IF l.sub = u /\ l.a = a THEN [l EXCEPT !.conf = TRUE] ELSE l
      BY <1>3 DEF Confirm
    <3>2. DOMAIN l = LinkFields /\ l.a \in Accounts /\ l.idp \in Idps  BY DEF LinksOK
    <3> QED  BY <3>1, <3>2 DEF LinkFields
  <2> QED  BY <2>1 DEF LinksOK
<1> QED  BY <1>1, <1>2, <1>3, Zenon DEF LinksMove

\* One identity per subject.
OneBinding == \A l, m \in links : l.sub = m.sub => l = m

LEMMA BindingsMoved ==
    ASSUME LinksOK, OneBinding, LinksMove
    PROVE  OneBinding'
<1>1. CASE links' \subseteq links  BY <1>1 DEF OneBinding
<1>2. ASSUME NEW i, NEW u, NEW conf, NEW a, SubjectFree(u), links' = InsertAccountIdentity(i, u, a, conf)
      PROVE  OneBinding'
  <2> DEFINE new == Linked(i, u, a, conf)
  <2>1. new.sub = u  BY DEF Linked
  <2>2. links' = links \cup {new}  BY <1>2 DEF InsertAccountIdentity
  <2>3. \A l \in links : l.sub # u  BY <1>2 DEF SubjectFree, Bound
  <2> HIDE DEF new
  <2> QED  BY <2>1, <2>2, <2>3 DEF OneBinding
<1>3. ASSUME NEW a, NEW u, Confirm(a, u)
      PROVE  OneBinding'
  <2> DEFINE Conf(l) == IF l.sub = u /\ l.a = a THEN [l EXCEPT !.conf = TRUE] ELSE l
  <2>1. ASSUME NEW k \in links', NEW m \in links', k.sub = m.sub  PROVE k = m
    <3>1. PICK x \in links : k = Conf(x)  BY <1>3 DEF Confirm
    <3>2. PICK y \in links : m = Conf(y)  BY <1>3 DEF Confirm
    <3>3. ASSUME NEW l \in links  PROVE Conf(l).sub = l.sub  BY DEF LinksOK, LinkFields
    <3>4. x.sub = y.sub  BY <2>1, <3>1, <3>2, <3>3
    <3> QED  BY <3>1, <3>2, <3>4 DEF OneBinding
  <2> QED  BY <2>1 DEF OneBinding
<1> QED  BY <1>1, <1>2, <1>3, Zenon DEF LinksMove

LEMMA InvitesMoved ==
    ASSUME InvitesOK, InvitesMove
    PROVE  InvitesOK'
<1>1. CASE UNCHANGED inv  BY <1>1 DEF InvitesOK
<1>2. ASSUME NEW t \in Invites, NEW row, Invitation(row), inv' = [inv EXCEPT ![t] = row]  PROVE InvitesOK'
  BY <1>2 DEF InvitesOK
<1>3. ASSUME NEW t, inv' = [inv EXCEPT ![t].st = "spent"]  PROVE InvitesOK'
  BY <1>3 DEF InvitesOK, Invitation, InviteFields
<1>4. ASSUME NEW t, NEW i \in Idps, NEW u, inv' = AttachedInviteIdentity(t, i, u)
      PROVE  InvitesOK'
  <2> DEFINE x == [idp |-> i, sub |-> u]
  <2>1. inv' = [inv EXCEPT ![t].snap = x] /\ x.idp \in Idps  BY <1>4 DEF AttachedInviteIdentity
  <2> HIDE DEF x
  <2> QED  BY <2>1 DEF InvitesOK, Invitation, InviteFields
<1>5. Invitation([NoInvite EXCEPT !.st = "gone"])  BY DEF Invitation, NoInvite, InviteFields
<1>6. CASE DOMAIN inv' = Invites /\ \A t \in Invites : inv'[t] \in {inv[t], [NoInvite EXCEPT !.st = "gone"]}
  BY <1>5, <1>6, Zenon DEF InvitesOK
<1> QED  BY <1>1, <1>2, <1>3, <1>4, <1>6, Zenon DEF InvitesMove

\* What a redemption does: an account of its own for an unbound token, one with an
\* identity at the provider for a bound one.
EnrollEffect ==
    /\ UNCHANGED <<clock, partial>>
    /\ SessionsMove /\ KeysMove /\ PasswordsMove /\ AccountsMove /\ LinksMove /\ InvitesMove
    /\ UNCHANGED unbound /\ ProposalsOK'

LEMMA RedeemEffects ==
    ASSUME HeldOK, InvitesOK, NEW p \in Procs, pc[p] \in {"enrollTx", "enrollPtTx"}, Redeem(p)
    PROVE  AccountsMove /\ LinksMove /\ InvitesMove /\ UNCHANGED unbound /\ UNCHANGED <<clock, sess, enrolling>>
<1> DEFINE t == loc[p].t
           a == loc[p].a
           x == inv[t].snap
<1>1. a \in Accounts /\ t \in Invites  BY DEF HeldOK, FrameOK, Holder, Acting
<1>2. Invitation(inv[t])  BY <1>1 DEF InvitesOK
<1>3. AccountsMove
  <2>1. CASE inv[t].intent = "reset"  BY <2>1, Zenon DEF Redeem, AccountsMove
  <2>2. CASE inv[t].intent # "reset"
    <3>1. ~acct[a].on  BY <2>2, Zenon DEF Redeem, Proposal
    <3>2. InsertAccount(a, inv[t].intent = "bootstrap" \/ inv[t].admin)  BY <2>2, Zenon DEF Redeem
    <3>3. (inv[t].intent = "bootstrap" \/ inv[t].admin) \in BOOLEAN  OBVIOUS
    <3> QED  BY <1>1, <3>1, <3>2, <3>3, Zenon DEF AccountsMove
  <2> QED  BY <2>1, <2>2
<1>4. x # None => SnapshotUsable(x) /\ links' = InsertInviteIdentity(x, a)
  BY Zenon DEF Redeem
<1>5. x = None => links' = links  BY Zenon DEF Redeem
<1>6. LinksMove
  <2>1. CASE x = None  BY <1>5, <2>1 DEF LinksMove
  <2>2. CASE x # None
    <3>1. SubjectFree(x.sub)  BY <1>4, <2>2 DEF SnapshotUsable, SubjectFree, Bound
    <3>2. x.idp \in Idps  BY <1>2, <2>2 DEF Invitation
    <3> QED  BY <1>1, <1>4, <2>2, <3>1, <3>2, Zenon DEF InsertInviteIdentity, LinksMove
  <2> QED  BY <2>1, <2>2
<1>7. InvitesMove  BY Zenon DEF Redeem, InvitesMove
<1>8. Unbound(t, a, links') = {}
  <2>1. CASE inv[t].idp = None  BY <2>1 DEF Unbound
  <2>2. CASE inv[t].idp # None
    <3>1. x # None /\ x.idp = inv[t].idp  BY <1>2, <2>2, Zenon DEF Redeem, BindingHonoured, Invitation
    <3>2. links' = links \cup {Linked(x.idp, x.sub, a, TRUE)}
      BY <1>4, <3>1, Zenon DEF InsertInviteIdentity, InsertAccountIdentity
    <3>3. Linked(x.idp, x.sub, a, TRUE).a = a /\ Linked(x.idp, x.sub, a, TRUE).idp = inv[t].idp  BY <3>1 DEF Linked
    <3>4. \E l \in links' : l.a = a /\ l.idp = inv[t].idp  BY <3>2, <3>3
    <3> QED  BY <3>4, Zenon DEF Unbound
  <2> QED  BY <2>1, <2>2
<1>9. unbound' = unbound  BY <1>8 DEF Redeem
<1>10. UNCHANGED <<clock, sess, enrolling>>  BY Zenon DEF Redeem
<1> QED  BY <1>3, <1>6, <1>7, <1>9, <1>10

LEMMA EnrollEffects ==
    ASSUME HeldOK, InvitesOK, EnrollNext
    PROVE  EnrollEffect
<1> USE DEF tables, factors, federated, stashes, signInHistory, signInVars, frame, directory, enrollHistory, enrollVars
<1>1. ProposalsOK  BY DEF HeldOK, HoldersOK
<1>2. ASSUME UNCHANGED enrolling  PROVE ProposalsOK'  BY <1>1, <1>2 DEF ProposalsOK
<1> DEFINE Kept == UNCHANGED <<clock, partial, sess, keys, pw, retired, revived>>
           OnlyInvites == Kept /\ UNCHANGED <<acct, links, unbound>> /\ InvitesMove /\ ProposalsOK'
<1>3. ASSUME Kept  PROVE SessionsMove /\ KeysMove /\ PasswordsMove  BY <1>3, Zenon DEF SessionsMove, KeysMove, PasswordsMove
<1>4. ASSUME OnlyInvites  PROVE EnrollEffect
  <2>1. LinksMove  BY <1>4 DEF LinksMove
  <2> QED  BY <1>3, <1>4, <2>1, Zenon DEF EnrollEffect, AccountsMove
<1>5. ASSUME NEW t \in Invites, NEW row, IssueEnrollment(t, row), Invitation(row), UNCHANGED signInVars
      PROVE  OnlyInvites
  <2> DEFINE new == [row EXCEPT !.st = "open", !.until = clock + EnrollmentTTL]
  <2>1. Invitation(new)  BY <1>5 DEF Invitation, InviteFields
  <2> HIDE DEF new
  <2>2. inv' = [inv EXCEPT ![t] = new]  BY <1>5, Zenon DEF IssueEnrollment, new
  <2>3. InvitesMove  BY <2>1, <2>2, Zenon DEF InvitesMove
  <2> QED  BY <1>2, <1>5, <2>3, Zenon DEF IssueEnrollment
<1>6. ASSUME NEW t \in Invites, EnrollIssueStep(t), UNCHANGED signInVars
      PROVE  OnlyInvites
  <2> HIDE DEF OnlyInvites
  <2>1. ASSUME NEW a, NEW new, EnrollAdmin(t, a, new)  PROVE OnlyInvites
    <3>1. Invitation([NoInvite EXCEPT !.intent = "bootstrap"]) /\ Invitation([NoInvite EXCEPT !.intent = "reset", !.a = a])
      BY DEF Invitation, NoInvite, InviteFields
    <3> QED  BY <1>5, <1>6, <2>1, <3>1, Zenon DEF EnrollAdmin
  <2>2. ASSUME NEW s, RevokeInvitation(s, t)  PROVE OnlyInvites
    <3>1. InvitesMove  BY <2>2, Zenon DEF RevokeInvitation, InvitationRevoked, InvitesMove
    <3> QED  BY <1>2, <1>6, <2>2, <3>1, Zenon DEF RevokeInvitation, OnlyInvites
  <2>3. ASSUME NEW s, NEW a, ReissueEnrollment(s, t, a)  PROVE OnlyInvites
    <3>1. Invitation([NoInvite EXCEPT !.intent = "reset", !.a = a])  BY DEF Invitation, NoInvite, InviteFields
    <3> QED  BY <1>5, <1>6, <2>3, <3>1, Zenon DEF ReissueEnrollment
  <2>4. ASSUME NEW s, NEW admin \in BOOLEAN, NEW i, NEW local, CreateInvitation(s, t, admin, i, local)
        PROVE OnlyInvites
    <3> DEFINE row == [NoInvite EXCEPT !.intent = "invite", !.admin = admin, !.idp = i,
                                       !.local = local \/ (i # None /\ ~idps[i].signIn)]
    <3>1. Invitation(row)  BY DEF Invitation, NoInvite, InviteFields
    <3>2. IssueEnrollment(t, row)  BY <2>4, Zenon DEF CreateInvitation
    <3> HIDE DEF row
    <3> QED  BY <1>5, <1>6, <3>1, <3>2
  <2>5. ASSUME NEW a \in Accounts, EnrollmentBegin(t, a)  PROVE OnlyInvites
    <3>1. enrolling' = SetEx(enrolling, t, a, CeremonyTTL, clock)  BY <2>5 DEF EnrollmentBegin
    <3>2. ProposalsOK'  BY <1>1, <3>1, SetExCells DEF ProposalsOK
    <3> QED  BY <1>6, <2>5, <3>2, Zenon DEF EnrollmentBegin, InvitesMove, OnlyInvites
  <2> QED  BY <1>6, <2>1, <2>2, <2>3, <2>4, <2>5, Zenon DEF EnrollIssueStep
<1>7. ASSUME NEW p, NEW t, EnrollReadStep(p, t), UNCHANGED signInVars
      PROVE  OnlyInvites
  BY <1>2, <1>7, Zenon DEF EnrollReadStep, EnrollmentComplete, PasswordTotpVerify, InvitesMove
<1>8. ASSUME NEW p \in Procs, EnrollWithPasskey(p)
      PROVE  EnrollEffect
  <2>1. loc[p].a \in Accounts  BY <1>8 DEF EnrollWithPasskey, HeldOK, FrameOK, Holder, Acting
  <2>2. AccountsMove /\ LinksMove /\ InvitesMove /\ UNCHANGED unbound /\ UNCHANGED <<clock, sess, enrolling>>
    BY <1>8, RedeemEffects DEF EnrollWithPasskey
  <2>3. KeysMove
    <3>1. keys' = [k \in Creds |-> CASE k = loc[p].k -> InsertCredential(loc[p].a)
                                     [] keys[k].a = loc[p].a /\ k # loc[p].k -> NoKey
                                     [] OTHER -> keys[k]]
      BY <1>8, Zenon DEF EnrollWithPasskey
    <3>2. DOMAIN keys' = Creds  BY <3>1
    <3>3. ASSUME NEW k \in Creds
          PROVE  keys'[k] \in {keys[k], NoKey} \/ keys'[k] = InsertCredential(loc[p].a)
      BY <3>1
    <3> QED  BY <2>1, <3>2, <3>3, Zenon DEF KeysMove
  <2>4. UNCHANGED <<partial, pw, retired, revived>>  BY <1>8, Zenon DEF EnrollWithPasskey
  <2> QED  BY <1>2, <2>2, <2>3, <2>4, Zenon DEF EnrollEffect, SessionsMove, PasswordsMove
<1>9. ASSUME NEW p \in Procs, EnrollWithPassword(p)
      PROVE  EnrollEffect
  <2>1. AccountsMove /\ LinksMove /\ InvitesMove /\ UNCHANGED unbound /\ UNCHANGED <<clock, sess, enrolling>>
    BY <1>9, RedeemEffects DEF EnrollWithPassword
  <2>2. KeysMove
    <3>1. keys' = [k \in Creds |-> IF keys[k].a = loc[p].a THEN NoKey ELSE keys[k]]
      BY <1>9, Zenon DEF EnrollWithPassword
    <3> QED  BY <3>1 DEF KeysMove
  <2>3. UNCHANGED partial  BY <1>9, Zenon DEF EnrollWithPassword
  <2>4. PasswordsMove  BY <1>9, Zenon DEF EnrollWithPassword, PasswordsMove
  <2> QED  BY <1>2, <2>1, <2>2, <2>3, <2>4, Zenon DEF EnrollEffect, SessionsMove
<1> DEFINE Others == UNCHANGED <<clock, partial, keys, pw, retired, revived, acct, links, inv, unbound>>
<1>10. ASSUME Others, SessionsMove, ProposalsOK'
       PROVE  EnrollEffect
  <2>1. LinksMove  BY <1>10 DEF LinksMove
  <2> QED  BY <1>10, <2>1, Zenon DEF EnrollEffect, KeysMove, PasswordsMove, AccountsMove, InvitesMove
<1>11. ASSUME NEW p \in Procs, NEW fails, EnrollRevokes(p, fails), UNCHANGED signInVars
       PROVE  EnrollEffect
  <2>1. SessionsMove  BY <1>11, Zenon DEF EnrollRevokes, SessionsMove
  <2>2. ProposalsOK'
    <3>1. enrolling' = Del(enrolling, loc[p].t) \/ enrolling' = enrolling  BY <1>11, Zenon DEF EnrollRevokes
    <3> QED  BY <1>1, <3>1, DelCells DEF ProposalsOK
  <2>3. Others  BY <1>11, Zenon DEF EnrollRevokes
  <2> QED  BY <1>10, <2>1, <2>2, <2>3
<1>12. ASSUME NEW p \in Procs, EnrollSignsIn(p), UNCHANGED signInVars
       PROVE  EnrollEffect
  <2>1. loc[p].a \in Accounts  BY <1>12 DEF EnrollSignsIn, HeldOK, FrameOK, Holder, Acting
  <2>2. SessionsMove  BY <1>12, <2>1, Zenon DEF EnrollSignsIn, SessionsMove
  <2>3. Others /\ UNCHANGED enrolling  BY <1>12, Zenon DEF EnrollSignsIn
  <2> QED  BY <1>2, <1>10, <2>2, <2>3
<1> HIDE DEF OnlyInvites, Others, Kept
<1> QED  BY <1>4, <1>6, <1>7, <1>8, <1>9, <1>11, <1>12, Zenon DEF EnrollNext

-----------------------------------------------------------------------------
(* Federation                                                                *)

\* What the flows and the administration of providers do.
FederationEffect ==
    /\ UNCHANGED clock
    /\ SessionsMove /\ AccountsMove /\ LinksMove /\ InvitesMove /\ MailMove
    /\ UNCHANGED unbound /\ FlowsOK' /\ GrantsOK'

\* The steps that only sign in, or only write the flows or the grants.
FlowsOnly ==
    /\ UNCHANGED <<clock, acct, links, inv, unbound, mail, nextMail, prim>>
    /\ SessionsMove /\ FlowsOK' /\ GrantsOK'

LEMMA FlowsOnlyEffect ==
    ASSUME FlowsOnly
    PROVE  FederationEffect
<1>1. LinksMove  BY DEF FlowsOnly, LinksMove
<1> QED  BY <1>1, Zenon DEF FlowsOnly, FederationEffect, AccountsMove, InvitesMove, MailMove

LEMMA FlowsSame ==
    ASSUME HeldOK
    PROVE  (UNCHANGED flow => FlowsOK') /\ (UNCHANGED grants => GrantsOK')
<1>1. FlowsOK /\ GrantsOK  BY DEF HeldOK, HoldersOK
<1> QED  BY <1>1 DEF FlowsOK, GrantsOK

LEMMA FlowWritten ==
    ASSUME HeldOK, NEW f, NEW st, Aimed(st), NEW ttl, flow' = SetEx(flow, f, st, ttl, clock)
    PROVE  FlowsOK'
<1>1. FlowsOK  BY DEF HeldOK, HoldersOK
<1> HIDE DEF Aimed
<1> QED  BY <1>1, SetExCells DEF FlowsOK

LEMMA FlowDeleted ==
    ASSUME HeldOK, NEW f, flow' = Del(flow, f)
    PROVE  FlowsOK'
<1>1. FlowsOK  BY DEF HeldOK, HoldersOK
<1> QED  BY <1>1, DelCells DEF FlowsOK

\* A flow that begins aims at what it was begun for.
LEMMA BeginEffects ==
    ASSUME HeldOK, NEW f, NEW i \in Idps, NEW why, NEW a, NEW s, NEW t, Begin(f, i, why, a, s, t),
           why = "link" => a \in Accounts, why = "invite" => t \in Invites, UNCHANGED emailVars
    PROVE  FlowsOnly
<1> DEFINE act == IF i \in LocalIdps THEN "collect" ELSE "redirect"
           st == [idp |-> i, intent |-> why, a |-> a, s |-> s, t |-> t, act |-> act, until |-> clock + StateTTL]
<1>1. Aimed(st)  BY DEF Aimed, FlowFields
<1>2. flow' = SetEx(flow, f, st, StateTTL, clock)  BY Zenon DEF Begin
<1> HIDE DEF st
<1>3. FlowsOK'  BY <1>1, <1>2, FlowWritten
<1>4. GrantsOK'  BY FlowsSame, Zenon DEF Begin
<1>5. UNCHANGED <<clock, acct, links, inv, unbound, sess>>
  BY Zenon DEF Begin, directory, tables, federated, enrollVars, enrollHistory
<1> QED  BY <1>3, <1>4, <1>5, Zenon DEF FlowsOnly, SessionsMove, emailVars

\* What an identity resolves to.
LEMMA ResolvedEffects ==
    ASSUME HeldOK, NEW p, NEW step, NEW a, NEW u, NEW conf, NEW new, Resolved(p, step, a, u, conf, new)
    PROVE  UNCHANGED <<clock, sess>> /\ FlowsOK' /\ GrantsOK'
BY FlowsSame, Zenon DEF Resolved

LEMMA ProvisionEffects ==
    ASSUME HeldOK, NEW p \in Procs, pc[p] = "flowResolve",
           NEW a \in Accounts, NEW u, NEW addr, NEW admin \in BOOLEAN, Provision(p, a, u, addr, admin)
    PROVE  /\ UNCHANGED <<clock, sess>> /\ FlowsOK' /\ GrantsOK'
           /\ AccountsMove /\ LinksMove /\ MailMove
           /\ links' = links \cup {Linked(loc[p].st.idp, u, a, FALSE)}
<1>1. Resolved(p, "fedDone", a, u, FALSE, TRUE) /\ Absorb(a, addr)  BY Zenon DEF Provision
<1>2. UNCHANGED <<clock, sess>> /\ FlowsOK' /\ GrantsOK'  BY <1>1, ResolvedEffects
<1>3. MailMove  BY <1>1, AbsorbMoves
<1>4. AccountsMove  BY Zenon DEF Provision, AccountsMove
<1>0. loc[p].st.idp \in Idps  BY DEF HeldOK, FrameOK, Holder, InFlow, Aimed
<1>5. LinksMove  BY <1>0, Zenon DEF Provision, LinksMove
<1>6. links' = links \cup {Linked(loc[p].st.idp, u, a, FALSE)}  BY Zenon DEF Provision, InsertAccountIdentity
<1> QED  BY <1>2, <1>3, <1>4, <1>5, <1>6

LEMMA ResolveEffects ==
    ASSUME HeldOK, LinksOK, InvitesOK, NEW p \in Procs, NEW u, ResolveStep(p, u)
    PROVE  FederationEffect
<1>1. ASSUME NEW addr, ResolveExisting(p, u, addr)
      PROVE  FederationEffect
  <2>1. PICK l \in Bound(u) : SyncClaims(l, addr) /\ Resolved(p, "fedDone", l.a, u, l.conf, FALSE)
    BY <1>1, Zenon DEF ResolveExisting
  <2>2. l.a \in Accounts  BY DEF Bound, LinksOK
  <2>3. MailMove  BY <2>1, <2>2, AbsorbMoves DEF SyncClaims
  <2>4. UNCHANGED <<clock, sess>> /\ FlowsOK' /\ GrantsOK'  BY <2>1, ResolvedEffects
  <2>5. UNCHANGED <<acct, links, inv, unbound>>  BY <1>1, Zenon DEF ResolveExisting
  <2>6. LinksMove  BY <2>5 DEF LinksMove
  <2> QED  BY <2>3, <2>4, <2>5, <2>6, Zenon DEF FederationEffect, SessionsMove, AccountsMove, InvitesMove
<1>2. ASSUME NEW addr, ResolveLink(p, u, addr)
      PROVE  FederationEffect
  <2> DEFINE a == loc[p].st.a
  <2>1. pc[p] = "flowResolve" /\ loc[p].st.intent = "link"  BY <1>2, Zenon DEF ResolveLink, Resolving
  <2>2. a \in Accounts /\ loc[p].st.idp \in Idps  BY <2>1 DEF HeldOK, FrameOK, Holder, InFlow, Coding, Aimed
  <2>3. Resolved(p, "linkConfirm", a, u, FALSE, FALSE) /\ Absorb(a, addr)  BY <1>2, Zenon DEF ResolveLink
  <2>4. MailMove  BY <2>2, <2>3, AbsorbMoves
  <2>5. UNCHANGED <<clock, sess>> /\ FlowsOK' /\ GrantsOK'  BY <2>3, ResolvedEffects
  <2>6. LinksMove  BY <1>2, <2>2, Zenon DEF ResolveLink, LinksMove
  <2>7. UNCHANGED <<acct, inv, unbound>>  BY <1>2, Zenon DEF ResolveLink
  <2> QED  BY <2>4, <2>5, <2>6, <2>7, Zenon DEF FederationEffect, SessionsMove, AccountsMove, InvitesMove
<1>3. ASSUME NEW a \in Accounts, NEW addr, ApplyAutoProvision(p, a, u, addr)
      PROVE  FederationEffect
  <2>1. pc[p] = "flowResolve" /\ Provision(p, a, u, addr, FALSE) /\ UNCHANGED <<inv, unbound>>
    BY <1>3, Zenon DEF ApplyAutoProvision, Resolving
  <2>2. /\ UNCHANGED <<clock, sess>> /\ FlowsOK' /\ GrantsOK'
        /\ AccountsMove /\ LinksMove /\ MailMove
    BY <2>1, ProvisionEffects
  <2> QED  BY <2>1, <2>2, Zenon DEF FederationEffect, SessionsMove, InvitesMove
<1>4. ASSUME NEW a \in Accounts, NEW addr, ApplyInviteProvision(p, a, u, addr)
      PROVE  FederationEffect
  <2> DEFINE t == loc[p].st.t
  <2>1. /\ pc[p] = "flowResolve" /\ loc[p].st.intent = "invite" /\ InviteClaim(p)
        /\ Provision(p, a, u, addr, inv[t].admin)
        /\ inv' = ConsumeInviteEnrollment(t)
        /\ unbound' = unbound \cup Unbound(t, a, links')
    BY <1>4, Zenon DEF ApplyInviteProvision, Resolving
  <2>2. t \in Invites  BY <2>1 DEF HeldOK, FrameOK, Holder, InFlow, Coding, Aimed
  <2>3. inv[t].admin \in BOOLEAN  BY <2>2 DEF InvitesOK, Invitation
  <2>4. /\ UNCHANGED <<clock, sess>> /\ FlowsOK' /\ GrantsOK'
        /\ AccountsMove /\ LinksMove /\ MailMove
        /\ links' = links \cup {Linked(loc[p].st.idp, u, a, FALSE)}
    BY <2>1, <2>3, ProvisionEffects
  <2>5. InvitesMove  BY <2>1, Zenon DEF ConsumeInviteEnrollment, InvitesMove
  <2>6. Unbound(t, a, links') = {}
    <3> DEFINE l == Linked(loc[p].st.idp, u, a, FALSE)
    <3>1. l \in links' /\ l.a = a /\ l.idp = loc[p].st.idp  BY <2>4 DEF Linked
    <3>2. inv[t].idp \in {None, loc[p].st.idp}  BY <2>1 DEF InviteClaim
    <3> HIDE DEF l
    <3> QED  BY <3>1, <3>2 DEF Unbound
  <2>7. unbound' = unbound  BY <2>1, <2>6
  <2> QED  BY <2>4, <2>5, <2>7, Zenon DEF FederationEffect, SessionsMove
<1>5. ASSUME AttachInviteIdentity(p, u)
      PROVE  FederationEffect
  <2>1. UNCHANGED <<clock, sess, acct, links, unbound, mail, nextMail, prim, flow, grants>>
    BY <1>5, Zenon DEF AttachInviteIdentity, tables, federated, enrollHistory
  <2>0. pc[p] = "flowResolve"  BY <1>5, Zenon DEF AttachInviteIdentity, Resolving
  <2>4. loc[p].st.idp \in Idps  BY <2>0 DEF HeldOK, FrameOK, Holder, InFlow, Aimed
  <2>2. InvitesMove  BY <1>5, <2>4, Zenon DEF AttachInviteIdentity, InvitesMove
  <2>3. LinksMove  BY <2>1 DEF LinksMove
  <2> QED  BY <2>1, <2>2, <2>3, FlowsSame, Zenon DEF FederationEffect, SessionsMove, AccountsMove, MailMove
<1> QED  BY <1>1, <1>2, <1>3, <1>4, <1>5, Zenon DEF ResolveStep

LEMMA FlowEffects ==
    ASSUME HeldOK, NEW f \in Flows, FlowStep(f), UNCHANGED emailVars
    PROVE  FederationEffect
<1> USE DEF tables, federated, directory, enrollVars, enrollHistory, emailVars
<1>1. ASSUME NEW i \in Idps, FederationLogin(f, i)
      PROVE  FlowsOnly
  <2>1. Begin(f, i, "login", None, None, None)  BY <1>1, Zenon DEF FederationLogin, BeginPublic
  <2> QED  BY <2>1, BeginEffects
<1>2. ASSUME NEW i \in Idps, NEW s \in Sids, IdentitiesLinkBegin(s, f, i)
      PROVE  FlowsOnly
  <2>1. Begin(f, i, "link", sess[s].a, s, None) /\ Caller(s)
    BY <1>2, Zenon DEF IdentitiesLinkBegin, BeginLink, Me
  <2>2. sess[s].a \in Accounts  BY <2>1, Callers, Zenon DEF Caller, HeldOK
  <2> QED  BY <2>1, <2>2, BeginEffects
<1>3. ASSUME NEW i \in Idps, NEW t \in Invites, EnrollmentStartFederation(f, i, t)
      PROVE  FlowsOnly
  <2>1. Begin(f, i, "invite", None, None, t)  BY <1>3, Zenon DEF EnrollmentStartFederation, BeginInvite
  <2> QED  BY <2>1, BeginEffects
<1>4. ASSUME NEW p, NEW s, PrepareFlow(p, f, s) \/ \E route : FederationCallback(p, f, s, route)
      PROVE  FlowsOnly
  BY <1>4, FlowsSame, Zenon DEF PrepareFlow, FederationCallback, VerifyFlow, FlowLoad, FlowsOnly, SessionsMove
<1>5. ASSUME LeaseLost(f)
      PROVE  FlowsOnly
  BY <1>5, FlowsSame, Zenon DEF LeaseLost, FlowsOnly, SessionsMove
<1>6. ASSUME NEW store, store = Del(grants, f), grants' = store
      PROVE  GrantsOK'
  <2>1. GrantsOK  BY DEF HeldOK, HoldersOK
  <2> QED  BY <1>6, <2>1, DelCells DEF GrantsOK
<1>7. ASSUME ConfirmDecline(f)
      PROVE  FlowsOnly
  <2>1. GrantsOK'  BY <1>6, <1>7, Zenon DEF ConfirmDecline, PopGrant
  <2> QED  BY <1>7, <2>1, FlowsSame, Zenon DEF ConfirmDecline, FlowsOnly, SessionsMove
<1>8. ASSUME NEW p, FederationConfirm(p, f)
      PROVE  FederationEffect
  <2>1. GrantsOK'  BY <1>6, <1>8, Zenon DEF FederationConfirm, PopGrant
  <2>2. UNCHANGED <<clock, acct, sess, inv, unbound, mail, nextMail, prim, flow>>
    BY <1>8, Zenon DEF FederationConfirm
  <2>3. LinksMove  BY <1>8, Zenon DEF FederationConfirm, LinksMove
  <2> QED  BY <2>1, <2>2, <2>3, FlowsSame, Zenon DEF FederationEffect, SessionsMove, AccountsMove, InvitesMove, MailMove
<1> QED  BY <1>1, <1>2, <1>3, <1>4, <1>5, <1>7, <1>8, FlowsOnlyEffect, Zenon DEF FlowStep

LEMMA ProviderEffects ==
    ASSUME HeldOK, InvitesOK, NEW s, NEW i, ProviderStep(s, i), UNCHANGED emailVars
    PROVE  FederationEffect
<1>1. UNCHANGED <<clock, acct, sess, unbound, mail, nextMail, prim, flow, grants>>
  BY Zenon DEF ProviderStep, emailVars, enrollHistory, fedVars
<1>2. (UNCHANGED links \/ links' = DeleteAccountIdentitiesByUpstreamIDP(i)) /\ InvitesMove
  <2>1. CASE UNCHANGED <<links, inv>>  BY <2>1, Zenon DEF InvitesMove
  <2>2. CASE DeleteIdentityProvider(s, i)
    <3>1. inv' = [t \in Invites |-> IF inv[t].snap # None /\ inv[t].snap.idp = i
                                    THEN [NoInvite EXCEPT !.st = "gone"] ELSE inv[t]]
      BY <2>2, Zenon DEF DeleteIdentityProvider
    <3> DEFINE gone == [NoInvite EXCEPT !.st = "gone"]
    <3>2. DOMAIN inv' = Invites  BY <3>1
    <3> HIDE DEF gone
    <3>3. ASSUME NEW t \in Invites  PROVE inv'[t] \in {inv[t], gone}  BY <3>1 DEF gone
    <3> QED  BY <2>2, <3>2, <3>3, Zenon DEF DeleteIdentityProvider, InvitesMove, gone
  <2> QED  BY <2>1, <2>2, Zenon DEF ProviderStep, CreateIdentityProvider, UpdateIdentityProvider, SetIdentityProviderDisabled
<1>3. LinksMove  BY <1>2 DEF DeleteAccountIdentitiesByUpstreamIDP, LinksMove
<1> QED  BY <1>1, <1>2, <1>3, FlowsSame, Zenon DEF FederationEffect, SessionsMove, AccountsMove, MailMove

LEMMA FederationEffects ==
    ASSUME HeldOK, LinksOK, InvitesOK, FederationNext
    PROVE  FederationEffect
<1> USE DEF tables, federated, enrollVars, enrollHistory, emailVars, fedVars
<1>1. ASSUME NEW p \in Procs, FlowPrepared(p), UNCHANGED emailVars
      PROVE  FlowsOnly
  <2> DEFINE st == loc[p].st
             new == [st EXCEPT !.act = "publish"]
  <2>1. Aimed(st)  BY <1>1 DEF FlowPrepared, HeldOK, FrameOK, Holder, InFlow, Coding
  <2>2. Aimed(new)  BY <2>1 DEF Aimed, FlowFields
  <2>3. flow' = flow \/ flow' = SetEx(flow, loc[p].f, new, st.until - clock, clock)  BY <1>1, Zenon DEF FlowPrepared
  <2> HIDE DEF new, st
  <2>4. FlowsOK'  BY <2>2, <2>3, FlowWritten, FlowsSame
  <2> QED  BY <1>1, <2>4, FlowsSame, Zenon DEF FlowPrepared, FlowsOnly, SessionsMove
<1>2. ASSUME NEW p \in Procs, FlowConsume(p), UNCHANGED emailVars
      PROVE  FlowsOnly
  <2>1. flow' = flow \/ flow' = Del(flow, loc[p].f)  BY <1>2, Zenon DEF FlowConsume
  <2>2. FlowsOK'  BY <2>1, FlowDeleted, FlowsSame
  <2> QED  BY <1>2, <2>2, FlowsSame, Zenon DEF FlowConsume, FlowsOnly, SessionsMove
<1>3. ASSUME NEW p \in Procs, FlowFails(p), UNCHANGED emailVars
      PROVE  FlowsOnly
  <2>1. Aimed(loc[p].st)  BY <1>3 DEF FlowFails, HeldOK, FrameOK, Holder, InFlow, Coding
  <2>2. flow' = flow \/ flow' = SetEx(flow, loc[p].f, loc[p].st, loc[p].st.until - clock, clock)
    BY <1>3, Zenon DEF FlowFails
  <2>3. FlowsOK'  BY <2>1, <2>2, FlowWritten, FlowsSame
  <2> QED  BY <1>3, <2>3, FlowsSame, Zenon DEF FlowFails, FlowsOnly, SessionsMove
<1>4. ASSUME NEW p \in Procs, FederationCompletes(p), UNCHANGED emailVars
      PROVE  FlowsOnly
  <2> DEFINE grant == [a |-> loc[p].a, u |-> loc[p].u]
  <2>1. loc[p].a \in Accounts  BY <1>4 DEF FederationCompletes, HeldOK, FrameOK, Holder, Acting
  <2>2. grants' = grants \/ grants' = SetEx(grants, loc[p].f, grant, GrantTTL, clock)
    BY <1>4, Zenon DEF FederationCompletes, CreateConfirmGrant
  <2>3. grant.a \in Accounts  BY <2>1
  <2> HIDE DEF grant
  <2>4. GrantsOK'
    <3>1. GrantsOK  BY DEF HeldOK, HoldersOK
    <3> QED  BY <2>2, <2>3, <3>1, SetExCells DEF GrantsOK
  <2> QED  BY <1>4, <2>4, FlowsSame, Zenon DEF FederationCompletes, FlowsOnly, SessionsMove
<1>5. ASSUME NEW p \in Procs, FederationSignsIn(p), UNCHANGED emailVars
      PROVE  FlowsOnly
  <2>1. loc[p].a \in Accounts  BY <1>5 DEF FederationSignsIn, HeldOK, FrameOK, Holder, Acting
  <2>2. SessionsMove  BY <1>5, <2>1, Zenon DEF FederationSignsIn, SessionsMove
  <2> QED  BY <1>5, <2>2, FlowsSame, Zenon DEF FederationSignsIn, FlowsOnly
<1>6. ASSUME NEW p \in Procs, NEW ok, LinkConfirm(p, ok), UNCHANGED emailVars
      PROVE  FederationEffect
  <2>1. UNCHANGED <<clock, acct, sess, inv, unbound, mail, nextMail, prim, flow, grants>>  BY <1>6, Zenon DEF LinkConfirm
  <2>2. LinksMove
    <3>1. CASE UNCHANGED links  BY <3>1 DEF LinksMove
    <3> QED  BY <1>6, <3>1, Zenon DEF LinkConfirm, LinksMove
  <2> QED  BY <2>1, <2>2, FlowsSame, Zenon DEF FederationEffect, SessionsMove, AccountsMove, InvitesMove, MailMove
<1> QED  BY <1>1, <1>2, <1>3, <1>4, <1>5, <1>6, ResolveEffects, FlowEffects, ProviderEffects, FlowsOnlyEffect, Zenon
         DEF FederationNext

LEMMA FederationKeeps ==
    ASSUME FederationNext
    PROVE  UNCHANGED <<keys, partial, pw, retired, revived, enrolling>>
<1> USE DEF tables, factors, federated, stashes, signInHistory, signInVars, directory, frame, enrollVars
<1>1. UNCHANGED <<partial, retired, revived>>  BY Zenon DEF FederationNext
<1>2. ASSUME NEW p, NEW u, ResolveStep(p, u)
      PROVE  UNCHANGED <<keys, pw, enrolling>>
  BY <1>2, Zenon DEF ResolveStep, ResolveExisting, ResolveLink, ApplyAutoProvision, ApplyInviteProvision,
     AttachInviteIdentity, Resolved, Provision
<1>3. ASSUME NEW f, FlowStep(f)
      PROVE  UNCHANGED <<keys, pw, enrolling>>
  BY <1>3, Zenon DEF FlowStep, FederationLogin, BeginPublic, IdentitiesLinkBegin, BeginLink, EnrollmentStartFederation,
     BeginInvite, Begin, PrepareFlow, FederationCallback, VerifyFlow, FlowLoad, LeaseLost, ConfirmDecline, FederationConfirm
<1>4. ASSUME NEW p, FlowPrepared(p) \/ FlowConsume(p) \/ FlowFails(p) \/ FederationCompletes(p) \/ FederationSignsIn(p)
                    \/ \E ok : LinkConfirm(p, ok)
      PROVE  UNCHANGED <<keys, pw, enrolling>>
  BY <1>4, Zenon DEF FlowPrepared, FlowConsume, FlowFails, FederationCompletes, FederationSignsIn, LinkConfirm
<1>5. ASSUME NEW s, NEW i, ProviderStep(s, i)
      PROVE  UNCHANGED <<keys, pw, enrolling>>
  BY <1>5, Zenon DEF ProviderStep, CreateIdentityProvider, UpdateIdentityProvider, SetIdentityProviderDisabled,
     DeleteIdentityProvider
<1> QED  BY <1>1, <1>2, <1>3, <1>4, <1>5, Zenon DEF FederationNext

-----------------------------------------------------------------------------
(* Administration                                                            *)

AdminAt == AdminPcs \cup {"idle"}

LEMMA AdminLabels ==
    "idle" \in AdminAt /\ "disWrite" \in AdminAt /\ "delCheck" \in AdminAt /\ "revokeAll" \in AdminAt
BY DEF AdminAt, AdminPcs

LEMMA AdminHolds ==
    ASSUME NEW l \in AdminPcs, NEW v, v.a \in Accounts
    PROVE  Holder(l, v)
BY DEF Holder, AdminPcs, InFlow, Coding

\* The sessions are revoked by the request that goes on.
LEMMA RevokeAllSteps ==
    ASSUME NEW p, pc[p] \in AdminAt, NEW a \in Accounts, RevokeAllNext(p, a)
    PROVE  Step(p, AdminAt)
<1> DEFINE l == [op |-> "revokeAll", a |-> a]
<1>1. l.a = a /\ Set(p, l) /\ Goto(p, "revokeAll") /\ "revokeAll" \in AdminPcs  BY DEF RevokeAllNext, AdminPcs
<1> HIDE DEF l
<1>2. Holder("revokeAll", l)  BY <1>1, AdminHolds, Zenon
<1> QED  BY <1>1, <1>2, SetSteps, AdminLabels, Zenon

LEMMA AdminMoves ==
    ASSUME HeldOK, AccountAdminNext
    PROVE  Moves(AdminAt)
<1>1. ASSUME NEW p \in Procs, NEW s, NEW a \in Accounts, NEW admin, NEW dis, UpdateAccount(p, s, a, admin, dis)
      PROVE  Step(p, AdminAt) \/ UNCHANGED <<pc, loc>>
  <2>1. pc[p] = "idle" /\ (RevokeAllNext(p, a) \/ UNCHANGED <<pc, loc>>)
    BY <1>1, Zenon DEF UpdateAccount, Idle, frame
  <2> QED  BY <2>1, RevokeAllSteps, AdminLabels
<1>2. ASSUME NEW p \in Procs, NEW s, NEW a \in Accounts, NEW dis, SetDisabledRead(p, s, a, dis)
      PROVE  Step(p, AdminAt)
  <2> DEFINE l == [op |-> "disable", a |-> a, dis |-> dis, was |-> acct[a].dis, admin |-> acct[a].admin]
  <2>1. l.a = a /\ "disWrite" \in AdminPcs  BY DEF AdminPcs
  <2>2. pc[p] = "idle" /\ Set(p, l) /\ Goto(p, "disWrite")  BY <1>2, Zenon DEF SetDisabledRead, Idle
  <2> HIDE DEF l
  <2>3. Holder("disWrite", l)  BY <2>1, AdminHolds, Zenon
  <2> QED  BY <2>2, <2>3, SetSteps, AdminLabels, Zenon
<1>3. ASSUME NEW p \in Procs, NEW s, NEW a \in Accounts, DeleteAccountRead(p, s, a)
      PROVE  Step(p, AdminAt)
  <2> DEFINE l == [op |-> "delete", a |-> a]
  <2>1. l.a = a /\ "delCheck" \in AdminPcs  BY DEF AdminPcs
  <2>2. pc[p] = "idle" /\ Set(p, l) /\ Goto(p, "delCheck")  BY <1>3, Zenon DEF DeleteAccountRead, Idle
  <2> HIDE DEF l
  <2>3. Holder("delCheck", l)  BY <2>1, AdminHolds, Zenon
  <2> QED  BY <2>2, <2>3, SetSteps, AdminLabels, Zenon
<1>4. ASSUME NEW p \in Procs, SetDisabledWrite(p) \/ DeleteAccount(p)
      PROVE  Step(p, AdminAt)
  <2>1. pc[p] \in {"disWrite", "delCheck"} /\ (RevokeAllNext(p, loc[p].a) \/ Finish(p))
    BY <1>4, Zenon DEF SetDisabledWrite, DeleteAccount
  <2>2. loc[p].a \in Accounts  BY <2>1 DEF HeldOK, FrameOK, Holder, Acting
  <2> QED  BY <2>1, <2>2, RevokeAllSteps, FinishSteps, AdminLabels
<1>5. ASSUME NEW p \in Procs, RevokeAll(p) \/ RevokeAllFails(p)
      PROVE  Step(p, AdminAt)
  BY <1>5, FinishSteps, AdminLabels, Zenon DEF RevokeAll, RevokeAllFails
<1>6. ASSUME NEW s,
             \/ \E k : DeleteAccountCredential(s, k)
             \/ \E a : RevokeAccountSessions(s, a)
             \/ \E t : RevokeAccountSession(s, t)
             \/ MaintenanceShows
      PROVE  UNCHANGED <<pc, loc>>
  BY <1>6, Zenon DEF DeleteAccountCredential, RevokeAccountSessions, RevokeAccountSession, MaintenanceShows, frame
<1>7. ASSUME NEW p \in Procs, Step(p, AdminAt)  PROVE Moves(AdminAt)  BY <1>7, StepMoves DEF HeldOK
<1>8. ASSUME UNCHANGED <<pc, loc>>  PROVE Moves(AdminAt)  BY <1>8, QuietMoves DEF HeldOK
<1> QED  BY <1>1, <1>2, <1>3, <1>4, <1>5, <1>6, <1>7, <1>8, Zenon DEF AccountAdminNext, AdminStep

\* What administration does, apart from the accounts.
AdminEffect ==
    /\ UNCHANGED <<clock, partial, enrolling, flow, grants, unbound>> /\ links' \subseteq links
    /\ SessionsMove /\ KeysMove /\ PasswordsMove /\ InvitesMove /\ MailMove

LEMMA AdminEffects ==
    ASSUME HeldOK, AccountAdminNext
    PROVE  AdminEffect
<1> USE DEF tables, factors, federated, upper, emailVars, codeVars, enrollVars, enrollHistory
<1>1. UNCHANGED <<partial, retired, revived, flow, grants>>
  BY Zenon DEF AccountAdminNext, signInVars, stashes, signInHistory, fedVars
<1> DEFINE Rest == UNCHANGED <<clock, keys, pw, links, inv, enrolling, unbound, mail, nextMail, prim>>
<1>2. ASSUME Rest, SessionsMove  PROVE AdminEffect
  BY <1>1, <1>2, Zenon DEF AdminEffect, KeysMove, PasswordsMove, InvitesMove, MailMove
<1>3. ASSUME NEW p, NEW s, AdminStep(p, s)
      PROVE  Rest /\ SessionsMove
  BY <1>3, Zenon DEF AdminStep, UpdateAccount, SetDisabledRead, DeleteAccountRead, SessionsMove
<1>4. ASSUME NEW p, SetDisabledWrite(p) \/ RevokeAll(p) \/ RevokeAllFails(p)
      PROVE  Rest /\ SessionsMove
  BY <1>4, Zenon DEF SetDisabledWrite, RevokeAll, RevokeAllFails, SessionsMove
<1>5. ASSUME NEW s, \/ \E a : RevokeAccountSessions(s, a)
                    \/ \E t : RevokeAccountSession(s, t)
                    \/ MaintenanceShows
      PROVE  Rest /\ SessionsMove
  BY <1>5, Zenon DEF RevokeAccountSessions, RevokeAccountSession, MaintenanceShows, SessionsMove
<1>6. ASSUME NEW s, NEW k \in Creds, DeleteAccountCredential(s, k)
      PROVE  AdminEffect
  <2>1. KeysMove  BY <1>6, Zenon DEF DeleteAccountCredential, KeysMove
  <2>2. UNCHANGED <<clock, sess, pw, links, inv, enrolling, unbound, mail, nextMail, prim>>
    BY <1>6, Zenon DEF DeleteAccountCredential
  <2> QED  BY <1>1, <2>1, <2>2, Zenon DEF AdminEffect, SessionsMove, PasswordsMove, InvitesMove, MailMove
<1>7. ASSUME NEW p \in Procs, DeleteAccount(p)
      PROVE  AdminEffect
  <2> DEFINE a == loc[p].a
  <2>1. UNCHANGED <<clock, sess, enrolling, unbound>>  BY <1>7, Zenon DEF DeleteAccount
  <2>2. SessionsMove  BY <2>1, Zenon DEF SessionsMove
  <2>3. CASE UNCHANGED <<pw, links, keys, mail, nextMail, prim, inv>>
    <3>1. Rest  BY <2>1, <2>3
    <3> QED  BY <1>2, <2>2, <3>1
  <2>4. CASE Cascade(a) /\ UNCHANGED nextMail
    <3>1. a \in Accounts  BY <1>7 DEF DeleteAccount, HeldOK, FrameOK, Holder, Acting
    <3>2. KeysMove
      <4>1. keys' = [k \in Creds |-> IF keys[k].a = a THEN NoKey ELSE keys[k]]  BY <2>4, Zenon DEF Cascade
      <4> QED  BY <4>1 DEF KeysMove
    <3>3. PasswordsMove  BY <1>1, <2>4, Zenon DEF Cascade, PasswordsMove
    <3>4. MailMove
      <4>1. MailGone(a)  BY <2>4, Zenon DEF Cascade, MailGone
      <4> QED  BY <3>1, <4>1, Zenon DEF MailMove
    <3>5. InvitesMove
      <4> DEFINE gone == [NoInvite EXCEPT !.st = "gone"]
      <4>1. inv' = [t \in Invites |-> IF inv[t].a = a THEN gone ELSE inv[t]]  BY <2>4, Zenon DEF Cascade
      <4>2. DOMAIN inv' = Invites  BY <4>1
      <4> HIDE DEF gone
      <4>3. ASSUME NEW t \in Invites  PROVE inv'[t] \in {inv[t], gone}  BY <4>1
      <4> QED  BY <4>2, <4>3, Zenon DEF InvitesMove, gone
    <3>6. links' \subseteq links  BY <2>4 DEF Cascade
    <3> QED  BY <1>1, <2>1, <2>2, <3>2, <3>3, <3>4, <3>5, <3>6, Zenon DEF AdminEffect
  <2>5. UNCHANGED <<pw, links, keys, mail, nextMail, prim, inv>> \/ (Cascade(a) /\ UNCHANGED nextMail)
    BY <1>7, Zenon DEF DeleteAccount
  <2> QED  BY <2>3, <2>4, <2>5
<1> HIDE DEF Rest
<1> QED  BY <1>2, <1>3, <1>4, <1>5, <1>6, <1>7, Zenon DEF AccountAdminNext

-----------------------------------------------------------------------------
(* Every step                                                                *)

\* What any step does, whoever takes it.
StepEffect ==
    /\ clock' \in Nat /\ FrameOK'
    /\ SessionsMove /\ KeysMove /\ PartialMove /\ PasswordsMove /\ LinksMove /\ InvitesMove /\ MailMove
    /\ UNCHANGED unbound /\ ProposalsOK' /\ FlowsOK' /\ GrantsOK'

\* What the steps leave alone that do not administer accounts: the accounts there are,
\* and the requests that do.
Aside ==
    /\ AccountsMove /\ UNCHANGED raced
    /\ \A q \in Procs : \/ pc'[q] = pc[q] /\ loc'[q] = loc[q]
                        \/ pc[q] # "revokeAll" /\ pc'[q] \notin AdminPcs

LEMMA MovesAside ==
    ASSUME NEW L, Moves(L), L \cap AdminPcs = {}, AccountsMove, UNCHANGED raced
    PROVE  Aside
BY DEF Moves, Aside, AdminPcs

LEMMA LabelsApart ==
    /\ SignInAt \cap AdminPcs = {} /\ EmailAt \cap AdminPcs = {}
    /\ EnrollAt \cap AdminPcs = {} /\ FederationAt \cap AdminPcs = {}
BY DEF SignInAt, EmailAt, EnrollAt, FederationAt, SignInPcs, EmailPcs, EnrollPcs, FedPcs, AdminPcs

LEMMA ProposalsSame ==
    ASSUME HeldOK, UNCHANGED enrolling
    PROVE  ProposalsOK'
<1>1. ProposalsOK  BY DEF HeldOK, HoldersOK
<1> QED  BY <1>1 DEF ProposalsOK

\* A step that leaves all tables alone.
LEMMA QuietTables ==
    ASSUME HeldOK, UNCHANGED <<sess, keys, partial, pw, retired, revived, links, inv, enrolling, unbound,
                               mail, nextMail, prim, flow, grants>>
    PROVE  /\ SessionsMove /\ KeysMove /\ PartialMove /\ PasswordsMove /\ LinksMove /\ InvitesMove /\ MailMove
           /\ UNCHANGED unbound /\ ProposalsOK' /\ FlowsOK' /\ GrantsOK'
<1>1. LinksMove  BY DEF LinksMove
<1> QED  BY <1>1, ProposalsSame, FlowsSame, Zenon
         DEF SessionsMove, KeysMove, PartialMove, PasswordsMove, InvitesMove, MailMove

LEMMA StepEffects ==
    ASSUME HeldOK, LinksOK, InvitesOK, MailOK, [Next]_vars
    PROVE  StepEffect /\ (Aside \/ AccountAdminNext)
<1> USE DEF tables, factors, federated, stashes, signInHistory, signInVars, frame, directory, emailVars, enrollVars,
            enrollHistory, fedVars
<1>1. FrameOK /\ clock \in Nat  BY DEF HeldOK, HoldersOK
<1>2. AccountsMove \/ ~UNCHANGED acct  BY Zenon DEF AccountsMove
<1>3. CASE SignInNext /\ UNCHANGED <<emailVars, enrollVars, fedVars, raced>>
  <2>1. SignInEffect  BY <1>3, SignInEffects
  <2>2. Moves(SignInAt)  BY <1>3, SignInMoves
  <2>3. LinksMove  BY <2>1 DEF SignInEffect, LinksMove
  <2>4. FrameOK'  BY <1>1, <2>2, MovesFrame
  <2>5. StepEffect
    BY <1>1, <1>3, <2>1, <2>3, <2>4, ProposalsSame, FlowsSame, Zenon DEF SignInEffect, StepEffect, InvitesMove, MailMove
  <2>6. Aside  BY <1>2, <1>3, <2>1, <2>2, MovesAside, LabelsApart, Zenon DEF SignInEffect
  <2> QED  BY <2>5, <2>6
<1>4. CASE EmailNext /\ UNCHANGED <<enrollVars, fedVars, raced>>
  <2>1. MailMove /\ UNCHANGED tables  BY <1>4, EmailEffects
  <2>2. Moves(EmailAt)  BY <1>4, EmailMoves
  <2>3. LinksMove  BY <2>1 DEF LinksMove
  <2>4. FrameOK'  BY <1>1, <2>2, MovesFrame
  <2>5. UNCHANGED signInVars  BY <1>4, Zenon DEF EmailNext
  <2>6. StepEffect
    BY <1>1, <1>4, <2>1, <2>3, <2>4, <2>5, ProposalsSame, FlowsSame, Zenon
       DEF StepEffect, SessionsMove, KeysMove, PartialMove, PasswordsMove, InvitesMove
  <2>7. Aside  BY <1>2, <1>4, <2>1, <2>2, MovesAside, LabelsApart, Zenon
  <2> QED  BY <2>6, <2>7
<1>5. CASE EnrollNext /\ UNCHANGED <<fedVars, raced>>
  <2>1. EnrollEffect  BY <1>5, EnrollEffects
  <2>2. Moves(EnrollAt)  BY <1>5, EnrollMoves
  <2>3. MailMove /\ PartialMove  BY <1>5, <2>1, Zenon DEF EnrollNext, EnrollEffect, MailMove, PartialMove
  <2>4. FrameOK'  BY <1>1, <2>2, MovesFrame
  <2>5. StepEffect  BY <1>1, <1>5, <2>1, <2>3, <2>4, FlowsSame, Zenon DEF EnrollEffect, StepEffect
  <2>6. Aside  BY <1>5, <2>1, <2>2, MovesAside, LabelsApart, Zenon DEF EnrollEffect
  <2> QED  BY <2>5, <2>6
<1>6. CASE FederationNext /\ UNCHANGED raced
  <2>1. FederationEffect  BY <1>6, FederationEffects
  <2>2. Moves(FederationAt)  BY <1>6, FederationMoves
  <2>3. UNCHANGED <<keys, partial, pw, retired, revived, enrolling>>  BY <1>6, FederationKeeps
  <2>4. FrameOK'  BY <1>1, <2>2, MovesFrame
  <2>5. StepEffect
    BY <1>1, <2>1, <2>3, <2>4, ProposalsSame, Zenon DEF FederationEffect, StepEffect, KeysMove, PartialMove, PasswordsMove
  <2>6. Aside  BY <1>6, <2>1, <2>2, MovesAside, LabelsApart, Zenon DEF FederationEffect
  <2> QED  BY <2>5, <2>6
<1>7. CASE AccountAdminNext
  <2>1. AdminEffect  BY <1>7, AdminEffects
  <2>2. Moves(AdminAt)  BY <1>7, AdminMoves
  <2>3. LinksMove  BY <2>1 DEF AdminEffect, LinksMove
  <2>4. FrameOK'  BY <1>1, <2>2, MovesFrame
  <2>5. StepEffect
    BY <1>1, <2>1, <2>3, <2>4, ProposalsSame, FlowsSame, Zenon DEF AdminEffect, StepEffect, PartialMove
  <2> QED  BY <1>7, <2>5
<1>8. ASSUME NEW p \in Procs, Abort(p)
      PROVE  StepEffect /\ Aside
  <2>1. UNCHANGED <<tables, signInVars, emailVars, enrollVars, flow, grants, raced>> /\ Finish(p) /\ pc[p] # "revokeAll"
    BY <1>8, Zenon DEF Abort
  <2> DEFINE L == {pc[p], "idle"}
  <2>2. pc[p] \in L /\ "idle" \in L  OBVIOUS
  <2> HIDE DEF L
  <2>3. Moves(L)  BY <1>1, <2>1, <2>2, FinishSteps, StepMoves
  <2>4. FrameOK'  BY <1>1, <2>3, MovesFrame
  <2>5. StepEffect  BY <1>1, <2>1, <2>4, QuietTables, Zenon DEF StepEffect
  <2>6. \A q \in Procs : (pc'[q] = pc[q] /\ loc'[q] = loc[q]) \/ (pc[q] # "revokeAll" /\ pc'[q] \notin AdminPcs)
    BY <1>1, <2>1 DEF Finish, Goto, Set, FrameOK, AdminPcs
  <2>7. Aside  BY <1>2, <2>1, <2>6, Zenon DEF Aside
  <2> QED  BY <2>5, <2>7
<1>9. ASSUME UNCHANGED <<acct, sess, factors, federated, frame, signInVars, emailVars, enrollVars, fedVars, raced>>,
             clock' \in Nat
      PROVE  StepEffect /\ Aside
  <2>1. FrameOK'  BY <1>1, <1>9 DEF FrameOK
  <2>2. StepEffect  BY <1>9, <2>1, QuietTables, Zenon DEF StepEffect
  <2>3. Aside  BY <1>2, <1>9, Zenon DEF Aside
  <2> QED  BY <2>2, <2>3
<1>10. CASE Tick
  <2>1. clock' \in Nat  BY <1>1, <1>10 DEF Tick
  <2> QED  BY <1>9, <1>10, <2>1, Zenon DEF Tick
<1>11. CASE UNCHANGED vars
  <2>1. clock' \in Nat  BY <1>1, <1>11, Zenon DEF vars
  <2> QED  BY <1>9, <1>11, <2>1, Zenon DEF vars
<1> QED  BY <1>3, <1>4, <1>5, <1>6, <1>7, <1>8, <1>10, <1>11, Zenon DEF Next

\* What is told of the tables keeps what they hold.
LEMMA StepKeeps ==
    ASSUME FrameOK, SessionsOK, HoldersOK, LinksOK, InvitesOK, MailOK, PasswordsOK,
           PrimaryFollows, OnlyRehashRevives, OneBinding, StepEffect
    PROVE  /\ FrameOK' /\ SessionsOK' /\ HoldersOK' /\ LinksOK' /\ InvitesOK' /\ MailOK' /\ PasswordsOK'
           /\ PrimaryFollows' /\ OnlyRehashRevives' /\ OneBinding'
           /\ \A s \in Sids : SessionKept(s) \/ SessionIssued(s)
<1>1. KeysOK /\ PartialOK  BY DEF HoldersOK
<1>2. /\ clock' \in Nat /\ FrameOK'
      /\ SessionsMove /\ KeysMove /\ PartialMove /\ PasswordsMove /\ LinksMove /\ InvitesMove /\ MailMove
      /\ ProposalsOK' /\ FlowsOK' /\ GrantsOK'
  BY Zenon DEF StepEffect
<1>3. KeysOK' /\ PartialOK'  BY <1>1, <1>2, KeysMoved, PartialMoved
<1>4. HoldersOK'  BY <1>2, <1>3, Zenon DEF HoldersOK
<1>5. LinksOK' /\ OneBinding'  BY <1>2, LinksMoved, BindingsMoved
<1>6. PasswordsOK' /\ OnlyRehashRevives'  BY <1>2, PasswordsMoved
<1>7. MailOK' /\ PrimaryFollows'  BY <1>2, MailMoved
<1>8. InvitesOK'  BY <1>2, InvitesMoved
<1> QED  BY <1>2, <1>4, <1>5, <1>6, <1>7, <1>8, SessionsMoved

-----------------------------------------------------------------------------
(* The accounts                                                              *)

\* What a step that does not administer accounts leaves of one.
LEMMA AsideAccounts ==
    ASSUME AccountsOK, Aside
    PROVE  /\ AccountsOK'
           /\ \A a \in Accounts : \/ acct'[a] = acct[a]
                                  \/ ~acct[a].on /\ Enabled(a)'
<1>1. ASSUME NEW a \in Accounts, NEW admin \in BOOLEAN, ~acct[a].on, InsertAccount(a, admin)
      PROVE  /\ acct' \in [Accounts -> AccountRows]
             /\ \A b \in Accounts : acct'[b] = acct[b] \/ (~acct[b].on /\ acct'[b].on /\ ~acct'[b].dis)
  <2> DEFINE row == [NoAccount EXCEPT !.on = TRUE, !.admin = admin]
  <2>1. row \in AccountRows /\ row.on /\ ~row.dis
    BY DEF NoAccount, AccountRows
  <2> HIDE DEF row
  <2>2. acct' = [acct EXCEPT ![a] = row]  BY <1>1 DEF InsertAccount, row
  <2>3. acct'[a] = row /\ \A b \in Accounts \ {a} : acct'[b] = acct[b]  BY <2>2 DEF AccountsOK
  <2> QED  BY <1>1, <2>1, <2>2, <2>3 DEF AccountsOK
<1>2. /\ acct' \in [Accounts -> AccountRows]
      /\ \A b \in Accounts : acct'[b] = acct[b] \/ (~acct[b].on /\ acct'[b].on /\ ~acct'[b].dis)
  <2>1. CASE UNCHANGED acct  BY <2>1 DEF AccountsOK
  <2> QED  BY <1>1, <2>1, Zenon DEF Aside, AccountsMove
<1>3. ASSUME NEW p \in Procs, pc'[p] = "disWrite"
      PROVE  loc'[p].dis \in BOOLEAN /\ loc'[p].was \in BOOLEAN /\ loc'[p].admin \in BOOLEAN
             /\ ~(loc'[p].dis /\ loc'[p].admin)
  <2>1. pc[p] = "disWrite" /\ loc'[p] = loc[p]  BY <1>3 DEF Aside, AdminPcs
  <2> QED  BY <2>1 DEF AccountsOK
<1>4. \A a \in Accounts : acct'[a] = acct[a] \/ (~acct[a].on /\ Enabled(a)')
  BY <1>2 DEF Enabled
<1>5. AccountsOK'  BY <1>2, <1>3, Zenon DEF AccountsOK
<1> QED  BY <1>4, <1>5

\* The row of a that is written, and the others.
LEMMA RowWritten ==
    ASSUME AccountsOK, NEW a \in Accounts, NEW row \in AccountRows, acct' = [acct EXCEPT ![a] = row]
    PROVE  acct' \in [Accounts -> AccountRows] /\ acct'[a] = row /\ \A b \in Accounts \ {a} : acct'[b] = acct[b]
BY DEF AccountsOK, AccountRows

LEMMA RowUpdated ==
    ASSUME AccountsOK, NEW a \in Accounts, NEW admin \in BOOLEAN, NEW dis \in BOOLEAN,
           acct' = [acct EXCEPT ![a].admin = admin, ![a].dis = dis]
    PROVE  /\ acct' \in [Accounts -> AccountRows] /\ \A b \in Accounts \ {a} : acct'[b] = acct[b]
           /\ acct'[a].on = acct[a].on /\ acct'[a].admin = admin /\ acct'[a].dis = dis
<1> DEFINE row == [acct[a] EXCEPT !.admin = admin, !.dis = dis]
<1>1. row \in AccountRows /\ row.on = acct[a].on /\ row.admin = admin /\ row.dis = dis  BY DEF AccountsOK, AccountRows
<1>2. acct' = [acct EXCEPT ![a] = row]  BY DEF AccountsOK
<1> HIDE DEF row
<1> QED  BY <1>1, <1>2, RowWritten

LEMMA RowFlagged ==
    ASSUME AccountsOK, NEW a \in Accounts, NEW dis \in BOOLEAN, acct' = [acct EXCEPT ![a].dis = dis]
    PROVE  /\ acct' \in [Accounts -> AccountRows] /\ \A b \in Accounts \ {a} : acct'[b] = acct[b]
           /\ acct'[a].on = acct[a].on /\ acct'[a].admin = acct[a].admin /\ acct'[a].dis = dis
<1> DEFINE row == [acct[a] EXCEPT !.dis = dis]
<1>1. row \in AccountRows /\ row.on = acct[a].on /\ row.admin = acct[a].admin /\ row.dis = dis
  BY DEF AccountsOK, AccountRows
<1>2. acct' = [acct EXCEPT ![a] = row]  BY DEF AccountsOK
<1> HIDE DEF row
<1> QED  BY <1>1, <1>2, RowWritten

LEMMA RowDeleted ==
    ASSUME AccountsOK, NEW a \in Accounts, acct' = [acct EXCEPT ![a] = [NoAccount EXCEPT !.gone = TRUE]]
    PROVE  /\ acct' \in [Accounts -> AccountRows] /\ \A b \in Accounts \ {a} : acct'[b] = acct[b]
           /\ ~acct'[a].on /\ ~acct'[a].admin
<1> DEFINE row == [NoAccount EXCEPT !.gone = TRUE]
<1>1. row \in AccountRows /\ ~row.on /\ ~row.admin  BY DEF NoAccount, AccountRows
<1> HIDE DEF row
<1> QED  BY <1>1, RowWritten DEF row

\* An admin who is disabled was promoted while it was under way.
RacedOK == \A a \in Accounts : acct[a].admin /\ acct[a].dis => a \in raced

\* The request p moves to l with v, the others stay.
Only(p, l, v) ==
    /\ pc'[p] = l /\ loc'[p] = v
    /\ \A q \in Procs \ {p} : pc'[q] = pc[q] /\ loc'[q] = loc[q]

LEMMA Moved ==
    ASSUME FrameOK, NEW p \in Procs, NEW l, NEW v, Goto(p, l), Set(p, v)
    PROVE  Only(p, l, v)
BY DEF FrameOK, Goto, Set, Only

\* The labels that the writes of accounts depend on are those of administration.
LEMMA AdminTyped ==
    ASSUME FrameOK, AccountsOK, RacedOK, AccountAdminNext, \A p \in Procs : pc[p] \in AdminPcs => loc[p].a \in Accounts
    PROVE  AccountsOK' /\ RacedOK'
<1> DEFINE Rows == [Accounts -> AccountRows]
           Asks(l, v) == l = "disWrite" =>
                           v.dis \in BOOLEAN /\ v.was \in BOOLEAN /\ v.admin \in BOOLEAN /\ ~(v.dis /\ v.admin)
           Kept(p) == \A q \in Procs \ {p} : pc'[q] = pc[q] /\ loc'[q] = loc[q]
<1>1. acct \in Rows /\ \A q \in Procs : Asks(pc[q], loc[q])  BY DEF AccountsOK
<1>2. ASSUME NEW p \in Procs, Kept(p), Asks(pc'[p], loc'[p]), acct' \in Rows
      PROVE  AccountsOK'
  <2>1. \A q \in Procs : Asks(pc'[q], loc'[q])  BY <1>1, <1>2
  <2> QED  BY <1>2, <2>1 DEF AccountsOK
<1>3. ASSUME UNCHANGED <<pc, loc, acct>>  PROVE AccountsOK'  BY <1>3 DEF AccountsOK
<1>4. ASSUME UNCHANGED <<acct, raced>>  PROVE RacedOK'  BY <1>4 DEF RacedOK
<1>5. ASSUME NEW p \in Procs, NEW l, l # "disWrite", NEW v, Goto(p, l), Set(p, v)
      PROVE  Kept(p) /\ Asks(pc'[p], loc'[p])
  BY <1>5, Moved DEF Only
<1>6. ASSUME NEW p \in Procs, NEW a, RevokeAllNext(p, a) \/ Finish(p)
      PROVE  Kept(p) /\ Asks(pc'[p], loc'[p])
  <2> HIDE DEF Kept, Asks
  <2> QED  BY <1>5, <1>6, Zenon DEF RevokeAllNext, Finish
<1>7. ASSUME NEW p \in Procs, NEW s, NEW a \in Accounts, NEW admin \in BOOLEAN, NEW dis \in BOOLEAN,
             UpdateAccount(p, s, a, admin, dis)
      PROVE  AccountsOK' /\ RacedOK'
  <2>1. acct' = [acct EXCEPT ![a].admin = admin, ![a].dis = dis] /\ ~(admin /\ dis) /\ raced' = raced
    BY <1>7, Zenon DEF UpdateAccount
  <2>2. acct' \in Rows /\ acct'[a].admin = admin /\ acct'[a].dis = dis /\ \A b \in Accounts \ {a} : acct'[b] = acct[b]
    BY <2>1, RowUpdated
  <2>3. RevokeAllNext(p, a) \/ UNCHANGED frame  BY <1>7, Zenon DEF UpdateAccount
  <2>4. CASE RevokeAllNext(p, a)
    <3>1. AccountsOK'  BY <1>2, <1>6, <2>2, <2>4
    <3> QED  BY <2>1, <2>2, <3>1 DEF RacedOK
  <2>5. CASE UNCHANGED frame
    <3>1. AccountsOK'  BY <1>1, <2>2, <2>5 DEF AccountsOK, frame
    <3> QED  BY <2>1, <2>2, <3>1 DEF RacedOK
  <2> QED  BY <2>3, <2>4, <2>5
<1>8. ASSUME NEW p \in Procs, NEW s, NEW a \in Accounts, NEW dis \in BOOLEAN, SetDisabledRead(p, s, a, dis)
      PROVE  AccountsOK' /\ RacedOK'
  <2> DEFINE l == [op |-> "disable", a |-> a, dis |-> dis, was |-> acct[a].dis, admin |-> acct[a].admin]
  <2>1. Set(p, l) /\ Goto(p, "disWrite") /\ ~(dis /\ acct[a].admin) /\ UNCHANGED <<acct, raced>>
    BY <1>8, Zenon DEF SetDisabledRead, tables
  <2>2. acct[a].dis \in BOOLEAN /\ acct[a].admin \in BOOLEAN  BY DEF AccountsOK, AccountRows
  <2>3. l.dis \in BOOLEAN /\ l.was \in BOOLEAN /\ l.admin \in BOOLEAN /\ ~(l.dis /\ l.admin)  BY <2>1, <2>2
  <2> HIDE DEF l
  <2>4. Kept(p) /\ Asks(pc'[p], loc'[p])  BY <2>1, <2>3, Moved DEF Only
  <2> QED  BY <1>1, <1>2, <1>4, <2>1, <2>4
<1>9. ASSUME NEW p \in Procs, SetDisabledWrite(p)
      PROVE  AccountsOK' /\ RacedOK'
  <2> DEFINE a == loc[p].a
             dis == loc[p].dis
  <2>1. /\ pc[p] = "disWrite"
        /\ acct' = IF acct[a].on THEN [acct EXCEPT ![a].dis = dis] ELSE acct
        /\ raced' = IF acct[a].admin # loc[p].admin THEN raced \cup {a} ELSE raced
        /\ RevokeAllNext(p, a) \/ Finish(p)
    BY <1>9, Zenon DEF SetDisabledWrite
  <2>2. a \in Accounts  BY <2>1 DEF AdminPcs
  <2>3. dis \in BOOLEAN /\ loc[p].admin \in BOOLEAN /\ ~(dis /\ loc[p].admin)  BY <2>1 DEF AccountsOK
  <2>4. \/ acct' = acct
        \/ /\ acct' \in Rows /\ acct'[a].admin = acct[a].admin /\ acct'[a].dis = dis
           /\ \A b \in Accounts \ {a} : acct'[b] = acct[b]
    BY <2>1, <2>2, <2>3, RowFlagged
  <2>5. AccountsOK'  BY <1>1, <1>2, <1>6, <2>1, <2>4
  <2>6. RacedOK'  BY <2>1, <2>2, <2>3, <2>4 DEF RacedOK
  <2> QED  BY <2>5, <2>6
<1>10. ASSUME NEW p \in Procs, RevokeAll(p) \/ RevokeAllFails(p)
       PROVE  AccountsOK' /\ RacedOK'
  <2>1. Finish(p) /\ UNCHANGED <<acct, raced>>  BY <1>10, Zenon DEF RevokeAll, RevokeAllFails
  <2> QED  BY <1>1, <1>2, <1>4, <1>6, <2>1
<1>11. ASSUME NEW p \in Procs, NEW s, NEW a \in Accounts, DeleteAccountRead(p, s, a)
       PROVE  AccountsOK' /\ RacedOK'
  <2>1. Set(p, [op |-> "delete", a |-> a]) /\ Goto(p, "delCheck") /\ UNCHANGED <<acct, raced>>
    BY <1>11, Zenon DEF DeleteAccountRead, tables
  <2>2. Kept(p) /\ Asks(pc'[p], loc'[p])  BY <1>5, <2>1
  <2> QED  BY <1>1, <1>2, <1>4, <2>1, <2>2
<1>12. ASSUME NEW p \in Procs, DeleteAccount(p)
       PROVE  AccountsOK' /\ RacedOK'
  <2> DEFINE a == loc[p].a
  <2>1. /\ pc[p] = "delCheck" /\ RevokeAllNext(p, a) /\ raced' = raced
        /\ acct' = acct \/ acct' = [acct EXCEPT ![a] = [NoAccount EXCEPT !.gone = TRUE]]
    BY <1>12, Zenon DEF DeleteAccount, Cascade
  <2>2. a \in Accounts  BY <2>1 DEF AdminPcs
  <2>3. \/ acct' = acct
        \/ acct' \in Rows /\ ~acct'[a].admin /\ \A b \in Accounts \ {a} : acct'[b] = acct[b]
    BY <2>1, <2>2, RowDeleted
  <2>4. AccountsOK'  BY <1>1, <1>2, <1>6, <2>1, <2>3
  <2>5. RacedOK'  BY <2>1, <2>2, <2>3 DEF RacedOK
  <2> QED  BY <2>4, <2>5
<1>13. ASSUME NEW s,
              \/ \E k : DeleteAccountCredential(s, k)
              \/ \E a : RevokeAccountSessions(s, a)
              \/ \E t : RevokeAccountSession(s, t)
              \/ MaintenanceShows
       PROVE  AccountsOK' /\ RacedOK'
  <2>1. UNCHANGED <<pc, loc, acct, raced>>
    BY <1>13, Zenon DEF DeleteAccountCredential, RevokeAccountSessions, RevokeAccountSession, MaintenanceShows, frame
  <2> QED  BY <1>3, <1>4, <2>1
<1> HIDE DEF Rows, Asks, Kept
<1> QED  BY <1>7, <1>8, <1>9, <1>10, <1>11, <1>12, <1>13, Zenon DEF AccountAdminNext, AdminStep

\* While the admins cannot be counted, no step of administration touches Root's row
\* in a way that takes the instance its admin.
LEMMA AdminRoot ==
    ASSUME ~CountLocks, FrameOK, AccountsOK, RootSafe, AccountAdminNext,
           \A p \in Procs : pc[p] \in AdminPcs => loc[p].a \in Accounts
    PROVE  RootSafe'
<1> DEFINE Safe(l, v) == (l = "disWrite" /\ v.a = Root => ~v.dis) /\ (l = "delCheck" => v.a # Root)
           Kept(p) == \A q \in Procs \ {p} : pc'[q] = pc[q] /\ loc'[q] = loc[q]
           RootStays == acct'[Root].on /\ acct'[Root].admin /\ ~acct'[Root].dis
<1>1. acct[Root].on /\ acct[Root].admin /\ ~acct[Root].dis /\ \A q \in Procs : Safe(pc[q], loc[q])
  BY DEF RootSafe, Enabled
<1>2. ~RemovableAdmin  BY DEF RemovableAdmin
<1>3. Root \in Accounts  BY IdentityAssumption
<1>4. ASSUME NEW p \in Procs, Kept(p), Safe(pc'[p], loc'[p]), RootStays
      PROVE  RootSafe'
  <2>1. \A q \in Procs : Safe(pc'[q], loc'[q])  BY <1>1, <1>4
  <2> QED  BY <1>4, <2>1 DEF RootSafe, Enabled
<1>5. ASSUME UNCHANGED <<pc, loc>>, RootStays  PROVE RootSafe'  BY <1>5 DEF RootSafe, Enabled
<1>6. ASSUME UNCHANGED acct  PROVE RootStays  BY <1>1, <1>6
<1>7. ASSUME NEW p \in Procs, NEW a, RevokeAllNext(p, a) \/ Finish(p)
      PROVE  Kept(p) /\ Safe(pc'[p], loc'[p])
  <2>1. ASSUME NEW l, l \notin {"disWrite", "delCheck"}, NEW v, Goto(p, l), Set(p, v)
        PROVE  Kept(p) /\ Safe(pc'[p], loc'[p])
    BY <2>1, Moved DEF Only
  <2> HIDE DEF Kept, Safe
  <2>2. "revokeAll" \notin {"disWrite", "delCheck"} /\ "idle" \notin {"disWrite", "delCheck"}  OBVIOUS
  <2> QED  BY <1>7, <2>1, <2>2, Zenon DEF RevokeAllNext, Finish
<1>8. ASSUME NEW p \in Procs, NEW s, NEW a \in Accounts, NEW admin \in BOOLEAN, NEW dis \in BOOLEAN,
             UpdateAccount(p, s, a, admin, dis)
      PROVE  RootSafe'
  <2>1. acct' = [acct EXCEPT ![a].admin = admin, ![a].dis = dis]  BY <1>8, Zenon DEF UpdateAccount
  <2>2. /\ acct'[a].on = acct[a].on /\ acct'[a].admin = admin /\ acct'[a].dis = dis
        /\ \A b \in Accounts \ {a} : acct'[b] = acct[b]
    BY <2>1, RowUpdated
  <2>3. ~(acct[a].admin /\ ~acct[a].dis /\ (~admin \/ dis))  BY <1>2, <1>8, Zenon DEF UpdateAccount
  <2>4. RootStays  BY <1>1, <1>3, <2>2, <2>3
  <2>5. RevokeAllNext(p, a) \/ UNCHANGED frame  BY <1>8, Zenon DEF UpdateAccount
  <2> QED  BY <1>4, <1>5, <1>7, <2>4, <2>5 DEF frame
<1>9. ASSUME NEW p \in Procs, NEW s, NEW a \in Accounts, NEW dis \in BOOLEAN, SetDisabledRead(p, s, a, dis)
      PROVE  RootSafe'
  <2> DEFINE l == [op |-> "disable", a |-> a, dis |-> dis, was |-> acct[a].dis, admin |-> acct[a].admin]
  <2>1. Set(p, l) /\ Goto(p, "disWrite") /\ ~(dis /\ acct[a].admin) /\ UNCHANGED acct
    BY <1>9, Zenon DEF SetDisabledRead, tables
  <2>2. l.a = a /\ l.dis = dis  OBVIOUS
  <2> HIDE DEF l
  <2>3. Kept(p) /\ Safe(pc'[p], loc'[p])  BY <1>1, <2>1, <2>2, Moved DEF Only
  <2> QED  BY <1>4, <1>6, <2>1, <2>3
<1>10. ASSUME NEW p \in Procs, SetDisabledWrite(p)
       PROVE  RootSafe'
  <2> DEFINE a == loc[p].a
             dis == loc[p].dis
  <2>1. /\ pc[p] = "disWrite"
        /\ acct' = IF acct[a].on THEN [acct EXCEPT ![a].dis = dis] ELSE acct
        /\ RevokeAllNext(p, a) \/ Finish(p)
    BY <1>10, Zenon DEF SetDisabledWrite
  <2>2. a \in Accounts /\ dis \in BOOLEAN  BY <2>1 DEF AdminPcs, AccountsOK
  <2>3. a = Root => ~dis  BY <1>1, <2>1
  <2>4. \/ acct' = acct
        \/ /\ acct'[a].on = acct[a].on /\ acct'[a].admin = acct[a].admin /\ acct'[a].dis = dis
           /\ \A b \in Accounts \ {a} : acct'[b] = acct[b]
    BY <2>1, <2>2, RowFlagged
  <2>5. RootStays  BY <1>1, <1>3, <2>3, <2>4
  <2> QED  BY <1>4, <1>7, <2>1, <2>5
<1>11. ASSUME NEW p \in Procs, RevokeAll(p) \/ RevokeAllFails(p)
       PROVE  RootSafe'
  <2>1. Finish(p) /\ UNCHANGED acct  BY <1>11, Zenon DEF RevokeAll, RevokeAllFails
  <2> QED  BY <1>4, <1>6, <1>7, <2>1
<1>12. ASSUME NEW p \in Procs, NEW s, NEW a \in Accounts, DeleteAccountRead(p, s, a)
       PROVE  RootSafe'
  <2> DEFINE l == [op |-> "delete", a |-> a]
  <2>1. Set(p, l) /\ Goto(p, "delCheck") /\ ~(acct[a].admin /\ ~acct[a].dis) /\ UNCHANGED acct
    BY <1>2, <1>12, Zenon DEF DeleteAccountRead, tables
  <2>2. l.a = a  OBVIOUS
  <2> HIDE DEF l
  <2>3. Kept(p) /\ Safe(pc'[p], loc'[p])  BY <1>1, <2>1, <2>2, Moved DEF Only
  <2> QED  BY <1>4, <1>6, <2>1, <2>3
<1>13. ASSUME NEW p \in Procs, DeleteAccount(p)
       PROVE  RootSafe'
  <2> DEFINE a == loc[p].a
  <2>1. /\ pc[p] = "delCheck" /\ RevokeAllNext(p, a)
        /\ acct' = acct \/ acct' = [acct EXCEPT ![a] = [NoAccount EXCEPT !.gone = TRUE]]
    BY <1>13, Zenon DEF DeleteAccount, Cascade
  <2>2. a \in Accounts /\ a # Root  BY <1>1, <2>1 DEF AdminPcs
  <2>3. acct' = acct \/ \A b \in Accounts \ {a} : acct'[b] = acct[b]  BY <2>1, <2>2, RowDeleted
  <2>4. RootStays  BY <1>1, <1>3, <2>2, <2>3
  <2> QED  BY <1>4, <1>7, <2>1, <2>4
<1>14. ASSUME NEW s,
              \/ \E k : DeleteAccountCredential(s, k)
              \/ \E a : RevokeAccountSessions(s, a)
              \/ \E t : RevokeAccountSession(s, t)
              \/ MaintenanceShows
       PROVE  RootSafe'
  <2>1. UNCHANGED <<pc, loc, acct>>
    BY <1>14, Zenon DEF DeleteAccountCredential, RevokeAccountSessions, RevokeAccountSession, MaintenanceShows, frame
  <2> QED  BY <1>5, <1>6, <2>1
<1> HIDE DEF Safe, Kept, RootStays
<1> QED  BY <1>8, <1>9, <1>10, <1>11, <1>12, <1>13, <1>14, Zenon DEF AccountAdminNext, AdminStep

LEMMA AsideRoot ==
    ASSUME AccountsOK, RootSafe, Aside
    PROVE  RootSafe'
<1>1. acct'[Root] = acct[Root]  BY AsideAccounts, IdentityAssumption DEF RootSafe, Enabled
<1>2. ASSUME NEW p \in Procs
      PROVE  /\ pc'[p] = "disWrite" /\ loc'[p].a = Root => ~loc'[p].dis
             /\ pc'[p] = "delCheck" => loc'[p].a # Root
  BY DEF RootSafe, Aside, AdminPcs
<1> QED  BY <1>1, <1>2 DEF RootSafe, Enabled

-----------------------------------------------------------------------------
(* The sessions of disabled accounts                                         *)

\* A live session of a disabled account, for which nobody comes.
Excused(s) ==
    sess[s].live /\ ~Enabled(sess[s].a) =>
        sess[s].out \/ \E p \in Procs : pc[p] = "revokeAll" /\ loc[p].a = sess[s].a

LEMMA ExcusedAll == DisabledHoldsNoSession <=> \A s \in Sids : Excused(s)
BY Zenon DEF DisabledHoldsNoSession, Excused

LEMMA AsideExcuses ==
    ASSUME SessionsOK, AccountsOK, Aside, NEW s \in Sids, Excused(s), SessionKept(s) \/ SessionIssued(s)
    PROVE  Excused(s)'
<1> DEFINE a == sess'[s].a
<1>1. SUFFICES ASSUME sess'[s].live, ~(acct'[a].on /\ ~acct'[a].dis)
               PROVE  sess'[s].out \/ \E p \in Procs : pc'[p] = "revokeAll" /\ loc'[p].a = a
  BY DEF Excused, Enabled
<1>2. ASSUME NEW b \in Accounts, ~(acct'[b].on /\ ~acct'[b].dis)  PROVE ~Enabled(b)
  BY <1>2, AsideAccounts DEF Enabled
<1>3. CASE SessionIssued(s)  BY <1>1, <1>2, <1>3 DEF SessionIssued, Enabled
<1>4. CASE SessionKept(s)
  <2>1. sess[s].live /\ sess'[s].a = sess[s].a /\ sess[s].a \in Accounts  BY <1>1, <1>4 DEF SessionKept, SessionsOK
  <2>2. ~Enabled(sess[s].a)  BY <1>1, <1>2, <2>1 DEF Enabled
  <2>3. CASE sess[s].out  BY <1>4, <2>3 DEF SessionKept
  <2>4. ASSUME NEW p \in Procs, pc[p] = "revokeAll", loc[p].a = sess[s].a
        PROVE  pc'[p] = "revokeAll" /\ loc'[p].a = sess'[s].a
    BY <2>1, <2>4 DEF Aside
  <2> QED  BY <2>1, <2>2, <2>3, <2>4 DEF Excused
<1> QED  BY <1>3, <1>4

LEMMA AdminExcuses ==
    ASSUME FrameOK, SessionsOK, AccountsOK, AccountAdminNext, NEW s \in Sids, Excused(s),
           \A p \in Procs : pc[p] \in AdminPcs => loc[p].a \in Accounts
    PROVE  Excused(s)'
<1> DEFINE Coming(a) == \E p \in Procs : pc[p] = "revokeAll" /\ loc[p].a = a
           Came(a) == \E p \in Procs : pc'[p] = "revokeAll" /\ loc'[p].a = a
           Kept(p) == \A q \in Procs \ {p} : pc'[q] = pc[q] /\ loc'[q] = loc[q]
           a == sess[s].a
           Row == sess'[s].a = a /\ (sess'[s].live => sess[s].live) /\ (sess[s].out => sess'[s].out)
           Goal == sess'[s].live /\ ~(acct'[a].on /\ ~acct'[a].dis) => sess'[s].out \/ Came(a)
<1>1. sess[s].live => a \in Accounts  BY DEF SessionsOK
<1>2. sess[s].live /\ ~(acct[a].on /\ ~acct[a].dis) => sess[s].out \/ Coming(a)  BY DEF Excused, Enabled
<1>3. ASSUME Row, Goal  PROVE Excused(s)'  BY <1>3 DEF Excused, Enabled
<1>4. sess' = sess => Row  OBVIOUS
<1>5. ASSUME NEW p \in Procs, NEW b, RevokeAllNext(p, b)
      PROVE  Kept(p) /\ Came(b)
  <2>1. Only(p, "revokeAll", [op |-> "revokeAll", a |-> b])  BY <1>5, Moved DEF RevokeAllNext
  <2> QED  BY <2>1 DEF Only
<1>6. ASSUME NEW p \in Procs, Finish(p)
      PROVE  Kept(p)
  BY <1>6, Moved DEF Finish, Only
<1>7. ASSUME NEW p \in Procs, Kept(p), pc[p] # "revokeAll", Coming(a)  PROVE Came(a)
  BY <1>7
<1>8. ASSUME NEW p \in Procs, Kept(p), pc[p] # "revokeAll", Row,
             sess[s].live => acct'[a] = acct[a]
      PROVE  Goal
  <2> HIDE DEF Coming, Came, Kept
  <2> QED  BY <1>2, <1>7, <1>8
<1>9. ASSUME UNCHANGED <<pc, loc, acct>>, Row  PROVE Goal  BY <1>2, <1>9
<1>10. ASSUME NEW p \in Procs, NEW t, NEW b \in Accounts, NEW admin \in BOOLEAN, NEW dis \in BOOLEAN,
              UpdateAccount(p, t, b, admin, dis)
       PROVE  Excused(s)'
  <2>1. /\ pc[p] = "idle" /\ acct' = [acct EXCEPT ![b].admin = admin, ![b].dis = dis] /\ sess' = sess
        /\ IF ~acct[b].dis /\ dis THEN RevokeAllNext(p, b) ELSE UNCHANGED <<pc, loc>>
    BY <1>10, Zenon DEF UpdateAccount, Idle, frame
  <2>2. /\ acct'[b].on = acct[b].on /\ acct'[b].dis = dis
        /\ \A x \in Accounts \ {b} : acct'[x] = acct[x]
    BY <2>1, RowUpdated
  <2>3. Goal
    <3>1. CASE a # b
      <4>1. sess[s].live => acct'[a] = acct[a]  BY <1>1, <2>2, <3>1
      <4>2. Kept(p)  BY <1>5, <2>1
      <4> QED  BY <1>4, <1>8, <2>1, <4>1, <4>2
    <3>2. CASE a = b /\ ~acct[b].dis /\ dis  BY <1>5, <2>1, <3>2
    <3>3. CASE a = b /\ ~(~acct[b].dis /\ dis)
      <4>1. UNCHANGED <<pc, loc>>  BY <2>1, <3>3
      <4>2. ~(acct'[a].on /\ ~acct'[a].dis) => ~(acct[a].on /\ ~acct[a].dis)  BY <2>2, <3>3
      <4> QED  BY <1>2, <2>1, <4>1, <4>2
    <3> QED  BY <3>1, <3>2, <3>3
  <2> QED  BY <1>3, <1>4, <2>1, <2>3
<1>11. ASSUME NEW p \in Procs, NEW t, NEW b \in Accounts, (\E dis : SetDisabledRead(p, t, b, dis)) \/ DeleteAccountRead(p, t, b)
       PROVE  Excused(s)'
  <2>1. pc[p] = "idle" /\ UNCHANGED <<acct, sess>> /\ \E l, v : Goto(p, l) /\ Set(p, v)
    BY <1>11, Zenon DEF SetDisabledRead, DeleteAccountRead, Idle, tables
  <2>2. Kept(p)  BY <2>1, Moved DEF Only
  <2> QED  BY <1>3, <1>4, <1>8, <2>1, <2>2
<1>12. ASSUME NEW p \in Procs, SetDisabledWrite(p)
       PROVE  Excused(s)'
  <2> DEFINE b == loc[p].a
             dis == loc[p].dis
             was == loc[p].was
  <2>1. /\ pc[p] = "disWrite"
        /\ acct' = IF acct[b].on THEN [acct EXCEPT ![b].dis = dis] ELSE acct
        /\ sess' = IF dis /\ was /\ acct[b].on /\ ~acct[b].dis THEN Outlive(b) ELSE sess
        /\ IF acct[b].on /\ dis /\ ~was THEN RevokeAllNext(p, b) ELSE Finish(p)
    BY <1>12, Zenon DEF SetDisabledWrite, Enabled, Revokes
  <2>2. b \in Accounts /\ dis \in BOOLEAN  BY <2>1 DEF AdminPcs, AccountsOK
  <2>3. /\ acct[b].on => acct'[b].on = acct[b].on /\ acct'[b].dis = dis
        /\ \A x \in Accounts \ {b} : acct'[x] = acct[x]
        /\ ~acct[b].on => acct' = acct
    BY <2>1, <2>2, RowFlagged
  <2>4. Row  BY <2>1 DEF Outlive, SessionsOK, SessionFields
  <2>5. Kept(p)  BY <1>5, <1>6, <2>1
  <2>6. Goal
    <3>1. CASE a # b \/ ~acct[b].on
      <4>1. sess[s].live => acct'[a] = acct[a]  BY <1>1, <2>3, <3>1
      <4> QED  BY <1>8, <2>1, <2>4, <2>5, <4>1
    <3>2. CASE a = b /\ acct[b].on /\ (~dis \/ acct[b].dis)
      <4>1. ~(acct'[a].on /\ ~acct'[a].dis) => ~(acct[a].on /\ ~acct[a].dis)  BY <2>3, <3>2
      <4>2. Coming(a) => Came(a)  BY <1>7, <2>1, <2>5
      <4> HIDE DEF Coming, Came
      <4> QED  BY <1>2, <2>4, <4>1, <4>2
    <3>3. CASE a = b /\ acct[b].on /\ dis /\ ~acct[b].dis /\ ~was  BY <1>5, <2>1, <3>3
    <3>4. CASE a = b /\ acct[b].on /\ dis /\ ~acct[b].dis /\ was
      <4>1. sess' = Outlive(b)  BY <2>1, <3>4
      <4>2. sess'[s].live => sess'[s].out  BY <3>4, <4>1 DEF Outlive, SessionsOK, SessionFields
      <4> QED  BY <4>2
    <3> QED  BY <3>1, <3>2, <3>3, <3>4
  <2> QED  BY <1>3, <2>4, <2>6
<1>13. ASSUME NEW p \in Procs, RevokeAll(p) \/ RevokeAllFails(p)
       PROVE  Excused(s)'
  <2> DEFINE b == loc[p].a
  <2>1. Finish(p) /\ acct' = acct /\ (sess' = RevokedAll(b) \/ sess' = Outlive(b))
    BY <1>13, Zenon DEF RevokeAll, RevokeAllFails
  <2>2. Row  BY <2>1 DEF Outlive, RevokedAll, SessionsOK, SessionFields
  <2>3. Kept(p)  BY <1>6, <2>1
  <2>4. CASE a = b
    <3>1. sess'[s].live => sess'[s].out  BY <2>1, <2>4 DEF Outlive, RevokedAll, SessionsOK, SessionFields
    <3> QED  BY <1>3, <2>2, <3>1
  <2>5. CASE a # b
    <3>1. Coming(a) => Came(a)  BY <2>3, <2>5
    <3>2. Goal
      <4> HIDE DEF Coming, Came
      <4> QED  BY <1>2, <2>1, <2>2, <3>1
    <3> QED  BY <1>3, <2>2, <3>2
  <2> QED  BY <2>4, <2>5
<1>14. ASSUME NEW p \in Procs, DeleteAccount(p)
       PROVE  Excused(s)'
  <2> DEFINE b == loc[p].a
  <2>1. /\ pc[p] = "delCheck" /\ RevokeAllNext(p, b) /\ sess' = sess
        /\ acct' = acct \/ acct' = [acct EXCEPT ![b] = [NoAccount EXCEPT !.gone = TRUE]]
    BY <1>14, Zenon DEF DeleteAccount, Cascade
  <2>2. b \in Accounts  BY <2>1 DEF AdminPcs
  <2>3. \A x \in Accounts \ {b} : acct'[x] = acct[x]  BY <2>1, <2>2, RowDeleted
  <2>4. Kept(p) /\ Came(b)  BY <1>5, <2>1
  <2>5. CASE a = b  BY <1>3, <1>4, <2>1, <2>4, <2>5
  <2>6. CASE a # b
    <3>1. sess[s].live => acct'[a] = acct[a]  BY <1>1, <2>3, <2>6
    <3> QED  BY <1>3, <1>4, <1>8, <2>1, <2>4, <3>1
  <2> QED  BY <2>5, <2>6
<1>15. ASSUME NEW t,
              \/ \E k : DeleteAccountCredential(t, k)
              \/ \E b : RevokeAccountSessions(t, b)
              \/ \E n : RevokeAccountSession(t, n)
              \/ MaintenanceShows
       PROVE  Excused(s)'
  <2>1. UNCHANGED <<pc, loc, acct>> /\ (UNCHANGED sess \/ (\E b : sess' = RevokedAll(b)) \/ \E n : EndSession(n))
    BY <1>15, Zenon DEF DeleteAccountCredential, RevokeAccountSessions, RevokeAccountSession, MaintenanceShows, frame
  <2>2. Row  BY <2>1 DEF RevokedAll, EndSession, SessionsOK, SessionFields
  <2> QED  BY <1>3, <1>9, <2>1, <2>2
<1> HIDE DEF Kept, Row, Goal, Coming, Came
<1> QED  BY <1>10, <1>11, <1>12, <1>13, <1>14, <1>15, Zenon DEF AccountAdminNext, AdminStep

-----------------------------------------------------------------------------
(* The start                                                                 *)

LEMMA InitHeld ==
    ASSUME Init
    PROVE  FrameOK /\ SessionsOK /\ HoldersOK
<1> USE DirectoryAssumption, SignInAssumption, IdentityAssumption
<1>1. FrameOK
  <2>1. Holder("idle", Blank)  BY DEF Holder, Acting, InFlow, Coding
  <2>2. pc = [p \in Procs |-> "idle"] /\ loc = [p \in Procs |-> Blank]  BY Zenon DEF Init
  <2> QED  BY <2>1, <2>2 DEF FrameOK
<1>2. SessionsOK
  <2> DEFINE row(a) == [NoSession EXCEPT !.a = a, !.live = TRUE, !.at = clock]
  <2>1. \A a : DOMAIN row(a) = SessionFields /\ row(a).a = a  BY DEF NoSession, SessionFields
  <2>2. DOMAIN NoSession = SessionFields /\ ~NoSession.live  BY DEF NoSession, SessionFields
  <2>3. sess = [s \in Sids |->
                 CASE s = 1 /\ "session" \in ops -> row(Root)
                   [] s = 2 /\ "usersession" \in ops -> row(User)
                   [] OTHER -> NoSession]
    BY Zenon DEF Init
  <2> HIDE DEF row
  <2>4. ASSUME NEW s \in Sids  PROVE sess[s] \in {row(Root), row(User), NoSession}  BY <2>3 DEF Sids
  <2> QED  BY <2>1, <2>2, <2>3, <2>4 DEF SessionsOK
<1>3. Focus \in Accounts  BY DEF Focus
<1>4. clock \in Nat
  <2>1. clock = Drift + 1  BY Zenon DEF Init
  <2> QED  BY <2>1
<1>5. KeysOK
  <2> DEFINE row == [NoKey EXCEPT !.a = Focus]
  <2>1. DOMAIN row = KeyFields /\ row.a = Focus /\ DOMAIN NoKey = KeyFields /\ NoKey.a = None  BY DEF NoKey, KeyFields
  <2> HIDE DEF row
  <2>2. keys = [k \in Creds |-> IF "keyed" \in ops /\ k = CHOOSE x \in Creds : TRUE THEN row ELSE NoKey]
    BY Zenon DEF Init, row
  <2>3. \A k \in Creds : keys[k] \in {row, NoKey}  BY <2>2
  <2> QED  BY <1>3, <2>1, <2>2, <2>3 DEF KeysOK, Owners
<1>6. PartialOK
  <2>1. partial = [t \in Tokens |-> IF t \in minted THEN Entry(Focus, clock + CeremonyTTL) ELSE NoEntry]
    BY Zenon DEF Init
  <2>2. Entry(Focus, clock + CeremonyTTL).val = Focus  BY DEF Entry
  <2> QED  BY <1>3, <2>1, <2>2 DEF PartialOK
<1>7. ProposalsOK  BY DEF Init, EnrollInit, ProposalsOK
<1>8. FlowsOK /\ GrantsOK  BY DEF Init, FederationInit, FlowsOK, GrantsOK
<1> QED  BY <1>1, <1>2, <1>4, <1>5, <1>6, <1>7, <1>8 DEF HoldersOK

LEMMA InitAccounts ==
    ASSUME Init
    PROVE  AccountsOK /\ RacedOK /\ RootSafe /\ \A s \in Sids : Excused(s)
<1> USE DirectoryAssumption, IdentityAssumption
<1> DEFINE row(a) == [NoAccount EXCEPT !.on = TRUE, !.admin = a = Root]
<1>1. /\ \A a : row(a) \in AccountRows /\ row(a).on /\ row(a).admin = (a = Root) /\ ~row(a).dis
      /\ NoAccount \in AccountRows /\ ~NoAccount.on /\ ~NoAccount.dis
  BY DEF NoAccount, AccountRows
<1>2. acct = [a \in Accounts |-> IF Present(a) THEN row(a) ELSE NoAccount]  BY Zenon DEF Init
<1> HIDE DEF row
<1>3. pc = [p \in Procs |-> "idle"]  BY Zenon DEF Init
<1>4. AccountsOK  BY <1>1, <1>2, <1>3 DEF AccountsOK
<1>5. \A a \in Accounts : ~acct[a].dis /\ (Present(a) => acct[a].on)  BY <1>1, <1>2
<1>6. RacedOK  BY <1>5 DEF RacedOK
<1>7. RootSafe  BY <1>1, <1>2, <1>3 DEF RootSafe, Enabled, Present
<1>8. ASSUME NEW s \in Sids  PROVE Excused(s)
  <2> DEFINE open(a) == [NoSession EXCEPT !.a = a, !.live = TRUE, !.at = clock]
  <2>1. (\A a : open(a).a = a) /\ ~NoSession.live  BY DEF NoSession
  <2>2. sess = [i \in Sids |->
                 CASE i = 1 /\ "session" \in ops -> open(Root)
                   [] i = 2 /\ "usersession" \in ops -> open(User)
                   [] OTHER -> NoSession]
    BY Zenon DEF Init
  <2> HIDE DEF open
  <2>3. sess[s].live => sess[s].a = Root \/ (sess[s].a = User /\ "usersession" \in ops)  BY <2>1, <2>2
  <2>4. ops \in Mixes  BY DEF Init
  <2>5. sess[s].live => sess[s].a \in Accounts /\ Present(sess[s].a)  BY <2>3, <2>4 DEF Present
  <2> QED  BY <1>5, <2>5 DEF Excused, Enabled
<1> QED  BY <1>4, <1>6, <1>7, <1>8

LEMMA InitTables ==
    ASSUME Init
    PROVE  /\ LinksOK /\ InvitesOK /\ MailOK /\ PasswordsOK
           /\ PrimaryFollows /\ OnlyRehashRevives /\ OneBinding /\ unbound = {}
<1> USE DirectoryAssumption, IdentityAssumption
<1>1. LinksOK /\ OneBinding
  <2> DEFINE l == Linked(Idp, CHOOSE u \in Subs : TRUE, Root, TRUE)
  <2>1. DOMAIN l = LinkFields /\ l.a = Root /\ l.idp = Idp  BY DEF Linked, LinkFields
  <2> HIDE DEF l
  <2>2. links = {l} \/ links = {}  BY Zenon DEF Init, l
  <2> QED  BY <2>1, <2>2 DEF LinksOK, OneBinding
<1>2. InvitesOK
  <2>1. Invitation(NoInvite)  BY DEF Invitation, NoInvite, InviteFields
  <2>2. inv = [t \in Invites |-> NoInvite]  BY Zenon DEF Init, EnrollInit
  <2> QED  BY <2>1, <2>2, Zenon DEF InvitesOK
<1>3. MailOK /\ PrimaryFollows
  <2> DEFINE row == [NoMail EXCEPT !.a = Root, !.addr = CHOOSE d \in Addresses : TRUE]
  <2>1. DOMAIN row = {"a", "addr", "ver"} /\ row.a = Root /\ row.ver = FALSE  BY DEF NoMail
  <2>2. DOMAIN NoMail = {"a", "addr", "ver"} /\ NoMail.a = None /\ NoMail.ver = FALSE  BY DEF NoMail
  <2>3. /\ mail = [m \in Mails |-> IF m = 1 /\ "mailed" \in ops THEN row ELSE NoMail]
        /\ nextMail = IF "mailed" \in ops THEN MaxMail ELSE 1
        /\ prim = [a \in Accounts |-> 0]
    BY Zenon DEF Init, EmailInit
  <2> HIDE DEF row
  <2>4. MailOK  BY <2>1, <2>2, <2>3 DEF MailOK, Mails, Owners
  <2>5. \A m \in Mails : ~mail[m].ver  BY <2>1, <2>2, <2>3
  <2>6. PrimaryFollows  BY <2>3, <2>5 DEF PrimaryFollows, MailOf
  <2> QED  BY <2>4, <2>6
<1>4. PasswordsOK /\ OnlyRehashRevives
  <2>1. /\ DOMAIN pw = Accounts
        /\ retired = [a \in Accounts |-> {}] /\ revived = [a \in Accounts |-> {}]
    BY DEF Init, SignInInit
  <2> QED  BY <2>1 DEF PasswordsOK, OnlyRehashRevives
<1>5. unbound = {}  BY Zenon DEF Init, EnrollInit
<1> QED  BY <1>1, <1>2, <1>3, <1>4, <1>5

-----------------------------------------------------------------------------
(* The theorems                                                              *)

\* What is told of the tables, for all of them together.
TablesInv ==
    /\ IdentityInv
    /\ PrimaryFollows /\ OnlyRehashRevives /\ IdentitiesBound
    /\ RacedOK /\ DisabledHoldsNoSession

\* Whatever the requests do in whatever order: each acts for an account, each session,
\* passkey, partial session, proposal, flow, grant, identity and address names one, the
\* rows keep their form, and what the single invariants below say holds.
THEOREM TablesHold == Spec => []TablesInv
<1>1. ASSUME Init  PROVE TablesInv
  BY <1>1, InitHeld, InitAccounts, InitTables, ExcusedAll, Zenon DEF TablesInv, IdentityInv, IdentitiesBound, OneBinding
<1>2. ASSUME TablesInv, [Next]_vars
      PROVE  TablesInv'
  <2>1. HeldOK /\ AccountsOK /\ LinksOK /\ InvitesOK /\ MailOK /\ PasswordsOK /\ OneBinding /\ unbound = {}
    BY <1>2, Zenon DEF TablesInv, IdentityInv, HeldOK, IdentitiesBound, OneBinding
  <2>2. FrameOK /\ SessionsOK /\ HoldersOK  BY <2>1 DEF HeldOK
  <2>3. PrimaryFollows /\ OnlyRehashRevives /\ RacedOK /\ \A s \in Sids : Excused(s)
    BY <1>2, ExcusedAll, Zenon DEF TablesInv
  <2>4. StepEffect /\ (Aside \/ AccountAdminNext)  BY <1>2, <2>1, StepEffects
  <2>5. /\ FrameOK' /\ SessionsOK' /\ HoldersOK' /\ LinksOK' /\ InvitesOK' /\ MailOK' /\ PasswordsOK'
        /\ PrimaryFollows' /\ OnlyRehashRevives' /\ OneBinding'
        /\ \A s \in Sids : SessionKept(s) \/ SessionIssued(s)
    BY <2>1, <2>2, <2>3, <2>4, StepKeeps
  <2>6. unbound' = {}  BY <2>1, <2>4, Zenon DEF StepEffect
  <2>7. \A p \in Procs : pc[p] \in AdminPcs => loc[p].a \in Accounts
    BY <2>2 DEF FrameOK, Holder, Acting, AdminPcs
  <2>8. AccountsOK' /\ RacedOK' /\ \A s \in Sids : Excused(s)'
    <3>1. CASE Aside
      <4>1. AccountsOK'  BY <2>1, <3>1, AsideAccounts
      <4>2. RacedOK'  BY <2>1, <2>3, <3>1, AsideAccounts DEF RacedOK, Enabled, Aside
      <4>3. \A s \in Sids : Excused(s)'  BY <2>1, <2>2, <2>3, <2>5, <3>1, AsideExcuses
      <4> QED  BY <4>1, <4>2, <4>3
    <3>2. CASE AccountAdminNext
      <4>1. AccountsOK' /\ RacedOK'  BY <2>1, <2>2, <2>3, <2>7, <3>2, AdminTyped
      <4>2. \A s \in Sids : Excused(s)'  BY <2>1, <2>2, <2>3, <2>7, <3>2, AdminExcuses
      <4> QED  BY <4>1, <4>2
    <3> QED  BY <2>4, <3>1, <3>2
  <2>9. DisabledHoldsNoSession'
    <3>1. (\A s \in Sids : Excused(s)') => DisabledHoldsNoSession'  BY Zenon DEF DisabledHoldsNoSession, Excused
    <3> QED  BY <2>8, <3>1
  <2>10. IdentitiesBound'  BY <2>5, <2>6, Zenon DEF IdentitiesBound, OneBinding
  <2>11. IdentityInv'  BY <2>5, <2>8, Zenon DEF IdentityInv
  <2> QED  BY <2>5, <2>8, <2>9, <2>10, <2>11, Zenon DEF TablesInv
<1> QED  BY <1>1, <1>2, PTL DEF Spec

\* An upstream identity belongs to at most one account, and an account created from an
\* invitation bound to a provider has an identity there: whichever sign-in, link,
\* invitation, redemption, deletion of a provider or of an account comes in between
\* (resolver.go:527, enrollment_identity.go:44).
THEOREM IdentitiesAlwaysBound == Spec => []IdentitiesBound
<1>1. TablesInv => IdentitiesBound  BY DEF TablesInv
<1> QED  BY <1>1, TablesHold, PTL

\* The primary address is a verified one of the account, an account with a verified
\* address has a primary, and a verified address has one account: under the owner's
\* and the administrators' changes, upstream assertions and deletions in any order
\* (email.go:237 and :299, upstream.go:35).
THEOREM PrimaryAlwaysFollows == Spec => []PrimaryFollows
<1>1. TablesInv => PrimaryFollows  BY DEF TablesInv
<1> QED  BY <1>1, TablesHold, PTL

\* A password that was replaced or removed is only ever brought back by the rehash of a
\* sign-in verified against the old row (password.go:125).
THEOREM OnlyRehashEverRevives == Spec => []OnlyRehashRevives
<1>1. TablesInv => OnlyRehashRevives  BY DEF TablesInv
<1> QED  BY <1>1, TablesHold, PTL

\* A live session of a disabled or deleted account is one whose revocation is still to
\* come, failed or was not asked for, or that a sign-in issued which had passed its
\* checks (handle_account.go:553, :583).
THEOREM DisabledNeverHolds == Spec => []DisabledHoldsNoSession
<1>1. TablesInv => DisabledHoldsNoSession  BY DEF TablesInv
<1> QED  BY <1>1, TablesHold, PTL

\* While the count of admins cannot be locked (PostgreSQL rejects COUNT ... FOR UPDATE),
\* the instance is never without an active admin, and an admin is disabled only if he
\* was promoted between the two statements of a set-disabled request
\* (handle_account.go:553).
THEOREM ActiveAdminAlwaysRemains == ~CountLocks => (Spec => []ActiveAdminRemains)
<1> SUFFICES ASSUME ~CountLocks  PROVE Spec => []ActiveAdminRemains
  OBVIOUS
<1>1. ASSUME Init  PROVE RootSafe  BY <1>1, InitAccounts
<1>2. ASSUME TablesInv, RootSafe, [Next]_vars
      PROVE  RootSafe'
  <2>1. HeldOK /\ FrameOK /\ AccountsOK /\ LinksOK /\ InvitesOK /\ MailOK
    BY <1>2, Zenon DEF TablesInv, IdentityInv, HeldOK
  <2>2. Aside \/ AccountAdminNext  BY <1>2, <2>1, StepEffects
  <2>3. \A p \in Procs : pc[p] \in AdminPcs => loc[p].a \in Accounts
    BY <2>1 DEF FrameOK, Holder, Acting, AdminPcs
  <2> QED  BY <1>2, <2>1, <2>2, <2>3, AdminRoot, AsideRoot
<1>3. TablesInv /\ RootSafe => ActiveAdminRemains
  <2>1. ASSUME RootSafe  PROVE Root \in ActiveAdmins  BY <2>1, IdentityAssumption DEF RootSafe, ActiveAdmins
  <2> QED  BY <2>1 DEF ActiveAdminRemains, TablesInv, RacedOK
<1> QED  BY <1>1, <1>2, <1>3, TablesHold, PTL DEF Spec

-----------------------------------------------------------------------------
(* What a request stakes                                                     *)

\* The labels at which a request of a sign-in or step-up holds a stake.
Staked == {"pwVerify", "totpGet", "totpUpdate", "totpDone", "rcTx", "rcDone", "keyUse"}

\* A request at label l with locals v claims the partial session or ceremony t it popped;
\* pledges the sudo intent of session s; and tries a factor of an account.
Claims(l, v, t) ==
    /\ l \in {"totpGet", "totpUpdate", "totpDone", "rcTx", "rcDone", "keyUse"} /\ v.tok = t
    /\ l \in {"totpGet", "totpUpdate", "totpDone", "keyUse"} => v.op = "signin"
Pledges(l, v, s) ==
    l \in {"pwVerify", "totpGet", "totpUpdate", "totpDone", "keyUse"} /\ v.op = "sudo" /\ v.s = s
Tries(l, v, a, f) ==
    /\ v.a = a
    /\ \/ f = "password" /\ l = "pwVerify"
       \/ f = "totp" /\ l = "totpUpdate"
       \/ f = "recovery_code" /\ l = "rcTx"

\* Only p stakes anything new: claims of T, pledges of S, tries of X.
Gains(p, T, S, X) ==
    \A q \in Procs :
        /\ \A t : Claims(pc'[q], loc'[q], t) => Claims(pc[q], loc[q], t) \/ (q = p /\ t \in T)
        /\ \A s : Pledges(pc'[q], loc'[q], s) => Pledges(pc[q], loc[q], s) \/ (q = p /\ s \in S)
        /\ \A a, f : Tries(pc'[q], loc'[q], a, f) => Tries(pc[q], loc[q], a, f) \/ (q = p /\ <<a, f>> \in X)

\* Nothing is staked anew: so it is when nobody moves to a label with a stake.
Falls == Gains(None, {}, {}, {})
Calm == \A q \in Procs : (pc'[q] = pc[q] /\ loc'[q] = loc[q]) \/ pc'[q] \notin Staked

LEMMA CalmFalls ==
    ASSUME Calm
    PROVE  Falls
BY DEF Calm, Falls, Gains, Claims, Pledges, Tries, Staked

LEMMA MovesCalm ==
    ASSUME NEW L, Moves(L), L \cap Staked = {}
    PROVE  Calm
BY DEF Moves, Calm

LEMMA UnstakedLabels ==
    /\ EmailAt \cap Staked = {} /\ EnrollAt \cap Staked = {} /\ FederationAt \cap Staked = {}
    /\ AdminAt \cap Staked = {} /\ "idle" \notin Staked
BY DEF EmailAt, EnrollAt, FederationAt, AdminAt, EmailPcs, EnrollPcs, FedPcs, AdminPcs, Staked

\* A request that is answered stakes nothing.
LEMMA FinishCalm ==
    ASSUME FrameOK, NEW p \in Procs, Finish(p)
    PROVE  Calm /\ Only(p, "idle", Blank)
<1>1. Only(p, "idle", Blank)  BY Moved DEF Finish
<1> QED  BY <1>1, UnstakedLabels DEF Only, Calm

\* What p gains when it goes to l with v.
LEMMA OnlyGains ==
    ASSUME NEW p \in Procs, NEW l, NEW v, Only(p, l, v), NEW T, NEW S, NEW X,
           \A t : Claims(l, v, t) => Claims(pc[p], loc[p], t) \/ t \in T,
           \A s : Pledges(l, v, s) => Pledges(pc[p], loc[p], s) \/ s \in S,
           \A a, f : Tries(l, v, a, f) => Tries(pc[p], loc[p], a, f) \/ <<a, f>> \in X
    PROVE  Gains(p, T, S, X)
BY Zenon DEF Only, Gains

\* One that keeps its locals, on its way through an attempt, only loses.
LEMMA KeepFalls ==
    ASSUME FrameOK, NEW p \in Procs, NEW l, Goto(p, l), UNCHANGED loc,
           \/ pc[p] = "pwVerify" /\ l = "totpGet" /\ loc[p].op = "sudo"
           \/ pc[p] = "totpUpdate" /\ l = "totpDone"
           \/ pc[p] = "rcTx" /\ l = "rcDone"
    PROVE  Falls
<1>1. Only(p, l, loc[p])  BY DEF FrameOK, Goto, Only
<1>2. \A t : Claims(l, loc[p], t) => Claims(pc[p], loc[p], t)  BY DEF Claims
<1>3. \A s : Pledges(l, loc[p], s) => Pledges(pc[p], loc[p], s)  BY DEF Pledges
<1>4. \A a, f : ~Tries(l, loc[p], a, f)  BY DEF Tries
<1> QED  BY <1>1, <1>2, <1>3, <1>4, Zenon DEF Falls, Gains, Only

\* The second half of Verify: the attempt goes on only with an unlocked factor.
LEMMA TotpGetGains ==
    ASSUME FrameOK, NEW p \in Procs, NEW l, NEW a, Signing(l, a), TotpGet(p, l), NEW T, NEW S,
           \A t : Claims("totpUpdate", l, t) => Claims(pc[p], loc[p], t) \/ t \in T,
           \A s : Pledges("totpUpdate", l, s) => Pledges(pc[p], loc[p], s) \/ s \in S
    PROVE  Calm \/ (~Locked(a, "totp") /\ Gains(p, T, S, {<<a, "totp">>}))
<1>1. CASE Finish(p)  BY <1>1, FinishCalm
<1>2. ASSUME ~Locked(l.a, "totp"), NEW c, NEW b, Set(p, [l EXCEPT !.cred = c, !.ok = b]), Goto(p, "totpUpdate")
      PROVE  ~Locked(a, "totp") /\ Gains(p, T, S, {<<a, "totp">>})
  <2> DEFINE v == [l EXCEPT !.cred = c, !.ok = b]
  <2>1. v.op = l.op /\ v.a = a /\ v.tok = l.tok /\ v.s = l.s  BY DEF Signing, Blank
  <2>2. Only(p, "totpUpdate", v)  BY <1>2, Moved
  <2> HIDE DEF v
  <2>3. \A t : Claims("totpUpdate", v, t) => Claims(pc[p], loc[p], t) \/ t \in T  BY <2>1 DEF Claims
  <2>4. \A s : Pledges("totpUpdate", v, s) => Pledges(pc[p], loc[p], s) \/ s \in S  BY <2>1 DEF Pledges
  <2>5. \A b1, f : Tries("totpUpdate", v, b1, f) => <<b1, f>> \in {<<a, "totp">>}  BY <2>1 DEF Tries
  <2>6. l.a = a  BY DEF Signing
  <2> QED  BY <1>2, <2>2, <2>3, <2>4, <2>5, <2>6, OnlyGains
<1> QED  BY <1>1, <1>2, Zenon DEF TotpGet

\* A request takes claims of T and pledges of S, and tries nothing but unlocked factors.
Takes(p, T, S) ==
    \E X : Gains(p, T, S, X) /\ \A a, f : <<a, f>> \in X => ~Locked(a, f)

LEMMA TakesBy ==
    ASSUME NEW p, NEW T, NEW S, NEW X, Gains(p, T, S, X), \A a, f : <<a, f>> \in X => ~Locked(a, f)
    PROVE  Takes(p, T, S)
BY Zenon DEF Takes

LEMMA FallsTakes ==
    ASSUME Falls, NEW p, NEW T, NEW S
    PROVE  Takes(p, T, S)
<1>1. Gains(p, T, S, {})  BY DEF Falls, Gains
<1> QED  BY <1>1, TakesBy

LEMMA OneTakes ==
    ASSUME NEW p, NEW T, NEW S, NEW a, NEW f, ~Locked(a, f), Gains(p, T, S, {<<a, f>>})
    PROVE  Takes(p, T, S)
<1>1. \A b, g : <<b, g>> \in {<<a, f>>} => b = a /\ g = f  OBVIOUS
<1>2. \A b, g : <<b, g>> \in {<<a, f>>} => ~Locked(b, g)  BY <1>1
<1> QED  BY <1>2, TakesBy

LEMMA QuietCalm ==
    ASSUME UNCHANGED <<pc, loc>>
    PROVE  Calm
BY DEF Calm

LEMMA PasswordTakes ==
    ASSUME HeldOK, NEW p \in Procs
    PROVE  /\ \A a \in Accounts : \A v : PasswordBegin(p, a, v) => Takes(p, {}, {})
           /\ \A s, v, c : SudoCompletePassword(p, s, v, c) => Takes(p, {}, {s})
           /\ PasswordSudo(p) => Falls
<1>1. FrameOK  BY DEF HeldOK
<1>2. ASSUME NEW a, NEW v, PasswordBegin(p, a, v)
      PROVE  Takes(p, {}, {})
  <2> DEFINE l == [Blank EXCEPT !.op = "signin", !.a = a, !.pwd = v, !.row = pw[a]]
  <2>1. l.op = "signin" /\ l.a = a  BY DEF Blank
  <2>2. Set(p, l) /\ Goto(p, "pwVerify") /\ ~Locked(a, "password")  BY <1>2, Zenon DEF PasswordBegin
  <2> HIDE DEF l
  <2>3. Only(p, "pwVerify", l)  BY <1>1, <2>2, Moved
  <2>4. /\ \A t : ~Claims("pwVerify", l, t)
        /\ \A s : ~Pledges("pwVerify", l, s)
        /\ \A b, f : Tries("pwVerify", l, b, f) => <<b, f>> \in {<<a, "password">>}
    BY <2>1 DEF Claims, Pledges, Tries
  <2>5. Gains(p, {}, {}, {<<a, "password">>})  BY <2>3, <2>4, OnlyGains
  <2> QED  BY <2>2, <2>5, OneTakes
<1>3. ASSUME NEW s, NEW v, NEW c, SudoCompletePassword(p, s, v, c)
      PROVE  Takes(p, {}, {s})
  <2> DEFINE a == sess[s].a
             l == [Blank EXCEPT !.op = "sudo", !.a = a, !.s = s, !.pwd = v, !.row = pw[a], !.code = c]
  <2>1. l.op = "sudo" /\ l.a = a /\ l.s = s  BY DEF Blank
  <2>2. (Set(p, l) /\ Goto(p, "pwVerify") /\ ~Locked(a, "password")) \/ UNCHANGED frame
    BY <1>3, Zenon DEF SudoCompletePassword
  <2> HIDE DEF l, a
  <2>3. CASE UNCHANGED frame  BY <2>3, QuietCalm, CalmFalls, FallsTakes DEF frame
  <2>4. CASE Set(p, l) /\ Goto(p, "pwVerify") /\ ~Locked(a, "password")
    <3>1. Only(p, "pwVerify", l)  BY <1>1, <2>4, Moved
    <3>2. /\ \A t : ~Claims("pwVerify", l, t)
          /\ \A r : Pledges("pwVerify", l, r) => r \in {s}
          /\ \A b, f : Tries("pwVerify", l, b, f) => <<b, f>> \in {<<a, "password">>}
      BY <2>1 DEF Claims, Pledges, Tries
    <3>3. Gains(p, {}, {s}, {<<a, "password">>})  BY <3>1, <3>2, OnlyGains
    <3> QED  BY <2>4, <3>3, OneTakes
  <2> QED  BY <2>2, <2>3, <2>4
<1>4. ASSUME PasswordSudo(p)
      PROVE  Falls
  <2>1. pc[p] = "pwVerify" /\ loc[p].op = "sudo" /\ Goto(p, "totpGet") /\ UNCHANGED loc
    BY <1>4 DEF PasswordSudo, PasswordVerified
  <2> QED  BY <1>1, <2>1, KeepFalls
<1> QED  BY <1>2, <1>3, <1>4

LEMMA TotpTakes ==
    ASSUME HeldOK, NEW p \in Procs
    PROVE  /\ \A t, c : c \in Codes /\ TotpVerify(p, t, c) => Takes(p, {t}, {})
           /\ TotpSudo(p) => Takes(p, {}, {})
           /\ TotpUpdate(p) => Falls
<1>1. FrameOK  BY DEF HeldOK
<1>2. ASSUME NEW t, NEW c \in Codes, TotpVerify(p, t, c)
      PROVE  Takes(p, {t}, {})
  <2> DEFINE a == partial[t].val
             l == [Blank EXCEPT !.op = "signin", !.a = a, !.tok = t, !.code = c]
  <2>1. Signing(l, a) /\ l.op = "signin" /\ l.tok = t  BY DEF Signing, Blank
  <2>2. TotpGet(p, l) \/ UNCHANGED frame  BY <1>2, Zenon DEF TotpVerify
  <2> HIDE DEF l, a
  <2>3. CASE UNCHANGED frame  BY <2>3, QuietCalm, CalmFalls, FallsTakes DEF frame
  <2>4. CASE TotpGet(p, l)
    <3>1. /\ \A u : Claims("totpUpdate", l, u) => u \in {t}
          /\ \A s : ~Pledges("totpUpdate", l, s)
      BY <2>1 DEF Claims, Pledges
    <3>2. Calm \/ (~Locked(a, "totp") /\ Gains(p, {t}, {}, {<<a, "totp">>}))
      BY <1>1, <2>1, <2>4, <3>1, TotpGetGains
    <3> QED  BY <3>2, OneTakes, CalmFalls, FallsTakes
  <2> QED  BY <2>2, <2>3, <2>4
<1>3. ASSUME TotpSudo(p)
      PROVE  Takes(p, {}, {})
  <2>1. pc[p] = "totpGet" /\ TotpGet(p, loc[p])  BY <1>3 DEF TotpSudo
  <2>2. Signing(loc[p], loc[p].a)  BY <1>1, <2>1 DEF FrameOK, Holder, Coding, Signing
  <2>3. /\ \A t : Claims("totpUpdate", loc[p], t) => Claims(pc[p], loc[p], t)
        /\ \A s : Pledges("totpUpdate", loc[p], s) => Pledges(pc[p], loc[p], s)
    BY <2>1 DEF Claims, Pledges
  <2>4. Calm \/ (~Locked(loc[p].a, "totp") /\ Gains(p, {}, {}, {<<loc[p].a, "totp">>}))
    BY <1>1, <2>1, <2>2, <2>3, TotpGetGains
  <2> QED  BY <2>4, OneTakes, CalmFalls, FallsTakes
<1>4. ASSUME TotpUpdate(p)
      PROVE  Falls
  <2>1. pc[p] = "totpUpdate" /\ Goto(p, "totpDone") /\ UNCHANGED loc  BY <1>4 DEF TotpUpdate
  <2> QED  BY <1>1, <2>1, KeepFalls
<1> QED  BY <1>2, <1>3, <1>4

LEMMA RecoveryTakes ==
    ASSUME HeldOK, NEW p \in Procs
    PROVE  /\ \A t, rc, c : RecoveryVerify(p, t, rc, c) => Takes(p, {t}, {})
           /\ RecoveryRedeem(p) => Falls
<1>1. FrameOK  BY DEF HeldOK
<1>2. ASSUME NEW t, NEW rc, NEW c, RecoveryVerify(p, t, rc, c)
      PROVE  Takes(p, {t}, {})
  <2> DEFINE a == partial[t].val
             ok == rc \in codes[a]
             l == [Blank EXCEPT !.op = "signin", !.a = a, !.tok = t, !.rc = rc,
                                !.code = IF ok THEN c ELSE NoCode, !.ok = ok]
  <2>1. l.a = a /\ l.op = "signin" /\ l.tok = t  BY DEF Blank
  <2>2. (~Locked(a, "recovery_code") /\ Set(p, l) /\ Goto(p, "rcTx")) \/ UNCHANGED frame
    BY <1>2, Zenon DEF RecoveryVerify
  <2> HIDE DEF l, a
  <2>3. CASE UNCHANGED frame  BY <2>3, QuietCalm, CalmFalls, FallsTakes DEF frame
  <2>4. CASE ~Locked(a, "recovery_code") /\ Set(p, l) /\ Goto(p, "rcTx")
    <3>1. Only(p, "rcTx", l)  BY <1>1, <2>4, Moved
    <3>2. /\ \A u : Claims("rcTx", l, u) => u \in {t}
          /\ \A s : ~Pledges("rcTx", l, s)
          /\ \A b, f : Tries("rcTx", l, b, f) => <<b, f>> \in {<<a, "recovery_code">>}
      BY <2>1 DEF Claims, Pledges, Tries
    <3>3. Gains(p, {t}, {}, {<<a, "recovery_code">>})  BY <3>1, <3>2, OnlyGains
    <3> QED  BY <2>4, <3>3, OneTakes
  <2> QED  BY <2>2, <2>3, <2>4
<1>3. ASSUME RecoveryRedeem(p)
      PROVE  Falls
  <2>1. pc[p] = "rcTx" /\ Goto(p, "rcDone") /\ UNCHANGED loc  BY <1>3, Zenon DEF RecoveryRedeem
  <2> QED  BY <1>1, <2>1, KeepFalls
<1> QED  BY <1>2, <1>3

LEMMA KeyTakes ==
    ASSUME HeldOK, NEW p \in Procs
    PROVE  /\ \A t, k, n : LoginComplete(p, t, k, n) => Takes(p, {t}, {})
           /\ \A s, k, n : SudoCompleteKey(p, s, k, n) => Takes(p, {}, {s})
<1>1. FrameOK  BY DEF HeldOK
<1>2. ASSUME NEW l, NEW T, NEW S,
             (Set(p, l) /\ Goto(p, "keyUse")) \/ UNCHANGED frame,
             \A u : Claims("keyUse", l, u) => u \in T,
             \A r : Pledges("keyUse", l, r) => r \in S
      PROVE  Takes(p, T, S)
  <2>1. CASE UNCHANGED frame  BY <2>1, QuietCalm, CalmFalls, FallsTakes DEF frame
  <2>2. CASE Set(p, l) /\ Goto(p, "keyUse")
    <3>1. Only(p, "keyUse", l)  BY <1>1, <2>2, Moved
    <3>2. \A b, f : ~Tries("keyUse", l, b, f)  BY DEF Tries
    <3>3. Gains(p, T, S, {})  BY <1>2, <3>1, <3>2, OnlyGains
    <3> QED  BY <3>3, TakesBy
  <2> QED  BY <1>2, <2>1, <2>2
<1>3. ASSUME NEW t, NEW k, NEW n, LoginComplete(p, t, k, n)
      PROVE  Takes(p, {t}, {})
  <2> DEFINE a == keys[k].a
             l == [Blank EXCEPT !.op = "signin", !.a = a, !.tok = t, !.k = k, !.n = n, !.ok = n < keys[k].n]
  <2>1. l.op = "signin" /\ l.tok = t  BY DEF Blank
  <2>2. (Set(p, l) /\ Goto(p, "keyUse")) \/ UNCHANGED frame  BY <1>3, Zenon DEF LoginComplete
  <2> HIDE DEF l, a
  <2>3. (\A u : Claims("keyUse", l, u) => u \in {t}) /\ \A r : ~Pledges("keyUse", l, r)
    BY <2>1 DEF Claims, Pledges
  <2> QED  BY <1>2, <2>2, <2>3
<1>4. ASSUME NEW s, NEW k, NEW n, SudoCompleteKey(p, s, k, n)
      PROVE  Takes(p, {}, {s})
  <2> DEFINE l == [Blank EXCEPT !.op = "sudo", !.a = sess[s].a, !.s = s, !.k = k, !.n = n, !.ok = n < keys[k].n]
  <2>1. l.op = "sudo" /\ l.s = s  BY DEF Blank
  <2>2. (Set(p, l) /\ Goto(p, "keyUse")) \/ UNCHANGED frame  BY <1>4, Zenon DEF SudoCompleteKey
  <2> HIDE DEF l
  <2>3. (\A u : ~Claims("keyUse", l, u)) /\ \A r : Pledges("keyUse", l, r) => r \in {s}
    BY <2>1 DEF Claims, Pledges
  <2> QED  BY <1>2, <2>2, <2>3
<1> QED  BY <1>3, <1>4

\* The steps of a sign-in or step-up, by what they do with stakes: one pops what a token
\* names, withdraws the intent of a session, goes on, or answers.
Pops(p, t) ==
    \/ \E c \in Codes : TotpVerify(p, t, c) \/ \E rc \in 1..MaxCode : RecoveryVerify(p, t, rc, c)
    \/ \E k \in Creds, n \in 0..MaxSign : LoginComplete(p, t, k, n)
Withdraws(p, s) ==
    \/ \E v \in Passwords, c \in Codes : SudoCompletePassword(p, s, v, c)
    \/ \E k \in Creds, n \in 0..MaxSign : SudoCompleteKey(p, s, k, n)
GoesOn(p) ==
    \/ \E a \in Accounts, v \in Passwords : PasswordBegin(p, a, v)
    \/ PasswordSudo(p) \/ TotpSudo(p) \/ TotpUpdate(p) \/ RecoveryRedeem(p)
Fails(p) == PasswordFails(p) \/ TotpFails(p) \/ RecoveryFails(p)
SignsIn(p) == TotpSignsIn(p) \/ RecoverySignsIn(p) \/ PasskeySignsIn(p)
StepsUp(p) == SudoByTotp(p) \/ SudoByKey(p)
HalfWay(p) == \E t \in Tokens : PasswordCompletes(p, t)
Manages ==
    \/ \E s \in Sids, v \in Passwords :
        PasswordSet(s, v) \/ \E c \in Codes : PasswordTotpEnroll(s, v, c)
    \/ \E s \in Sids, c \in Codes : TotpReenroll(s, c)
    \/ \E s \in Sids : RevokePwdTotp(s) \/ AddKeyBegin(s) \/ Logout(s)
    \/ \E s, t \in Sids : RevokeMySession(s, t)
    \/ \E s \in Sids, k \in Creds : DeleteKey(s, k)
    \/ \E s \in Sids, l \in links : Unlink(s, l)
Offers == (\E t \in Tokens : LoginBegin(t)) \/ \E s \in Sids, m \in {"webauthn", "password_totp"} : SudoBegin(s, m)

LEMMA SignInKinds ==
    ASSUME SignInNext
    PROVE  \/ \E p \in Procs : \/ (\E t \in Tokens : Pops(p, t)) \/ (\E s \in Sids : Withdraws(p, s))
                               \/ GoesOn(p) \/ Fails(p) \/ SignsIn(p) \/ StepsUp(p) \/ HalfWay(p) \/ FactorStep(p)
           \/ Manages \/ Offers
<1>1. ASSUME NEW p \in Procs, PasswordStep(p) \/ TotpStep(p) \/ RecoveryStep(p)
      PROVE  (\E t \in Tokens : Pops(p, t)) \/ GoesOn(p) \/ Fails(p) \/ SignsIn(p) \/ HalfWay(p)
  BY <1>1, Zenon DEF PasswordStep, TotpStep, RecoveryStep, Pops, GoesOn, Fails, SignsIn, HalfWay
<1>2. ASSUME NEW p \in Procs, PasskeyStep(p) \/ SudoStep(p)
      PROVE  (\E t \in Tokens : Pops(p, t)) \/ (\E s \in Sids : Withdraws(p, s)) \/ SignsIn(p) \/ StepsUp(p)
  BY <1>2, Zenon DEF PasskeyStep, SudoStep, Pops, Withdraws, SignsIn, StepsUp
<1> HIDE DEF Pops, Withdraws, GoesOn, Fails, SignsIn, StepsUp, HalfWay
<1> QED  BY <1>1, <1>2, Zenon DEF SignInNext, Manages, Offers

LEMMA SignInStakes ==
    ASSUME HeldOK, NEW p \in Procs
    PROVE  /\ \A t : Pops(p, t) => Takes(p, {t}, {})
           /\ \A s : Withdraws(p, s) => Takes(p, {}, {s})
           /\ GoesOn(p) => Takes(p, {}, {})
           /\ Fails(p) \/ SignsIn(p) \/ StepsUp(p) \/ HalfWay(p) => Calm /\ pc'[p] = "idle"
           /\ FactorStep(p) => Calm
<1>1. FrameOK  BY DEF HeldOK
<1>2. ASSUME NEW t, Pops(p, t)  PROVE Takes(p, {t}, {})
  BY <1>2, TotpTakes, RecoveryTakes, KeyTakes, Zenon DEF Pops
<1>3. ASSUME NEW s, Withdraws(p, s)  PROVE Takes(p, {}, {s})
  BY <1>3, PasswordTakes, KeyTakes, Zenon DEF Withdraws
<1>4. ASSUME GoesOn(p)  PROVE Takes(p, {}, {})
  BY <1>4, PasswordTakes, TotpTakes, RecoveryTakes, FallsTakes, Zenon DEF GoesOn
<1>5. ASSUME Fails(p) \/ SignsIn(p) \/ StepsUp(p) \/ HalfWay(p)
      PROVE  Finish(p)
  BY <1>5, Zenon DEF Fails, SignsIn, StepsUp, HalfWay, PasswordFails, TotpFails, RecoveryFails, TotpSignsIn,
     RecoverySignsIn, PasskeySignsIn, SudoByTotp, SudoByKey, PasswordCompletes
<1>6. ASSUME Finish(p)  PROVE Calm /\ pc'[p] = "idle"  BY <1>1, <1>6, FinishCalm DEF Only
<1>7. ASSUME FactorStep(p)
      PROVE  Calm
  <2>1. ASSUME NEW l, NEW v, Goto(p, l), Set(p, v), l \notin Staked
        PROVE  Calm
    BY <1>1, <2>1, Moved DEF Only, Calm
  <2>2. "regenTx" \notin Staked /\ "regenCommit" \notin Staked /\ "addDel" \notin Staked  BY DEF Staked
  <2> QED  BY <1>6, <1>7, <2>1, <2>2, Zenon
           DEF FactorStep, RegenerateBegin, RegenerateDelete, RegenerateCommit, AddKeyInsert, AddKeyDone
<1> QED  BY <1>2, <1>3, <1>4, <1>5, <1>6, <1>7, Zenon

LEMMA ManagesCalm ==
    ASSUME Manages \/ Offers
    PROVE  Calm
<1>1. UNCHANGED <<pc, loc>>
  <2> USE DEF frame, directory
  <2>1. CASE Offers  BY <2>1, Zenon DEF Offers, LoginBegin, SudoBegin
  <2>2. CASE Manages
    BY <2>2, Zenon DEF Manages, PasswordSet, PasswordTotpEnroll, TotpReenroll, RevokePwdTotp, AddKeyBegin, Logout,
       RevokeMySession, DeleteKey, Unlink
  <2> QED  BY <2>1, <2>2
<1> QED  BY <1>1, QuietCalm

-----------------------------------------------------------------------------
(* Partial sessions and passkey ceremonies                                   *)

\* What a token names is in one store, or with the one request that popped it, or redeemed.
Open(t) == partial[t] # NoEntry \/ ceremony[t] # NoEntry
Unclaimed(t) == redeemed[t] = 0 /\ \A p \in Procs : ~Claims(pc[p], loc[p], t)
TokenOnce(t) ==
    /\ partial[t] = NoEntry \/ ceremony[t] = NoEntry
    /\ t \notin minted => ~Open(t) /\ Unclaimed(t)
    /\ Open(t) => Unclaimed(t)
    /\ \A p \in Procs : Claims(pc[p], loc[p], t) =>
         redeemed[t] = 0 /\ \A q \in Procs : Claims(pc[q], loc[q], t) => q = p
RedeemedOK ==
    /\ DOMAIN partial = Tokens /\ DOMAIN ceremony = Tokens /\ redeemed \in [Tokens -> 0..1]
    /\ \A t \in Tokens : TokenOnce(t)

ClaimsGain(p, T) ==
    \A q \in Procs, t \in Tokens : Claims(pc'[q], loc'[q], t) => Claims(pc[q], loc[q], t) \/ (q = p /\ t \in T)

\* Mint a token for one of the stores, pop it, redeem it.
Minting(t) ==
    /\ t \in Tokens \ minted /\ minted' = minted \cup {t} /\ UNCHANGED redeemed
    /\ \E v, ttl : \/ partial' = SetEx(partial, t, v, ttl, clock) /\ UNCHANGED ceremony
                   \/ ceremony' = SetEx(ceremony, t, v, ttl, clock) /\ UNCHANGED partial
Popping(t) ==
    /\ t \in Tokens /\ UNCHANGED <<minted, redeemed>>
    /\ \/ partial[t] # NoEntry /\ partial' = Del(partial, t) /\ UNCHANGED ceremony
       \/ ceremony[t] # NoEntry /\ ceremony' = Del(ceremony, t) /\ UNCHANGED partial
RedeemMove ==
    \/ ClaimsGain(None, {}) /\ UNCHANGED <<partial, ceremony, minted, redeemed>>
    \/ ClaimsGain(None, {}) /\ \E t : Minting(t)
    \/ \E p, t : ClaimsGain(p, {t}) /\ Popping(t)
    \/ \E p \in Procs, t \in Tokens :
         /\ ClaimsGain(None, {}) /\ Claims(pc[p], loc[p], t) /\ ~Claims(pc'[p], loc'[p], t)
         /\ redeemed' = [redeemed EXCEPT ![t] = @ + 1] /\ UNCHANGED <<partial, ceremony, minted>>

LEMMA RedeemMoved ==
    ASSUME RedeemedOK, RedeemMove
    PROVE  RedeemedOK'
<1> DEFINE Cl(p, t) == Claims(pc[p], loc[p], t)
           Cm(p, t) == Claims(pc'[p], loc'[p], t)
<1> USE DEF Open, Unclaimed, TokenOnce
<1>0. None \notin Procs  BY DirectoryAssumption
<1>1. CASE ClaimsGain(None, {}) /\ UNCHANGED <<partial, ceremony, minted, redeemed>>
  <2>1. \A q \in Procs, t \in Tokens : Cm(q, t) => Cl(q, t)  BY <1>1 DEF ClaimsGain
  <2> HIDE DEF Cl, Cm
  <2>2. ASSUME NEW t \in Tokens  PROVE TokenOnce(t)'
    <3>1. TokenOnce(t)  BY DEF RedeemedOK
    <3> QED  BY <1>1, <2>1, <3>1 DEF Cl, Cm
  <2> QED  BY <1>1, <2>2 DEF RedeemedOK
<1>2. ASSUME ClaimsGain(None, {}), NEW t, Minting(t)
      PROVE  RedeemedOK'
  <2>1. \A q \in Procs, u \in Tokens : Cm(q, u) => Cl(q, u)  BY <1>2 DEF ClaimsGain
  <2>2. t \in Tokens \ minted /\ minted' = minted \cup {t} /\ redeemed' = redeemed  BY <1>2 DEF Minting
  <2>3. /\ DOMAIN partial' = Tokens /\ DOMAIN ceremony' = Tokens
        /\ \A u \in Tokens \ {t} : partial'[u] = partial[u] /\ ceremony'[u] = ceremony[u]
        /\ partial'[t] = partial[t] \/ ceremony'[t] = ceremony[t]
    BY <1>2, SetExCells DEF Minting, RedeemedOK
  <2>4. TokenOnce(t)'
    <3>1. TokenOnce(t)  BY <2>2 DEF RedeemedOK
    <3> QED  BY <2>1, <2>2, <2>3, <3>1
  <2>5. ASSUME NEW u \in Tokens \ {t}  PROVE TokenOnce(u)'
    <3>1. TokenOnce(u)  BY DEF RedeemedOK
    <3> QED  BY <2>1, <2>2, <2>3, <3>1
  <2> QED  BY <2>2, <2>3, <2>4, <2>5 DEF RedeemedOK
<1>3. ASSUME NEW p, NEW t, ClaimsGain(p, {t}), Popping(t)
      PROVE  RedeemedOK'
  <2>1. \A q \in Procs, u \in Tokens : Cm(q, u) => Cl(q, u) \/ (q = p /\ u = t)  BY <1>3 DEF ClaimsGain
  <2>2. t \in Tokens /\ Open(t) /\ minted' = minted /\ redeemed' = redeemed  BY <1>3 DEF Popping
  <2>3. TokenOnce(t)  BY <2>2 DEF RedeemedOK
  <2>4. /\ DOMAIN partial' = Tokens /\ DOMAIN ceremony' = Tokens
        /\ \A u \in Tokens \ {t} : partial'[u] = partial[u] /\ ceremony'[u] = ceremony[u]
        /\ partial'[t] = NoEntry /\ ceremony'[t] = NoEntry
    BY <1>3, <2>3, DelCells DEF Popping, RedeemedOK
  <2>5. TokenOnce(t)'
    BY <2>1, <2>2, <2>3, <2>4
  <2>6. ASSUME NEW u \in Tokens \ {t}  PROVE TokenOnce(u)'
    <3>1. TokenOnce(u)  BY DEF RedeemedOK
    <3> QED  BY <2>1, <2>2, <2>4, <3>1
  <2> QED  BY <2>2, <2>4, <2>5, <2>6 DEF RedeemedOK
<1>4. ASSUME NEW p \in Procs, NEW t \in Tokens, ClaimsGain(None, {}), Cl(p, t), ~Cm(p, t),
             redeemed' = [redeemed EXCEPT ![t] = @ + 1], UNCHANGED <<partial, ceremony, minted>>
      PROVE  RedeemedOK'
  <2>1. \A q \in Procs, u \in Tokens : Cm(q, u) => Cl(q, u)  BY <1>4 DEF ClaimsGain
  <2>2. TokenOnce(t)  BY DEF RedeemedOK
  <2>3. redeemed' \in [Tokens -> 0..1] /\ \A u \in Tokens \ {t} : redeemed'[u] = redeemed[u]
    BY <1>4, <2>2 DEF RedeemedOK
  <2>4. TokenOnce(t)'
    <3>1. t \in minted /\ ~Open(t) /\ \A q \in Procs : Cl(q, t) => q = p  BY <1>4, <2>2
    <3>2. \A q \in Procs : ~Cm(q, t)  BY <1>4, <2>1, <3>1
    <3> HIDE DEF Cm
    <3> QED  BY <1>4, <3>1, <3>2 DEF Cm
  <2>5. ASSUME NEW u \in Tokens \ {t}  PROVE TokenOnce(u)'
    <3>1. TokenOnce(u)  BY DEF RedeemedOK
    <3> QED  BY <1>4, <2>1, <2>3, <3>1
  <2> QED  BY <1>4, <2>3, <2>4, <2>5 DEF RedeemedOK
<1> QED  BY <1>1, <1>2, <1>3, <1>4, Zenon DEF RedeemMove

LEMMA TakesClaims ==
    ASSUME NEW p, NEW T, NEW S, Takes(p, T, S)
    PROVE  ClaimsGain(p, T)
BY Zenon DEF Takes, Gains, ClaimsGain

LEMMA NoClaims ==
    ASSUME NEW p, ClaimsGain(p, {})
    PROVE  ClaimsGain(None, {})
BY DEF ClaimsGain

LEMMA CalmClaims ==
    ASSUME Calm
    PROVE  ClaimsGain(None, {})
<1>1. Takes(None, {}, {})  BY CalmFalls, FallsTakes
<1> QED  BY <1>1, TakesClaims

LEMMA RedeemEffect ==
    ASSUME HeldOK, RedeemedOK, SignInNext
    PROVE  RedeemMove
<1> USE DEF stashes, signInVars, signInHistory
<1> DEFINE Same == UNCHANGED <<partial, ceremony, minted, redeemed>>
<1>1. ASSUME ClaimsGain(None, {}), Same  PROVE RedeemMove  BY <1>1, Zenon DEF RedeemMove
<1>2. ASSUME Manages
      PROVE  Same
  BY <1>2, Zenon DEF Manages, PasswordSet, PasswordTotpEnroll, TotpReenroll, RevokePwdTotp, AddKeyBegin, Logout,
     RevokeMySession, DeleteKey, Unlink
<1>3. ASSUME NEW p \in Procs, FactorStep(p)
      PROVE  Same
  BY <1>3, Zenon DEF FactorStep, RegenerateBegin, RegenerateDelete, RegenerateCommit, AddKeyInsert, AddKeyDone
<1>4. ASSUME NEW p \in Procs, GoesOn(p)
      PROVE  Same
  BY <1>4, Zenon DEF GoesOn, PasswordBegin, PasswordSudo, TotpSudo, TotpUpdate, RecoveryRedeem
<1>5. ASSUME NEW p \in Procs, Fails(p) \/ StepsUp(p)
      PROVE  Same
  BY <1>5, Zenon DEF Fails, StepsUp, PasswordFails, TotpFails, RecoveryFails, SudoByTotp, SudoByKey
<1>6. ASSUME NEW p \in Procs, NEW s, Withdraws(p, s)
      PROVE  Same
  BY <1>6, Zenon DEF Withdraws, SudoCompletePassword, SudoCompleteKey
<1>7. ASSUME Offers
      PROVE  Same \/ \E t : Minting(t)
  <2>1. ASSUME NEW s, NEW m, SudoBegin(s, m)  PROVE Same  BY <2>1, Zenon DEF SudoBegin
  <2>2. ASSUME NEW t \in Tokens, LoginBegin(t)
        PROVE  Minting(t)
    <3>1. t \notin minted /\ minted' = minted \cup {t} /\ UNCHANGED <<partial, redeemed>>
      BY <2>2, Zenon DEF LoginBegin
    <3>2. ceremony' = SetEx(ceremony, t, TRUE, CeremonyTTL, clock)  BY <2>2, Zenon DEF LoginBegin
    <3> QED  BY <3>1, <3>2, Zenon DEF Minting
  <2> QED  BY <1>7, <2>1, <2>2, Zenon DEF Offers
<1>8. ASSUME NEW p \in Procs, NEW t \in Tokens, PasswordCompletes(p, t)
      PROVE  Minting(t)
  <2>1. t \notin minted /\ minted' = minted \cup {t} /\ UNCHANGED <<ceremony, redeemed>>
    BY <1>8, Zenon DEF PasswordCompletes
  <2>2. partial' = SetEx(partial, t, loc[p].a, CeremonyTTL, clock)  BY <1>8, Zenon DEF PasswordCompletes
  <2> QED  BY <2>1, <2>2, Zenon DEF Minting
<1>9. ASSUME NEW p \in Procs, NEW t \in Tokens, Pops(p, t)
      PROVE  Popping(t)
  <2>1. UNCHANGED <<minted, redeemed>>
    BY <1>9, Zenon DEF Pops, TotpVerify, RecoveryVerify, LoginComplete
  <2>2. \/ Found(partial, t, clock) /\ partial' = Del(partial, t) /\ UNCHANGED ceremony
        \/ Found(ceremony, t, clock) /\ ceremony' = Del(ceremony, t) /\ UNCHANGED partial
    BY <1>9, Zenon DEF Pops, TotpVerify, RecoveryVerify, LoginComplete, PopPartial
  <2>3. clock \in Nat  BY DEF HeldOK, HoldersOK
  <2> QED  BY <2>1, <2>2, <2>3, FoundEntry, Zenon DEF Popping
<1>10. ASSUME NEW p \in Procs, SignsIn(p), ClaimsGain(None, {}), pc'[p] = "idle"
       PROVE  RedeemMove
  <2> DEFINE t == loc[p].tok
             Counted == redeemed' = [redeemed EXCEPT ![t] = @ + 1]
  <2>1. UNCHANGED <<partial, ceremony, minted>> /\ (Counted \/ UNCHANGED redeemed)
    BY <1>10, Zenon DEF SignsIn, TotpSignsIn, RecoverySignsIn, PasskeySignsIn, IssueUnlessLockedOut
  <2>2. \/ pc[p] = "rcDone" \/ (pc[p] \in {"totpDone", "keyUse"} /\ loc[p].op = "signin")
    BY <1>10, Zenon DEF SignsIn, TotpSignsIn, RecoverySignsIn, PasskeySignsIn
  <2>3. Claims(pc[p], loc[p], t)  BY <2>2 DEF Claims
  <2>4. ~Claims(pc'[p], loc'[p], t)  BY <1>10 DEF Claims
  <2> HIDE DEF t
  <2>5. CASE t \in Tokens /\ Counted  BY <1>10, <2>1, <2>3, <2>4, <2>5, Zenon DEF RedeemMove
  <2>6. CASE t \notin Tokens /\ Counted
    <3>1. redeemed' = redeemed  BY <2>6 DEF RedeemedOK
    <3> QED  BY <1>1, <1>10, <2>1, <3>1, Zenon
  <2>7. CASE UNCHANGED redeemed  BY <1>1, <1>10, <2>1, <2>7, Zenon
  <2> QED  BY <2>1, <2>5, <2>6, <2>7, Zenon
<1> HIDE DEF Same
<1>11. ASSUME NEW p \in Procs, NEW t \in Tokens, Pops(p, t)
       PROVE  RedeemMove
  <2>1. ClaimsGain(p, {t})  BY <1>11, SignInStakes, TakesClaims
  <2> QED  BY <1>9, <1>11, <2>1, Zenon DEF RedeemMove
<1>12. ASSUME NEW p \in Procs, (\E s \in Sids : Withdraws(p, s)) \/ GoesOn(p)
       PROVE  RedeemMove
  <2>1. ClaimsGain(p, {})  BY <1>12, SignInStakes, TakesClaims, Zenon
  <2> QED  BY <1>1, <1>4, <1>6, <1>12, <2>1, NoClaims, Zenon
<1>13. ASSUME NEW p \in Procs, Fails(p) \/ SignsIn(p) \/ StepsUp(p) \/ HalfWay(p) \/ FactorStep(p)
       PROVE  RedeemMove
  <2>1. ClaimsGain(None, {})  BY <1>13, SignInStakes, CalmClaims, Zenon
  <2>2. SignsIn(p) => pc'[p] = "idle"  BY SignInStakes, Zenon
  <2>3. HalfWay(p) => \E t : Minting(t)  BY <1>8, Zenon DEF HalfWay
  <2> QED  BY <1>1, <1>3, <1>5, <1>10, <1>13, <2>1, <2>2, <2>3, Zenon DEF RedeemMove
<1>14. ASSUME Manages \/ Offers
       PROVE  RedeemMove
  <2>1. ClaimsGain(None, {})  BY <1>14, ManagesCalm, CalmClaims
  <2> QED  BY <1>1, <1>2, <1>7, <1>14, <2>1, Zenon DEF RedeemMove
<1> QED  BY <1>11, <1>12, <1>13, <1>14, SignInKinds, Zenon

-----------------------------------------------------------------------------
(* Sudo intents                                                              *)

\* Every intent stored and every request that pledges one it withdrew is still owed.
Pledgers(s) == {p \in Procs : Pledges(pc[p], loc[p], s)}
Stored(s) == IF intent[s] # NoEntry THEN 1 ELSE 0
OwedOK ==
    /\ DOMAIN intent = Sids /\ owed \in [Sids -> Nat]
    /\ \A s \in Sids : Cardinality(Pledgers(s)) + Stored(s) <= owed[s]

PledgesGain(p, S) == \A s : Pledgers(s)' \subseteq IF s \in S THEN Pledgers(s) \cup {p} ELSE Pledgers(s)

\* Store an intent, withdraw it, grant what it is for.
Storing(s) ==
    /\ s \in Sids /\ \E v, ttl : intent' = SetEx(intent, s, v, ttl, clock)
    /\ owed' = [owed EXCEPT ![s] = @ + 1]
Granting(p, s) ==
    /\ p \in Pledgers(s) /\ p \notin Pledgers(s)' /\ UNCHANGED intent
    /\ owed' = [owed EXCEPT ![s] = @ - 1]
OwedMove ==
    \/ PledgesGain(None, {}) /\ UNCHANGED <<intent, owed>>
    \/ PledgesGain(None, {}) /\ \E s : Storing(s)
    \/ \E p, s : PledgesGain(p, {s}) /\ s \in Sids /\ intent[s] # NoEntry /\ intent' = Del(intent, s) /\ UNCHANGED owed
    \/ PledgesGain(None, {}) /\ \E p, s : Granting(p, s)

LEMMA OneMore ==
    ASSUME NEW R, IsFiniteSet(R), NEW x
    PROVE  IsFiniteSet(R \cup {x}) /\ Cardinality(R \cup {x}) \in Nat /\ Cardinality(R \cup {x}) <= Cardinality(R) + 1
<1>1. Cardinality(R) \in Nat  BY FS_CardinalityType
<1>2. Cardinality(R \cup {x}) = IF x \in R THEN Cardinality(R) ELSE Cardinality(R) + 1  BY FS_AddElement
<1>3. IsFiniteSet(R \cup {x})  BY FS_AddElement
<1> QED  BY <1>1, <1>2, <1>3

LEMMA PledgersFinite ==
    ASSUME NEW s
    PROVE  IsFiniteSet(Pledgers(s)) /\ Cardinality(Pledgers(s)) \in Nat
<1>1. IsFiniteSet(Procs)  BY LimitsAssumption
<1>2. Pledgers(s) \subseteq Procs  BY DEF Pledgers
<1> QED  BY <1>1, <1>2, FS_Subset, FS_CardinalityType

LEMMA OwedMoved ==
    ASSUME OwedOK, OwedMove
    PROVE  OwedOK'
<1> DEFINE Debt(s) == Cardinality(Pledgers(s)) + Stored(s) <= owed[s]
<1>0. \A s \in Sids : Debt(s) /\ Cardinality(Pledgers(s)) \in Nat  BY PledgersFinite DEF OwedOK
<1>1. ASSUME NEW s, Pledgers(s)' \subseteq Pledgers(s)
      PROVE  Cardinality(Pledgers(s)') \in Nat /\ Cardinality(Pledgers(s)') <= Cardinality(Pledgers(s))
  BY <1>1, PledgersFinite, FS_Subset, FS_CardinalityType
<1>2. ASSUME PledgesGain(None, {}), NEW s  PROVE Pledgers(s)' \subseteq Pledgers(s)
  BY <1>2, Zenon DEF PledgesGain
<1>3. CASE PledgesGain(None, {}) /\ UNCHANGED <<intent, owed>>
  <2>1. \A s \in Sids : Debt(s)'  BY <1>0, <1>1, <1>2, <1>3 DEF OwedOK, Stored
  <2> QED  BY <1>3, <2>1 DEF OwedOK
<1>4. ASSUME PledgesGain(None, {}), NEW s, Storing(s)
      PROVE  OwedOK'
  <2>1. s \in Sids /\ owed' \in [Sids -> Nat] /\ owed'[s] = owed[s] + 1
        /\ \A r \in Sids \ {s} : owed'[r] = owed[r]
    BY <1>4 DEF Storing, OwedOK
  <2>2. DOMAIN intent' = Sids /\ \A r \in Sids \ {s} : intent'[r] = intent[r]
    BY <1>4, SetExCells DEF Storing, OwedOK
  <2>3. \A r \in Sids : Debt(r)'  BY <1>0, <1>1, <1>2, <1>4, <2>1, <2>2 DEF OwedOK, Stored
  <2> QED  BY <2>1, <2>2, <2>3 DEF OwedOK
<1>5. ASSUME NEW p, NEW s \in Sids, PledgesGain(p, {s}), intent[s] # NoEntry, intent' = Del(intent, s), UNCHANGED owed
      PROVE  OwedOK'
  <2>1. DOMAIN intent' = Sids /\ intent'[s] = NoEntry /\ \A r \in Sids \ {s} : intent'[r] = intent[r]
    BY <1>5, DelCells DEF OwedOK
  <2>2. Debt(s)'
    <3> DEFINE Q == Pledgers(s) \cup {p}
    <3>1. IsFiniteSet(Q) /\ Cardinality(Q) \in Nat /\ Cardinality(Q) <= Cardinality(Pledgers(s)) + 1
      BY PledgersFinite, OneMore
    <3>2. Pledgers(s)' \subseteq Q  BY <1>5 DEF PledgesGain
    <3>3. Cardinality(Pledgers(s)') \in Nat /\ Cardinality(Pledgers(s)') <= Cardinality(Q)
      BY <3>1, <3>2, FS_Subset, FS_CardinalityType
    <3>4. Stored(s) = 1 /\ Stored(s)' = 0  BY <1>5, <2>1 DEF Stored
    <3>5. owed[s] \in Nat /\ owed'[s] = owed[s]  BY <1>5 DEF OwedOK
    <3> HIDE DEF Q
    <3> QED  BY <1>0, <3>1, <3>3, <3>4, <3>5
  <2>3. ASSUME NEW r \in Sids \ {s}  PROVE Debt(r)'
    <3>1. Pledgers(r)' \subseteq Pledgers(r)  BY <1>5 DEF PledgesGain
    <3> QED  BY <1>0, <1>1, <1>5, <2>1, <3>1 DEF OwedOK, Stored
  <2>4. \A r \in Sids : Debt(r)'  BY <2>2, <2>3
  <2> QED  BY <1>5, <2>1, <2>4 DEF OwedOK
<1>6. ASSUME PledgesGain(None, {}), NEW p, NEW s, Granting(p, s)
      PROVE  OwedOK'
  <2>1. ASSUME NEW r \in Sids \ {s}  PROVE Debt(r)' /\ owed'[r] \in Nat
    <3>1. owed'[r] = owed[r] /\ intent' = intent  BY <1>6 DEF Granting, OwedOK
    <3> QED  BY <1>0, <1>1, <1>2, <1>6, <3>1 DEF OwedOK, Stored
  <2>2. ASSUME s \in Sids  PROVE Debt(s)' /\ owed'[s] \in Nat
    <3>1. owed'[s] = owed[s] - 1 /\ intent' = intent  BY <1>6, <2>2 DEF Granting, OwedOK
    <3> DEFINE Q == Pledgers(s) \ {p}
    <3>2. IsFiniteSet(Q) /\ Cardinality(Q) = Cardinality(Pledgers(s)) - 1 /\ Cardinality(Q) \in Nat
      BY <1>6, PledgersFinite, FS_RemoveElement, FS_CardinalityType DEF Granting
    <3>3. Pledgers(s)' \subseteq Q  BY <1>2, <1>6 DEF Granting
    <3>4. Cardinality(Pledgers(s)') \in Nat /\ Cardinality(Pledgers(s)') <= Cardinality(Q)
      BY <3>2, <3>3, FS_Subset, FS_CardinalityType
    <3>5. owed[s] \in Nat /\ Stored(s) \in Nat /\ Stored(s)' = Stored(s)  BY <2>2, <3>1 DEF OwedOK, Stored
    <3> HIDE DEF Q
    <3> QED  BY <1>0, <2>2, <3>1, <3>2, <3>4, <3>5
  <2>3. DOMAIN intent' = Sids /\ DOMAIN owed' = Sids  BY <1>6 DEF Granting, OwedOK
  <2>4. \A r \in Sids : Debt(r)' /\ owed'[r] \in Nat  BY <2>1, <2>2
  <2>5. owed' \in [Sids -> Nat]
    <3>1. owed' = [r \in Sids |-> owed'[r]]  BY <1>6 DEF Granting, OwedOK
    <3> QED  BY <2>4, <3>1
  <2> QED  BY <2>3, <2>4, <2>5 DEF OwedOK
<1> QED  BY <1>3, <1>4, <1>5, <1>6, Zenon DEF OwedMove

LEMMA TakesPledges ==
    ASSUME NEW p, NEW T, NEW S, Takes(p, T, S)
    PROVE  PledgesGain(p, S)
<1>1. \A q \in Procs : \A s : Pledges(pc'[q], loc'[q], s) => Pledges(pc[q], loc[q], s) \/ (q = p /\ s \in S)
  BY Zenon DEF Takes, Gains
<1> QED  BY <1>1 DEF PledgesGain, Pledgers

LEMMA CalmPledges ==
    ASSUME Calm
    PROVE  PledgesGain(None, {})
<1>1. Takes(None, {}, {})  BY CalmFalls, FallsTakes
<1> QED  BY <1>1, TakesPledges

LEMMA NoPledges ==
    ASSUME NEW p, PledgesGain(p, {})
    PROVE  PledgesGain(None, {})
BY DEF PledgesGain

LEMMA OwedEffect ==
    ASSUME HeldOK, SignInNext
    PROVE  OwedMove
<1> USE DEF stashes, signInVars, signInHistory
<1> DEFINE Same == UNCHANGED <<intent, owed>>
<1>1. ASSUME PledgesGain(None, {}), Same  PROVE OwedMove  BY <1>1, Zenon DEF OwedMove
<1>2. ASSUME Manages
      PROVE  Same
  BY <1>2, Zenon DEF Manages, PasswordSet, PasswordTotpEnroll, TotpReenroll, RevokePwdTotp, AddKeyBegin, Logout,
     RevokeMySession, DeleteKey, Unlink
<1>3. ASSUME NEW p \in Procs, FactorStep(p) \/ HalfWay(p)
      PROVE  Same
  BY <1>3, Zenon DEF FactorStep, RegenerateBegin, RegenerateDelete, RegenerateCommit, AddKeyInsert, AddKeyDone,
     HalfWay, PasswordCompletes
<1>4. ASSUME NEW p \in Procs, GoesOn(p)
      PROVE  Same
  BY <1>4, Zenon DEF GoesOn, PasswordBegin, PasswordSudo, TotpSudo, TotpUpdate, RecoveryRedeem
<1>5. ASSUME NEW p \in Procs, Fails(p) \/ SignsIn(p)
      PROVE  Same
  BY <1>5, Zenon DEF Fails, SignsIn, PasswordFails, TotpFails, RecoveryFails, TotpSignsIn, RecoverySignsIn, PasskeySignsIn
<1>6. ASSUME NEW p \in Procs, NEW t, Pops(p, t)
      PROVE  Same
  BY <1>6, Zenon DEF Pops, TotpVerify, RecoveryVerify, LoginComplete
<1>7. ASSUME Offers
      PROVE  Same \/ \E s : Storing(s)
  <2>1. ASSUME NEW t, LoginBegin(t)  PROVE Same  BY <2>1, Zenon DEF LoginBegin
  <2>2. ASSUME NEW s \in Sids, NEW m, SudoBegin(s, m)
        PROVE  Storing(s)
    <3>1. intent' = SetEx(intent, s, m, CeremonyTTL, clock) /\ owed' = [owed EXCEPT ![s] = @ + 1]
      BY <2>2, Zenon DEF SudoBegin
    <3> QED  BY <3>1, Zenon DEF Storing
  <2> QED  BY <1>7, <2>1, <2>2, Zenon DEF Offers
<1>8. ASSUME NEW p \in Procs, NEW s \in Sids, Withdraws(p, s)
      PROVE  intent[s] # NoEntry /\ intent' = Del(intent, s) /\ UNCHANGED owed
  <2>1. Found(intent, s, clock) /\ intent' = Del(intent, s) /\ UNCHANGED owed
    BY <1>8, Zenon DEF Withdraws, SudoCompletePassword, SudoCompleteKey, PopIntent
  <2>2. clock \in Nat  BY DEF HeldOK, HoldersOK
  <2> QED  BY <2>1, <2>2, FoundEntry
<1>9. ASSUME NEW p \in Procs, StepsUp(p), pc'[p] = "idle"
      PROVE  Same \/ \E s : Granting(p, s)
  <2>0. PICK s : s = loc[p].s  OBVIOUS
  <2>1. UNCHANGED intent /\ (owed' = [owed EXCEPT ![s] = @ - 1] \/ UNCHANGED owed)
    BY <1>9, <2>0, Zenon DEF StepsUp, SudoByTotp, SudoByKey, SudoGrant
  <2>2. pc[p] \in {"totpDone", "keyUse"} /\ loc[p].op = "sudo"
    BY <1>9, Zenon DEF StepsUp, SudoByTotp, SudoByKey
  <2>3. p \in Pledgers(s) /\ p \notin Pledgers(s)'  BY <1>9, <2>0, <2>2 DEF Pledgers, Pledges
  <2> QED  BY <2>1, <2>3, Zenon DEF Granting
<1> HIDE DEF Same
<1>10. ASSUME NEW p \in Procs, NEW s \in Sids, Withdraws(p, s)
       PROVE  OwedMove
  <2>1. PledgesGain(p, {s})  BY <1>10, SignInStakes, TakesPledges
  <2> QED  BY <1>8, <1>10, <2>1, Zenon DEF OwedMove
<1>11. ASSUME NEW p \in Procs, (\E t \in Tokens : Pops(p, t)) \/ GoesOn(p)
       PROVE  OwedMove
  <2>1. PledgesGain(p, {})  BY <1>11, SignInStakes, TakesPledges, Zenon
  <2> QED  BY <1>1, <1>4, <1>6, <1>11, <2>1, NoPledges, Zenon
<1>12. ASSUME NEW p \in Procs, Fails(p) \/ SignsIn(p) \/ StepsUp(p) \/ HalfWay(p) \/ FactorStep(p)
       PROVE  OwedMove
  <2>1. PledgesGain(None, {})  BY <1>12, SignInStakes, CalmPledges, Zenon
  <2>2. StepsUp(p) => pc'[p] = "idle"  BY SignInStakes, Zenon
  <2> QED  BY <1>1, <1>3, <1>5, <1>9, <1>12, <2>1, <2>2, Zenon DEF OwedMove
<1>13. ASSUME Manages \/ Offers
       PROVE  OwedMove
  <2>1. PledgesGain(None, {})  BY <1>13, ManagesCalm, CalmPledges
  <2> QED  BY <1>1, <1>2, <1>7, <1>13, <2>1, Zenon DEF OwedMove
<1> QED  BY <1>10, <1>11, <1>12, <1>13, SignInKinds, Zenon

-----------------------------------------------------------------------------
(* Codes of authenticators, and recovery codes                               *)

\* A code the current authenticator accepted is not of a later step than the last.
UsesOK ==
    /\ totp \in [Accounts -> [sec : Nat, last : Nat]] /\ uses \in [Accounts -> [Codes -> 0..1]]
    /\ \A a \in Accounts, c \in Codes : totp[a].sec # 0 /\ uses[a][c] # 0 => c.step <= totp[a].last

\* A recovery code that is there is not spent, nor one that was never issued; it is
\* there for one account.
CodesOK ==
    /\ codes = [a \in Accounts |-> codes[a]] /\ nextCode \in Nat /\ spent \in [1..MaxCode -> 0..1]
    /\ \A a \in Accounts : \A c \in codes[a] :
         /\ c \in Nat /\ c < nextCode /\ (c \in 1..MaxCode => spent[c] = 0)
         /\ \A b \in Accounts : c \in codes[b] => b = a
    /\ \A c \in 1..MaxCode : c >= nextCode => spent[c] = 0

UsesMove ==
    \/ UNCHANGED <<totp, uses>>
    \/ \E a \in Accounts, c \in Codes :
         /\ LastStepMoves(a, c.step) /\ totp' = [totp EXCEPT ![a].last = c.step]
         /\ uses' = [uses EXCEPT ![a][c] = @ + 1]
    \/ \E a \in Accounts, sec, last \in Nat :
         /\ totp' = [totp EXCEPT ![a] = [sec |-> sec, last |-> last]]
         /\ uses' = [uses EXCEPT ![a] = [x \in Codes |-> 0]]
    \/ \E a : totp' = [totp EXCEPT ![a] = NoTotp] /\ UNCHANGED uses

CodesMove ==
    \/ UNCHANGED <<codes, spent>> /\ nextCode' \in {nextCode, nextCode + 1}
    \/ \E a \in Accounts : \E S :
         /\ S \subseteq codes[a] \cup {nextCode} /\ codes' = [codes EXCEPT ![a] = S]
         /\ \/ nextCode' = nextCode /\ nextCode \notin S
            \/ nextCode' = nextCode + 1
         /\ \/ UNCHANGED spent
            \/ \E c \in codes[a] \ S : spent' = [spent EXCEPT ![c] = @ + 1]

LEMMA CodeTypes ==
    ASSUME NEW c \in Codes
    PROVE  c.sec \in Nat /\ c.step \in Nat
BY DEF Codes, Secrets, Steps, NoCode

LEMMA UsesMoved ==
    ASSUME UsesOK, UsesMove
    PROVE  UsesOK'
<1> DEFINE Rows == [sec : Nat, last : Nat]
<1>1. CASE UNCHANGED <<totp, uses>>  BY <1>1 DEF UsesOK
<1>2. ASSUME NEW a \in Accounts, NEW c \in Codes, LastStepMoves(a, c.step),
             totp' = [totp EXCEPT ![a].last = c.step], uses' = [uses EXCEPT ![a][c] = @ + 1]
      PROVE  UsesOK'
  <2>1. c.step \in Nat  BY CodeTypes
  <2>2. uses[a][c] = 0  BY <1>2, <2>1 DEF UsesOK, LastStepMoves
  <2>3. totp' \in [Accounts -> Rows]  BY <1>2, <2>1 DEF UsesOK
  <2>4. uses' \in [Accounts -> [Codes -> 0..1]]  BY <1>2, <2>2 DEF UsesOK
  <2>5. ASSUME NEW b \in Accounts, NEW d \in Codes, totp'[b].sec # 0, uses'[b][d] # 0
        PROVE  d.step <= totp'[b].last
    <3>1. CASE b # a
      <4>1. totp'[b] = totp[b] /\ uses'[b] = uses[b]  BY <1>2, <3>1 DEF UsesOK
      <4> QED  BY <2>5, <4>1 DEF UsesOK
    <3>2. CASE b = a
      <4>1. totp'[a].sec = totp[a].sec /\ totp'[a].last = c.step /\ totp[a].last \in Nat /\ totp[a].last < c.step
        BY <1>2, <2>1 DEF UsesOK, LastStepMoves
      <4>2. d # c => uses'[a][d] = uses[a][d]  BY <1>2 DEF UsesOK
      <4>3. d.step \in Nat  BY CodeTypes
      <4>4. d # c => d.step <= totp[a].last  BY <2>5, <3>2, <4>1, <4>2 DEF UsesOK
      <4> QED  BY <2>1, <3>2, <4>1, <4>3, <4>4
    <3> QED  BY <3>1, <3>2
  <2> QED  BY <2>3, <2>4, <2>5 DEF UsesOK
<1>3. ASSUME NEW a \in Accounts, NEW sec \in Nat, NEW last \in Nat,
             totp' = [totp EXCEPT ![a] = [sec |-> sec, last |-> last]],
             uses' = [uses EXCEPT ![a] = [x \in Codes |-> 0]]
      PROVE  UsesOK'
  <2>1. totp' \in [Accounts -> Rows] /\ uses' \in [Accounts -> [Codes -> 0..1]]  BY <1>3 DEF UsesOK
  <2>2. \A b \in Accounts \ {a} : totp'[b] = totp[b] /\ uses'[b] = uses[b]  BY <1>3 DEF UsesOK
  <2>3. \A d \in Codes : uses'[a][d] = 0  BY <1>3 DEF UsesOK
  <2> QED  BY <2>1, <2>2, <2>3 DEF UsesOK
<1>4. ASSUME NEW a, totp' = [totp EXCEPT ![a] = NoTotp], UNCHANGED uses
      PROVE  UsesOK'
  <2>1. totp' \in [Accounts -> Rows]  BY <1>4 DEF UsesOK, NoTotp
  <2>2. \A b \in Accounts : totp'[b] = totp[b] \/ totp'[b].sec = 0  BY <1>4 DEF UsesOK, NoTotp
  <2> QED  BY <1>4, <2>1, <2>2 DEF UsesOK
<1> QED  BY <1>1, <1>2, <1>3, <1>4, Zenon DEF UsesMove

LEMMA CodesMoved ==
    ASSUME CodesOK, CodesMove
    PROVE  CodesOK'
<1>0. nextCode \in Nat /\ spent \in [1..MaxCode -> 0..1] /\ codes = [a \in Accounts |-> codes[a]]  BY DEF CodesOK
<1>1. CASE UNCHANGED <<codes, spent>> /\ nextCode' \in {nextCode, nextCode + 1}
  BY <1>1 DEF CodesOK
<1>2. ASSUME NEW a \in Accounts, NEW S, S \subseteq codes[a] \cup {nextCode}, codes' = [codes EXCEPT ![a] = S],
             \/ nextCode' = nextCode /\ nextCode \notin S
             \/ nextCode' = nextCode + 1,
             \/ UNCHANGED spent
             \/ \E c \in codes[a] \ S : spent' = [spent EXCEPT ![c] = @ + 1]
      PROVE  CodesOK'
  <2>1. codes' = [b \in Accounts |-> codes'[b]] /\ codes'[a] = S /\ \A b \in Accounts \ {a} : codes'[b] = codes[b]
    BY <1>0, <1>2
  <2>2. nextCode' \in Nat /\ nextCode' >= nextCode /\ (nextCode \in S => nextCode < nextCode')  BY <1>0, <1>2
  <2>3. PICK G : G \subseteq codes[a] \ S /\ (\A c \in 1..MaxCode : c \notin G => spent'[c] = spent[c])
                 /\ spent' \in [1..MaxCode -> 0..1]
    <3>1. CASE UNCHANGED spent  BY <1>0, <3>1
    <3>2. ASSUME NEW c \in codes[a] \ S, spent' = [spent EXCEPT ![c] = @ + 1]
          PROVE  {c} \subseteq codes[a] \ S /\ (\A d \in 1..MaxCode : d \notin {c} => spent'[d] = spent[d])
                 /\ spent' \in [1..MaxCode -> 0..1]
      <4>1. c \in 1..MaxCode => spent[c] = 0  BY DEF CodesOK
      <4>2. CASE c \in 1..MaxCode
        <5>1. spent[c] + 1 \in 0..1  BY <4>1, <4>2
        <5> QED  BY <1>0, <3>2, <5>1
      <4>3. CASE c \notin 1..MaxCode
        <5>1. spent' = spent  BY <1>0, <3>2, <4>3
        <5> QED  BY <1>0, <5>1
      <4> QED  BY <4>2, <4>3
    <3> QED  BY <1>2, <3>1, <3>2
  <2>4. \A b \in Accounts, c \in G : c \notin codes'[b] /\ c < nextCode /\ c \in Nat  BY <2>1, <2>3 DEF CodesOK
  <2>5. \A c \in 1..MaxCode : c >= nextCode' => spent'[c] = 0
    <3>1. ASSUME NEW c \in 1..MaxCode, c >= nextCode'  PROVE spent'[c] = 0
      <4>1. c >= nextCode /\ c \notin G  BY <1>0, <2>2, <2>4, <3>1
      <4> QED  BY <2>3, <4>1 DEF CodesOK
    <3> QED  BY <3>1
  <2>6. ASSUME NEW b \in Accounts, NEW c \in codes'[b]
        PROVE  /\ c \in Nat /\ c < nextCode' /\ (c \in 1..MaxCode => spent'[c] = 0)
               /\ \A d \in Accounts : c \in codes'[d] => d = b
    <3>1. CASE c = nextCode
      <4>1. \A d \in Accounts : c \in codes'[d] => d = a  BY <1>0, <2>1, <3>1 DEF CodesOK
      <4>2. c \in S  BY <2>1, <2>6, <4>1
      <4>3. c \in 1..MaxCode => spent'[c] = 0  BY <1>0, <2>3, <2>4, <3>1 DEF CodesOK
      <4> QED  BY <1>0, <2>2, <2>6, <3>1, <4>1, <4>2, <4>3
    <3>2. CASE c # nextCode
      <4>1. \A d \in Accounts : c \in codes'[d] => c \in codes[d]  BY <1>2, <2>1, <3>2
      <4>2. /\ c \in Nat /\ c < nextCode /\ (c \in 1..MaxCode => spent[c] = 0)
            /\ \A d \in Accounts : c \in codes[d] => d = b
        BY <2>6, <4>1 DEF CodesOK
      <4>3. c \notin G  BY <2>4, <2>6
      <4> QED  BY <1>0, <2>2, <2>3, <4>1, <4>2, <4>3
    <3> QED  BY <3>1, <3>2
  <2> QED  BY <2>1, <2>2, <2>3, <2>5, <2>6 DEF CodesOK
<1> QED  BY <1>1, <1>2, Zenon DEF CodesMove

LEMMA NewAuthenticatorMoves ==
    ASSUME NEW a \in Accounts, NEW c \in Codes, NewAuthenticator(a, c), UNCHANGED spent
    PROVE  UsesMove /\ CodesMove
<1>1. c.sec \in Nat /\ c.step \in Nat  BY CodeTypes
<1>2. UsesMove  BY <1>1, Zenon DEF NewAuthenticator, EnrollConfirmed, UsesMove
<1> DEFINE S == {nextCode}
<1>3. S \subseteq codes[a] \cup {nextCode}  OBVIOUS
<1>4. codes' = [codes EXCEPT ![a] = S] /\ nextCode' = nextCode + 1  BY Zenon DEF NewAuthenticator, EnrollConfirmed
<1> HIDE DEF S
<1> QED  BY <1>2, <1>3, <1>4, Zenon DEF CodesMove

\* The factors go with nothing in their place.
LEMMA FactorsGo ==
    ASSUME CodesOK, NEW a \in Accounts, totp' = [totp EXCEPT ![a] = NoTotp], codes' = [codes EXCEPT ![a] = {}],
           UNCHANGED <<uses, nextCode, spent>>
    PROVE  UsesMove /\ CodesMove
<1>1. UsesMove  BY Zenon DEF UsesMove
<1> DEFINE S == {}
<1>2. S \subseteq codes[a] \cup {nextCode} /\ nextCode \notin S  OBVIOUS
<1>3. codes' = [codes EXCEPT ![a] = S]  OBVIOUS
<1> HIDE DEF S
<1> QED  BY <1>1, <1>2, <1>3, Zenon DEF CodesMove

LEMMA RedeemCodeMoves ==
    ASSUME HeldOK, CodesOK, NEW p \in Procs, RecoveryRedeem(p)
    PROVE  UsesMove /\ CodesMove
<1>0. PICK a, c, rc : a = loc[p].a /\ c = loc[p].code /\ rc = loc[p].rc  OBVIOUS
<1>1. pc[p] = "rcTx" /\ rc \in codes[a] /\ spent' = [spent EXCEPT ![rc] = @ + 1]
  BY <1>0, Zenon DEF RecoveryRedeem, CodeUnused
<1>2. a \in Accounts /\ c \in Codes  BY <1>0, <1>1 DEF HeldOK, FrameOK, Holder, Acting, Coding
<1>3. \/ codes' = [codes EXCEPT ![a] = @ \ {rc}] /\ UNCHANGED <<totp, nextCode, uses>>
      \/ EnrollConfirmed(a, c.sec, c.step) /\ uses' = [uses EXCEPT ![a] = [x \in Codes |-> 0]]
  BY <1>0, Zenon DEF RecoveryRedeem
<1>4. nextCode \in Nat /\ (\A x \in codes[a] : x < nextCode /\ x \in Nat)  BY <1>2 DEF CodesOK
<1>5. CASE codes' = [codes EXCEPT ![a] = @ \ {rc}] /\ UNCHANGED <<totp, nextCode, uses>>
  <2>1. PICK S : S = codes[a] \ {rc}  OBVIOUS
  <2>2. S \subseteq codes[a] \cup {nextCode} /\ nextCode \notin S /\ rc \in codes[a] \ S  BY <1>1, <1>4, <2>1
  <2>3. codes' = [codes EXCEPT ![a] = S]  BY <1>5, <2>1
  <2> QED  BY <1>1, <1>2, <1>5, <2>2, <2>3, Zenon DEF UsesMove, CodesMove
<1>6. CASE EnrollConfirmed(a, c.sec, c.step) /\ uses' = [uses EXCEPT ![a] = [x \in Codes |-> 0]]
  <2>1. c.sec \in Nat /\ c.step \in Nat  BY <1>2, CodeTypes
  <2>2. UsesMove  BY <1>2, <1>6, <2>1, Zenon DEF EnrollConfirmed, UsesMove
  <2>3. PICK S : S = {nextCode}  OBVIOUS
  <2>4. S \subseteq codes[a] \cup {nextCode} /\ rc \in codes[a] \ S  BY <1>1, <1>4, <2>3
  <2>5. codes' = [codes EXCEPT ![a] = S] /\ nextCode' = nextCode + 1  BY <1>6, <2>3, Zenon DEF EnrollConfirmed
  <2> QED  BY <1>1, <1>2, <2>2, <2>4, <2>5, Zenon DEF CodesMove
<1> QED  BY <1>3, <1>5, <1>6

LEMMA SignInFactors ==
    ASSUME HeldOK, CodesOK, SignInNext
    PROVE  UsesMove /\ CodesMove
<1> USE DEF tables, factors, stashes, signInVars, signInHistory, directory
<1> DEFINE Same == UNCHANGED <<totp, uses, codes, nextCode, spent>>
           Both == UsesMove /\ CodesMove
<1>1. ASSUME Same  PROVE Both  BY <1>1, Zenon DEF UsesMove, CodesMove
<1>2. ASSUME NEW p \in Procs, NEW t, Pops(p, t)
      PROVE  Same
  BY <1>2, Zenon DEF Pops, TotpVerify, RecoveryVerify, LoginComplete
<1>3. ASSUME NEW p \in Procs, NEW s, Withdraws(p, s)
      PROVE  Same
  BY <1>3, Zenon DEF Withdraws, SudoCompletePassword, SudoCompleteKey
<1>4. ASSUME NEW p \in Procs, SignsIn(p) \/ StepsUp(p)
      PROVE  Same
  BY <1>4, Zenon DEF SignsIn, StepsUp, TotpSignsIn, RecoverySignsIn, PasskeySignsIn, SudoByTotp, SudoByKey
<1>5. ASSUME NEW p \in Procs, Fails(p) \/ HalfWay(p)
      PROVE  Same
  BY <1>5, Zenon DEF Fails, HalfWay, PasswordFails, TotpFails, RecoveryFails, PasswordCompletes, PasswordVerified
<1>6. ASSUME Offers  PROVE Same  BY <1>6, Zenon DEF Offers, LoginBegin, SudoBegin
<1>7. ASSUME NEW p \in Procs, TotpUpdate(p)
      PROVE  Both
  <2>1. loc[p].a \in Accounts /\ loc[p].code \in Codes
    BY <1>7 DEF TotpUpdate, HeldOK, FrameOK, Holder, Acting, Coding
  <2>2. UsesMove  BY <1>7, <2>1, Zenon DEF TotpUpdate, UsesMove
  <2>3. CodesMove  BY <1>7, Zenon DEF TotpUpdate, CodesMove
  <2> QED  BY <2>2, <2>3
<1>8. ASSUME NEW p \in Procs, GoesOn(p)
      PROVE  Both
  <2>1. ASSUME (\E a \in Accounts, v \in Passwords : PasswordBegin(p, a, v)) \/ PasswordSudo(p) \/ TotpSudo(p)
        PROVE  Same
    BY <2>1, Zenon DEF PasswordBegin, PasswordSudo, PasswordVerified, TotpSudo
  <2> HIDE DEF Same
  <2> QED  BY <1>1, <1>7, <1>8, <2>1, RedeemCodeMoves, Zenon DEF GoesOn
<1>9. ASSUME NEW p \in Procs, FactorStep(p)
      PROVE  Both
  <2>1. ASSUME \/ \E s \in Sids : RegenerateBegin(p, s) \/ \E k \in Creds : AddKeyInsert(p, s, k)
               \/ RegenerateDelete(p) \/ AddKeyDone(p)
        PROVE  Same
    BY <2>1, Zenon DEF RegenerateBegin, AddKeyInsert, RegenerateDelete, AddKeyDone
  <2>2. ASSUME RegenerateCommit(p)
        PROVE  Both
    <3>0. PICK a : a = loc[p].a  OBVIOUS
    <3>1. /\ codes' = [codes EXCEPT ![a] = (@ \ loc[p].seen) \cup {nextCode}] /\ nextCode' = nextCode + 1
          /\ UNCHANGED <<totp, uses, spent>>
      BY <2>2, <3>0, Zenon DEF RegenerateCommit
    <3>2. CASE a \in Accounts
      <4>1. PICK S : S = (codes[a] \ loc[p].seen) \cup {nextCode}  OBVIOUS
      <4>2. S \subseteq codes[a] \cup {nextCode} /\ codes' = [codes EXCEPT ![a] = S]  BY <3>1, <4>1
      <4> QED  BY <3>1, <3>2, <4>2, Zenon DEF UsesMove, CodesMove
    <3>3. CASE a \notin Accounts
      <4>1. codes' = codes  BY <3>1, <3>3 DEF CodesOK
      <4> QED  BY <3>1, <4>1 DEF UsesMove, CodesMove
    <3> QED  BY <3>2, <3>3
  <2> HIDE DEF Same
  <2> QED  BY <1>1, <1>9, <2>1, <2>2, Zenon DEF FactorStep
<1>10. ASSUME Manages
       PROVE  Both
  <2>1. ASSUME \/ \E s \in Sids, v \in Passwords : PasswordSet(s, v)
               \/ \E s \in Sids : AddKeyBegin(s) \/ Logout(s)
               \/ \E s, t \in Sids : RevokeMySession(s, t)
               \/ \E s \in Sids, k \in Creds : DeleteKey(s, k)
               \/ \E s \in Sids, l \in links : Unlink(s, l)
        PROVE  Same
    BY <2>1, Zenon DEF PasswordSet, AddKeyBegin, Logout, RevokeMySession, DeleteKey, Unlink
  <2>2. ASSUME NEW s \in Sids, Caller(s)  PROVE sess[s].a \in Accounts  BY <2>2, Callers DEF Caller, HeldOK
  <2>3. ASSUME NEW s \in Sids, NEW v, NEW c \in Codes, PasswordTotpEnroll(s, v, c) \/ TotpReenroll(s, c)
        PROVE  Both
    <3>1. Caller(s) /\ NewAuthenticator(sess[s].a, c) /\ UNCHANGED spent
      BY <2>3, Zenon DEF PasswordTotpEnroll, TotpReenroll, Me
    <3> QED  BY <2>2, <3>1, NewAuthenticatorMoves
  <2>4. ASSUME NEW s \in Sids, RevokePwdTotp(s)
        PROVE  Both
    <3>0. PICK a : a = sess[s].a  OBVIOUS
    <3>1. /\ Caller(s) /\ totp' = [totp EXCEPT ![a] = NoTotp] /\ codes' = [codes EXCEPT ![a] = {}]
          /\ UNCHANGED <<uses, nextCode, spent>>
      BY <2>4, <3>0, Zenon DEF RevokePwdTotp, Me
    <3> QED  BY <2>2, <3>0, <3>1, FactorsGo
  <2> HIDE DEF Same
  <2> QED  BY <1>1, <1>10, <2>1, <2>3, <2>4, Zenon DEF Manages
<1> HIDE DEF Same
<1> QED  BY <1>1, <1>2, <1>3, <1>4, <1>5, <1>6, <1>8, <1>9, <1>10, SignInKinds, Zenon

\* The other components write them where an account is enrolled or deleted.
LEMMA EnrollFactors ==
    ASSUME HeldOK, CodesOK, EnrollNext
    PROVE  UsesMove /\ CodesMove
<1> USE DEF tables, factors, stashes, signInVars, signInHistory, directory
<1> DEFINE Same == UNCHANGED <<totp, uses, codes, nextCode, spent>>
<1>1. ASSUME NEW p \in Procs, EnrollWithPassword(p)
      PROVE  UsesMove /\ CodesMove
  <2>1. NewAuthenticator(loc[p].a, loc[p].code) /\ pc[p] = "enrollPtTx" /\ UNCHANGED spent
    BY <1>1, Zenon DEF EnrollWithPassword
  <2>2. loc[p].a \in Accounts /\ loc[p].code \in Codes  BY <2>1 DEF HeldOK, FrameOK, Holder, Acting, Coding
  <2> QED  BY <2>1, <2>2, NewAuthenticatorMoves
<1>2. ASSUME NEW t, EnrollIssueStep(t), UNCHANGED signInVars
      PROVE  Same
  BY <1>2, Zenon DEF EnrollIssueStep, EnrollAdmin, IssueEnrollment, RevokeInvitation, ReissueEnrollment,
     CreateInvitation, EnrollmentBegin
<1>3. ASSUME NEW p, NEW t, EnrollReadStep(p, t), UNCHANGED signInVars
      PROVE  Same
  BY <1>3, Zenon DEF EnrollReadStep, EnrollmentComplete, PasswordTotpVerify
<1>4. ASSUME NEW p, EnrollWithPasskey(p) \/ ((\E fails : EnrollRevokes(p, fails)) /\ UNCHANGED signInVars)
                    \/ (EnrollSignsIn(p) /\ UNCHANGED signInVars)
      PROVE  Same
  BY <1>4, Zenon DEF EnrollWithPasskey, EnrollRevokes, EnrollSignsIn
<1>5. ASSUME Same  PROVE UsesMove /\ CodesMove  BY <1>5, Zenon DEF UsesMove, CodesMove
<1> HIDE DEF Same
<1> QED  BY <1>1, <1>2, <1>3, <1>4, <1>5, Zenon DEF EnrollNext

LEMMA AdminFactors ==
    ASSUME HeldOK, CodesOK, AccountAdminNext
    PROVE  UsesMove /\ CodesMove
<1> USE DEF tables, factors, signInVars, signInHistory
<1>1. UNCHANGED <<uses, spent>>  BY Zenon DEF AccountAdminNext
<1> DEFINE Same == UNCHANGED <<totp, uses, codes, nextCode, spent>>
<1>2. ASSUME NEW p \in Procs, DeleteAccount(p)
      PROVE  UsesMove /\ CodesMove
  <2>1. loc[p].a \in Accounts  BY <1>2 DEF DeleteAccount, HeldOK, FrameOK, Holder, Acting
  <2>2. \/ totp' = [totp EXCEPT ![loc[p].a] = NoTotp] /\ codes' = [codes EXCEPT ![loc[p].a] = {}]
        \/ UNCHANGED <<totp, codes>>
    BY <1>2, Zenon DEF DeleteAccount, Cascade
  <2>3. UNCHANGED nextCode  BY <1>2, Zenon DEF DeleteAccount
  <2>4. CASE UNCHANGED <<totp, codes>>  BY <1>1, <2>3, <2>4, Zenon DEF UsesMove, CodesMove
  <2> QED  BY <1>1, <2>1, <2>2, <2>3, <2>4, FactorsGo
<1>3. ASSUME NEW p, NEW s, AdminStep(p, s)
      PROVE  Same
  BY <1>1, <1>3, Zenon DEF AdminStep, UpdateAccount, SetDisabledRead, DeleteAccountRead
<1>4. ASSUME NEW p, SetDisabledWrite(p) \/ RevokeAll(p) \/ RevokeAllFails(p)
      PROVE  Same
  BY <1>1, <1>4, Zenon DEF SetDisabledWrite, RevokeAll, RevokeAllFails
<1>5. ASSUME NEW s, \/ \E k : DeleteAccountCredential(s, k)
                    \/ \E a : RevokeAccountSessions(s, a)
                    \/ \E t : RevokeAccountSession(s, t)
                    \/ MaintenanceShows
      PROVE  Same
  BY <1>1, <1>5, Zenon DEF DeleteAccountCredential, RevokeAccountSessions, RevokeAccountSession, MaintenanceShows
<1>6. ASSUME Same  PROVE UsesMove /\ CodesMove  BY <1>6, Zenon DEF UsesMove, CodesMove
<1> HIDE DEF Same
<1> QED  BY <1>2, <1>3, <1>4, <1>5, <1>6, Zenon DEF AccountAdminNext

LEMMA FederationFactors ==
    ASSUME FederationNext
    PROVE  UNCHANGED <<totp, codes, nextCode>>
<1> USE DEF tables, factors, directory
<1>1. ASSUME NEW p, NEW u, ResolveStep(p, u)
      PROVE  UNCHANGED <<totp, codes, nextCode>>
  BY <1>1, Zenon DEF ResolveStep, ResolveExisting, ResolveLink, ApplyAutoProvision, ApplyInviteProvision,
     AttachInviteIdentity, Resolved, Provision
<1>2. ASSUME NEW f, FlowStep(f)
      PROVE  UNCHANGED <<totp, codes, nextCode>>
  BY <1>2, Zenon DEF FlowStep, FederationLogin, BeginPublic, IdentitiesLinkBegin, BeginLink, EnrollmentStartFederation,
     BeginInvite, Begin, PrepareFlow, FederationCallback, VerifyFlow, FlowLoad, LeaseLost, ConfirmDecline, FederationConfirm
<1>3. ASSUME NEW p, FlowPrepared(p) \/ FlowConsume(p) \/ FlowFails(p) \/ FederationCompletes(p) \/ FederationSignsIn(p)
                    \/ \E ok : LinkConfirm(p, ok)
      PROVE  UNCHANGED <<totp, codes, nextCode>>
  BY <1>3, Zenon DEF FlowPrepared, FlowConsume, FlowFails, FederationCompletes, FederationSignsIn, LinkConfirm
<1>4. ASSUME NEW s, NEW i, ProviderStep(s, i)
      PROVE  UNCHANGED <<totp, codes, nextCode>>
  BY <1>4, Zenon DEF ProviderStep
<1> QED  BY <1>1, <1>2, <1>3, <1>4, Zenon DEF FederationNext

-----------------------------------------------------------------------------
(* Enrollment tokens                                                         *)

\* A token that is free or open was neither redeemed nor withdrawn; none was both.
Unspent(t) == inv[t].st \in {"free", "open"}
YieldsOK ==
    /\ DOMAIN inv = Invites /\ yields \in [Invites -> 0..1]
    /\ \A t \in Invites : /\ t \in withdrawn => yields[t] = 0
                          /\ Unspent(t) => yields[t] = 0 /\ t \notin withdrawn

\* Nothing becomes unspent; at most one token is redeemed or withdrawn, which spends it.
YieldsMove ==
    /\ DOMAIN inv' = Invites /\ \A t \in Invites : Unspent(t)' => Unspent(t)
    /\ \/ UNCHANGED <<yields, withdrawn>>
       \/ \E t \in Invites :
            /\ Unspent(t) /\ ~Unspent(t)'
            /\ \/ yields' = [yields EXCEPT ![t] = @ + 1] /\ UNCHANGED withdrawn
               \/ withdrawn' = withdrawn \cup {t} /\ UNCHANGED yields

LEMMA YieldsMoved ==
    ASSUME YieldsOK, YieldsMove
    PROVE  YieldsOK'
<1>1. CASE UNCHANGED <<yields, withdrawn>>
  <2>1. \A t \in Invites : Unspent(t)' => Unspent(t)  BY DEF YieldsMove
  <2> HIDE DEF Unspent
  <2>2. \A t \in Invites : Unspent(t)' => yields'[t] = 0 /\ t \notin withdrawn'  BY <1>1, <2>1 DEF YieldsOK
  <2> QED  BY <1>1, <2>2 DEF YieldsOK, YieldsMove
<1>2. ASSUME NEW t \in Invites, Unspent(t), ~Unspent(t)', yields' = [yields EXCEPT ![t] = @ + 1], UNCHANGED withdrawn
      PROVE  YieldsOK'
  <2>1. yields[t] = 0 /\ t \notin withdrawn  BY <1>2 DEF YieldsOK
  <2>2. yields' \in [Invites -> 0..1] /\ \A r \in Invites \ {t} : yields'[r] = yields[r]  BY <1>2, <2>1 DEF YieldsOK
  <2>3. \A r \in Invites : Unspent(r)' => Unspent(r) /\ r # t  BY <1>2 DEF YieldsMove
  <2> QED  BY <1>2, <2>1, <2>2, <2>3 DEF YieldsOK, YieldsMove
<1>3. ASSUME NEW t \in Invites, Unspent(t), ~Unspent(t)', withdrawn' = withdrawn \cup {t}, UNCHANGED yields
      PROVE  YieldsOK'
  <2>1. yields[t] = 0  BY <1>3 DEF YieldsOK
  <2>2. \A r \in Invites : Unspent(r)' => Unspent(r) /\ r # t  BY <1>3 DEF YieldsMove
  <2> QED  BY <1>3, <2>1, <2>2 DEF YieldsOK, YieldsMove
<1> QED  BY <1>1, <1>2, <1>3, Zenon DEF YieldsMove

\* A token that was open is spent.
LEMMA SpendMoves ==
    ASSUME InvitesOK, NEW t \in Invites, inv[t].st = "open", inv' = [inv EXCEPT ![t].st = "spent"],
           \/ yields' = [yields EXCEPT ![t] = @ + 1] /\ UNCHANGED withdrawn
           \/ withdrawn' = withdrawn \cup {t} /\ UNCHANGED yields
    PROVE  YieldsMove
<1>1. DOMAIN inv = Invites /\ DOMAIN inv[t] = InviteFields  BY DEF InvitesOK, Invitation
<1>2. DOMAIN inv' = Invites /\ inv'[t].st = "spent" /\ \A r \in Invites \ {t} : inv'[r] = inv[r]
  BY <1>1 DEF InviteFields
<1>3. Unspent(t) /\ ~Unspent(t)' /\ \A r \in Invites : Unspent(r)' => Unspent(r)  BY <1>2 DEF Unspent
<1> QED  BY <1>2, <1>3, Zenon DEF YieldsMove

\* The rows that change are written while they are unspent, or gone.
LEMMA RowsMove ==
    ASSUME InvitesOK, UNCHANGED <<yields, withdrawn>>, DOMAIN inv' = Invites,
           \A t \in Invites : inv'[t] = inv[t] \/ inv[t].st = "free" \/ inv'[t].st \in {inv[t].st, "gone"}
    PROVE  YieldsMove
BY DEF YieldsMove, Unspent

LEMMA EnrollYields ==
    ASSUME HeldOK, InvitesOK, EnrollNext
    PROVE  YieldsMove
<1> USE DEF enrollVars, enrollHistory
<1>0. DOMAIN inv = Invites  BY DEF InvitesOK
<1>1. ASSUME UNCHANGED <<inv, yields, withdrawn>>  PROVE YieldsMove  BY <1>0, <1>1 DEF YieldsMove, Unspent
<1>2. ASSUME NEW t \in Invites, NEW row, IssueEnrollment(t, row)
      PROVE  YieldsMove
  <2>1. PICK x : x = [row EXCEPT !.st = "open", !.until = clock + EnrollmentTTL]  OBVIOUS
  <2>2. inv[t].st = "free" /\ inv' = [inv EXCEPT ![t] = x] /\ UNCHANGED <<yields, withdrawn>>
    BY <1>2, <2>1, Zenon DEF IssueEnrollment
  <2>3. DOMAIN inv' = Invites /\ \A r \in Invites : inv'[r] = inv[r] \/ inv[r].st = "free"  BY <1>0, <2>2
  <2> QED  BY <2>2, <2>3, RowsMove
<1>3. ASSUME NEW t \in Invites, NEW s, RevokeInvitation(s, t)
      PROVE  YieldsMove
  <2>1. /\ inv[t].st = "open" /\ inv' = [inv EXCEPT ![t].st = "spent"]
        /\ withdrawn' = withdrawn \cup {t} /\ UNCHANGED yields
    BY <1>3, Zenon DEF RevokeInvitation, InvitationRevoked
  <2> QED  BY <2>1, SpendMoves
<1>4. ASSUME NEW t, NEW a, EnrollmentBegin(t, a)  PROVE YieldsMove  BY <1>1, <1>4, Zenon DEF EnrollmentBegin
<1>5. ASSUME NEW t \in Invites, EnrollIssueStep(t)  PROVE YieldsMove
  BY <1>2, <1>3, <1>4, <1>5, Zenon DEF EnrollIssueStep, EnrollAdmin, ReissueEnrollment, CreateInvitation
<1>6. ASSUME NEW p, NEW t, EnrollReadStep(p, t)  PROVE YieldsMove
  BY <1>1, <1>6, Zenon DEF EnrollReadStep, EnrollmentComplete, PasswordTotpVerify
<1>7. ASSUME NEW p \in Procs, EnrollWithPasskey(p) \/ EnrollWithPassword(p)
      PROVE  YieldsMove
  <2>1. pc[p] \in {"enrollTx", "enrollPtTx"} /\ Redeem(p)  BY <1>7 DEF EnrollWithPasskey, EnrollWithPassword
  <2>2. PICK t : t = loc[p].t  OBVIOUS
  <2>3. t \in Invites  BY <2>1, <2>2 DEF HeldOK, FrameOK, Holder
  <2>4. /\ inv[t].st = "open" /\ inv' = [inv EXCEPT ![t].st = "spent"]
        /\ yields' = [yields EXCEPT ![t] = @ + 1] /\ UNCHANGED withdrawn
    BY <2>1, <2>2, Zenon DEF Redeem, Consumable
  <2> QED  BY <2>3, <2>4, SpendMoves
<1>8. ASSUME NEW p, (\E fails : EnrollRevokes(p, fails)) \/ EnrollSignsIn(p)  PROVE YieldsMove
  BY <1>1, <1>8, Zenon DEF EnrollRevokes, EnrollSignsIn
<1> QED  BY <1>5, <1>6, <1>7, <1>8, Zenon DEF EnrollNext

LEMMA FederationYields ==
    ASSUME HeldOK, InvitesOK, FederationNext
    PROVE  YieldsMove
<1> USE DEF enrollVars, enrollHistory
<1>0. DOMAIN inv = Invites  BY DEF InvitesOK
<1>1. ASSUME UNCHANGED <<inv, yields, withdrawn>>  PROVE YieldsMove  BY <1>0, <1>1 DEF YieldsMove, Unspent
<1>2. ASSUME NEW p, NEW u, NEW addr, ResolveExisting(p, u, addr) \/ ResolveLink(p, u, addr)
                                     \/ \E a : ApplyAutoProvision(p, a, u, addr)
      PROVE  YieldsMove
  BY <1>1, <1>2, Zenon DEF ResolveExisting, ResolveLink, ApplyAutoProvision, Provision, Resolved
<1>3. ASSUME NEW p \in Procs, Resolving(p, "invite")
      PROVE  loc[p].st.t \in Invites
  BY <1>3 DEF Resolving, HeldOK, FrameOK, Holder, InFlow, Aimed
<1>4. ASSUME NEW p \in Procs, NEW a, NEW u, NEW addr, ApplyInviteProvision(p, a, u, addr)
      PROVE  YieldsMove
  <2>1. PICK t : t = loc[p].st.t  OBVIOUS
  <2>2. t \in Invites  BY <1>3, <1>4, <2>1, Zenon DEF ApplyInviteProvision
  <2>3. /\ inv[t].st = "open" /\ inv' = [inv EXCEPT ![t].st = "spent"]
        /\ yields' = [yields EXCEPT ![t] = @ + 1] /\ UNCHANGED withdrawn
    BY <1>4, <2>1, Zenon DEF ApplyInviteProvision, InviteClaim, LockInviteEnrollment, Consumable,
       ConsumeInviteEnrollment, Provision, Resolved
  <2> QED  BY <2>2, <2>3, SpendMoves
<1>5. ASSUME NEW p \in Procs, NEW u, AttachInviteIdentity(p, u)
      PROVE  YieldsMove
  <2>1. PICK t, x : t = loc[p].st.t /\ x = [idp |-> loc[p].st.idp, sub |-> u]  OBVIOUS
  <2>2. t \in Invites  BY <1>3, <1>5, <2>1, Zenon DEF AttachInviteIdentity
  <2>3. inv' = [inv EXCEPT ![t].snap = x] /\ UNCHANGED <<yields, withdrawn>>
    BY <1>5, <2>1, Zenon DEF AttachInviteIdentity, AttachedInviteIdentity
  <2>4. DOMAIN inv' = Invites /\ \A r \in Invites : inv'[r].st = inv[r].st
    BY <2>2, <2>3 DEF InvitesOK, Invitation, InviteFields
  <2> QED  BY <2>3, <2>4, RowsMove
<1>6. ASSUME NEW p \in Procs, NEW u, ResolveStep(p, u)  PROVE YieldsMove
  BY <1>2, <1>4, <1>5, <1>6, Zenon DEF ResolveStep
<1>7. ASSUME NEW f, FlowStep(f)  PROVE YieldsMove
  BY <1>1, <1>7, Zenon DEF FlowStep, FederationLogin, BeginPublic, IdentitiesLinkBegin, BeginLink, EnrollmentStartFederation,
     BeginInvite, Begin, PrepareFlow, FederationCallback, VerifyFlow, FlowLoad, LeaseLost, ConfirmDecline, FederationConfirm
<1>8. ASSUME NEW p, FlowPrepared(p) \/ FlowConsume(p) \/ FlowFails(p) \/ FederationCompletes(p) \/ FederationSignsIn(p)
                    \/ \E ok : LinkConfirm(p, ok)
      PROVE  YieldsMove
  BY <1>1, <1>8, Zenon DEF FlowPrepared, FlowConsume, FlowFails, FederationCompletes, FederationSignsIn, LinkConfirm
<1>9. ASSUME NEW s, NEW i, ProviderStep(s, i)
      PROVE  YieldsMove
  <2>1. UNCHANGED <<yields, withdrawn>>  BY <1>9, Zenon DEF ProviderStep
  <2>2. CASE UNCHANGED inv  BY <1>1, <2>1, <2>2
  <2>3. CASE DeleteIdentityProvider(s, i)
    <3> DEFINE gone == [NoInvite EXCEPT !.st = "gone"]
    <3>1. gone.st = "gone"  BY DEF NoInvite
    <3>2. inv' = [t \in Invites |-> IF inv[t].snap # None /\ inv[t].snap.idp = i THEN gone ELSE inv[t]]
      BY <2>3, Zenon DEF DeleteIdentityProvider
    <3> HIDE DEF gone
    <3>3. DOMAIN inv' = Invites /\ \A t \in Invites : inv'[t] = inv[t] \/ inv'[t].st = "gone"  BY <3>1, <3>2
    <3> QED  BY <2>1, <3>3, RowsMove
  <2> QED  BY <1>9, <2>2, <2>3, Zenon
           DEF ProviderStep, CreateIdentityProvider, UpdateIdentityProvider, SetIdentityProviderDisabled
<1> QED  BY <1>6, <1>7, <1>8, <1>9, Zenon DEF FederationNext

LEMMA AdminYields ==
    ASSUME InvitesOK, AccountAdminNext
    PROVE  YieldsMove
<1> USE DEF upper, enrollVars, enrollHistory
<1>0. DOMAIN inv = Invites  BY DEF InvitesOK
<1>1. ASSUME UNCHANGED <<inv, yields, withdrawn>>  PROVE YieldsMove  BY <1>0, <1>1 DEF YieldsMove, Unspent
<1>2. ASSUME NEW p \in Procs, DeleteAccount(p)
      PROVE  YieldsMove
  <2>1. UNCHANGED <<yields, withdrawn>>  BY <1>2, Zenon DEF DeleteAccount
  <2>2. CASE UNCHANGED inv  BY <1>1, <2>1, <2>2
  <2>3. CASE Cascade(loc[p].a)
    <3> DEFINE gone == [NoInvite EXCEPT !.st = "gone"]
    <3>1. gone.st = "gone"  BY DEF NoInvite
    <3>2. inv' = [t \in Invites |-> IF inv[t].a = loc[p].a THEN gone ELSE inv[t]]  BY <2>3, Zenon DEF Cascade
    <3> HIDE DEF gone
    <3>3. DOMAIN inv' = Invites /\ \A t \in Invites : inv'[t] = inv[t] \/ inv'[t].st = "gone"  BY <3>1, <3>2
    <3> QED  BY <2>1, <3>3, RowsMove
  <2> QED  BY <1>2, <2>2, <2>3, Zenon DEF DeleteAccount
<1>3. ASSUME NEW p, NEW s, AdminStep(p, s)  PROVE YieldsMove
  BY <1>1, <1>3, Zenon DEF AdminStep, UpdateAccount, SetDisabledRead, DeleteAccountRead
<1>4. ASSUME NEW p, SetDisabledWrite(p) \/ RevokeAll(p) \/ RevokeAllFails(p)  PROVE YieldsMove
  BY <1>1, <1>4, Zenon DEF SetDisabledWrite, RevokeAll, RevokeAllFails
<1>5. ASSUME NEW s, \/ \E k : DeleteAccountCredential(s, k)
                    \/ \E a : RevokeAccountSessions(s, a)
                    \/ \E t : RevokeAccountSession(s, t)
                    \/ MaintenanceShows
      PROVE  YieldsMove
  BY <1>1, <1>5, Zenon DEF DeleteAccountCredential, RevokeAccountSessions, RevokeAccountSession, MaintenanceShows
<1> QED  BY <1>2, <1>3, <1>4, <1>5, Zenon DEF AccountAdminNext

-----------------------------------------------------------------------------
(* Federation flows                                                          *)

\* A flow is in its store, or with the one request that took it, or resolved; once it is
\* resolved, with the one request that completes it, or a grant, or the grant is popped.
At(p, l, f) == pc[p] = l /\ loc[p].f = f
Nobody(l, f) == \A p \in Procs : ~At(p, l, f)
Alone(p, l, f) == \A q \in Procs : At(q, l, f) => q = p
FlowOnce(f) ==
    /\ f \notin begun => flow[f] = NoEntry /\ completed[f] = 0 /\ Nobody("flowResolve", f)
    /\ flow[f] # NoEntry => completed[f] = 0 /\ Nobody("flowResolve", f)
    /\ \A p \in Procs : At(p, "flowResolve", f) => completed[f] = 0 /\ Alone(p, "flowResolve", f)
    /\ completed[f] = 0 => Nobody("fedDone", f) /\ grants[f] = NoEntry /\ popped[f] = 0
    /\ \A p \in Procs : At(p, "fedDone", f) => Alone(p, "fedDone", f) /\ grants[f] = NoEntry /\ popped[f] = 0
    /\ grants[f] # NoEntry => popped[f] = 0
CompletedOK ==
    /\ DOMAIN flow = Flows /\ DOMAIN grants = Flows
    /\ completed \in [Flows -> 0..1] /\ popped \in [Flows -> 0..1]
    /\ \A f \in Flows : FlowOnce(f)

\* Nobody but p comes to hold f at label l.
OnlyBy(p, l, f) == \A q \in Procs : At(q, l, f)' => At(q, l, f) \/ q = p
Lost(l, f) == \A q \in Procs : At(q, l, f)' => At(q, l, f)
Leaves(p, l, f) == p \in Procs /\ At(p, l, f) /\ ~At(p, l, f)'

\* What a step does to one flow: nothing, begin or rewrite it, take it, put it back,
\* resolve it, complete it with a grant, pop the grant.
SameFlow(f) == flow'[f] = flow[f] /\ (f \in begun' <=> f \in begun)
SameEnd(f) == completed'[f] = completed[f] /\ grants'[f] = grants[f] /\ popped'[f] = popped[f]
NoGain(f) == Lost("flowResolve", f) /\ Lost("fedDone", f)
FlowMove(f) ==
    \/ NoGain(f) /\ SameFlow(f) /\ SameEnd(f)
    \/ NoGain(f) /\ f \notin begun /\ f \in begun' /\ SameEnd(f)
    \/ NoGain(f) /\ (f \in begun' <=> f \in begun) /\ SameEnd(f)
       /\ (flow[f] # NoEntry \/ \E p : Leaves(p, "flowResolve", f))
    \/ \E p : /\ OnlyBy(p, "flowResolve", f) /\ Lost("fedDone", f) /\ flow[f] # NoEntry /\ flow'[f] = NoEntry
              /\ (f \in begun' <=> f \in begun) /\ SameEnd(f)
    \/ \E p : /\ Leaves(p, "flowResolve", f) /\ Lost("flowResolve", f) /\ OnlyBy(p, "fedDone", f)
              /\ SameFlow(f) /\ completed'[f] = completed[f] + 1 /\ grants'[f] = grants[f] /\ popped'[f] = popped[f]
    \/ \E p : /\ Leaves(p, "fedDone", f) /\ NoGain(f) /\ SameFlow(f)
              /\ completed'[f] = completed[f] /\ popped'[f] = popped[f]
    \/ /\ NoGain(f) /\ SameFlow(f) /\ grants[f] # NoEntry /\ grants'[f] = NoEntry
       /\ completed'[f] = completed[f] /\ popped'[f] \in {popped[f], popped[f] + 1}
FlowsMove ==
    /\ DOMAIN flow' = Flows /\ DOMAIN grants' = Flows
    /\ completed' = [f \in Flows |-> completed'[f]] /\ popped' = [f \in Flows |-> popped'[f]]
    /\ \A f \in Flows : FlowMove(f)

LEMMA FlowMoved ==
    ASSUME NEW f \in Flows, FlowOnce(f), FlowMove(f), completed[f] \in 0..1, popped[f] \in 0..1
    PROVE  FlowOnce(f)' /\ completed'[f] \in 0..1 /\ popped'[f] \in 0..1
<1> DEFINE R(p) == At(p, "flowResolve", f)
           S(p) == At(p, "flowResolve", f)'
           D(p) == At(p, "fedDone", f)
           E(p) == At(p, "fedDone", f)'
<1>1. CASE NoGain(f) /\ SameFlow(f) /\ SameEnd(f)
  <2>1. \A p \in Procs : (S(p) => R(p)) /\ (E(p) => D(p))  BY <1>1 DEF NoGain, Lost
  <2> HIDE DEF R, S, D, E
  <2> QED  BY <1>1, <2>1 DEF SameFlow, SameEnd, FlowOnce, Nobody, Alone, R, S, D, E
<1>2. CASE NoGain(f) /\ f \notin begun /\ f \in begun' /\ SameEnd(f)
  <2>1. \A p \in Procs : (S(p) => R(p)) /\ (E(p) => D(p))  BY <1>2 DEF NoGain, Lost
  <2> QED  BY <1>2, <2>1 DEF SameEnd, FlowOnce, Nobody, Alone
<1>3. CASE NoGain(f) /\ (f \in begun' <=> f \in begun) /\ SameEnd(f)
           /\ (flow[f] # NoEntry \/ \E p : Leaves(p, "flowResolve", f))
  <2>1. \A p \in Procs : (S(p) => R(p)) /\ (E(p) => D(p))  BY <1>3 DEF NoGain, Lost
  <2>2. completed[f] = 0 /\ f \in begun /\ \A p \in Procs : ~S(p)
    <3>1. CASE flow[f] # NoEntry  BY <2>1, <3>1 DEF FlowOnce, Nobody
    <3>2. ASSUME NEW p, Leaves(p, "flowResolve", f)
          PROVE  completed[f] = 0 /\ f \in begun /\ \A q \in Procs : ~S(q)
      <4>1. p \in Procs /\ R(p) /\ ~S(p)  BY <3>2 DEF Leaves
      <4>2. \A q \in Procs : R(q) => q = p  BY <4>1 DEF FlowOnce, Alone
      <4> HIDE DEF S
      <4> QED  BY <2>1, <4>1, <4>2 DEF FlowOnce, Nobody
    <3> QED  BY <1>3, <3>1, <3>2
  <2> QED  BY <1>3, <2>1, <2>2 DEF SameEnd, FlowOnce, Nobody, Alone
<1>4. ASSUME NEW p, OnlyBy(p, "flowResolve", f), Lost("fedDone", f), flow[f] # NoEntry, flow'[f] = NoEntry,
             f \in begun' <=> f \in begun, SameEnd(f)
      PROVE  FlowOnce(f)' /\ completed'[f] \in 0..1 /\ popped'[f] \in 0..1
  <2>1. \A q \in Procs : (S(q) => q = p) /\ (E(q) => D(q))  BY <1>4 DEF OnlyBy, Lost, FlowOnce, Nobody
  <2>2. completed[f] = 0 /\ f \in begun  BY <1>4 DEF FlowOnce
  <2> QED  BY <1>4, <2>1, <2>2 DEF SameEnd, FlowOnce, Nobody, Alone
<1>5. ASSUME NEW p, Leaves(p, "flowResolve", f), Lost("flowResolve", f), OnlyBy(p, "fedDone", f),
             SameFlow(f), completed'[f] = completed[f] + 1, grants'[f] = grants[f], popped'[f] = popped[f]
      PROVE  FlowOnce(f)' /\ completed'[f] \in 0..1 /\ popped'[f] \in 0..1
  <2>1. p \in Procs /\ R(p) /\ ~S(p)  BY <1>5 DEF Leaves
  <2>2. completed[f] = 0 /\ f \in begun /\ flow[f] = NoEntry /\ \A q \in Procs : R(q) => q = p
    BY <2>1 DEF FlowOnce, Alone, Nobody
  <2>3. \A q \in Procs : ~S(q)
    <3>1. \A q \in Procs : S(q) => R(q)  BY <1>5 DEF Lost
    <3> HIDE DEF S, R
    <3> QED  BY <2>1, <2>2, <3>1
  <2>4. grants[f] = NoEntry /\ popped[f] = 0 /\ \A q \in Procs : E(q) => q = p
    BY <1>5, <2>2 DEF FlowOnce, Nobody, OnlyBy
  <2> QED  BY <1>5, <2>2, <2>3, <2>4 DEF SameFlow, FlowOnce, Nobody, Alone
<1>6. ASSUME NEW p, Leaves(p, "fedDone", f), NoGain(f), SameFlow(f), completed'[f] = completed[f], popped'[f] = popped[f]
      PROVE  FlowOnce(f)' /\ completed'[f] \in 0..1 /\ popped'[f] \in 0..1
  <2>1. p \in Procs /\ D(p) /\ ~E(p)  BY <1>6 DEF Leaves
  <2>2. completed[f] # 0 /\ popped[f] = 0 /\ \A q \in Procs : D(q) => q = p
    BY <2>1 DEF FlowOnce, Alone, Nobody
  <2>3. \A q \in Procs : ~E(q) /\ (S(q) => R(q))
    <3>1. \A q \in Procs : (S(q) => R(q)) /\ (E(q) => D(q))  BY <1>6 DEF NoGain, Lost
    <3> HIDE DEF S, R, D, E
    <3> QED  BY <2>1, <2>2, <3>1
  <2> QED  BY <1>6, <2>2, <2>3 DEF SameFlow, FlowOnce, Nobody, Alone
<1>7. CASE /\ NoGain(f) /\ SameFlow(f) /\ grants[f] # NoEntry /\ grants'[f] = NoEntry
           /\ completed'[f] = completed[f] /\ popped'[f] \in {popped[f], popped[f] + 1}
  <2>1. completed[f] # 0 /\ popped[f] = 0 /\ \A q \in Procs : ~D(q)  BY <1>7 DEF FlowOnce
  <2>2. \A q \in Procs : ~E(q) /\ (S(q) => R(q))  BY <1>7, <2>1 DEF NoGain, Lost
  <2> QED  BY <1>7, <2>1, <2>2 DEF SameFlow, FlowOnce, Nobody, Alone
<1> QED  BY <1>1, <1>2, <1>3, <1>4, <1>5, <1>6, <1>7, Zenon DEF FlowMove

LEMMA FlowsMoved ==
    ASSUME CompletedOK, FlowsMove
    PROVE  CompletedOK'
<1>1. ASSUME NEW f \in Flows
      PROVE  FlowOnce(f)' /\ completed'[f] \in 0..1 /\ popped'[f] \in 0..1
  <2>1. FlowOnce(f) /\ completed[f] \in 0..1 /\ popped[f] \in 0..1  BY DEF CompletedOK
  <2>2. FlowMove(f)  BY DEF FlowsMove
  <2> QED  BY <2>1, <2>2, FlowMoved
<1>2. completed' \in [Flows -> 0..1] /\ popped' \in [Flows -> 0..1]
  <2>1. completed' = [f \in Flows |-> completed'[f]] /\ popped' = [f \in Flows |-> popped'[f]]  BY DEF FlowsMove
  <2> QED  BY <1>1, <2>1
<1>3. DOMAIN flow' = Flows /\ DOMAIN grants' = Flows  BY DEF FlowsMove
<1> QED  BY <1>1, <1>2, <1>3, Zenon DEF CompletedOK

\* Nobody comes to hold a flow at the labels between taking and completing it.
Aloof == \A q \in Procs : (pc'[q] = pc[q] /\ loc'[q] = loc[q]) \/ pc'[q] \notin {"flowResolve", "fedDone"}

LEMMA AloofGains ==
    ASSUME Aloof
    PROVE  \A f : NoGain(f)
BY DEF Aloof, NoGain, Lost, At

LEMMA MovesAloof ==
    ASSUME NEW L, Moves(L), L \cap {"flowResolve", "fedDone"} = {}
    PROVE  Aloof
BY DEF Moves, Aloof

LEMMA AloofLabels ==
    /\ SignInAt \cap {"flowResolve", "fedDone"} = {} /\ EmailAt \cap {"flowResolve", "fedDone"} = {}
    /\ EnrollAt \cap {"flowResolve", "fedDone"} = {} /\ AdminAt \cap {"flowResolve", "fedDone"} = {}
BY DEF SignInAt, SignInPcs, EmailAt, EnrollAt, AdminAt, EmailPcs, EnrollPcs, AdminPcs

LEMMA OnlyAloof ==
    ASSUME NEW p, NEW l, NEW v, Only(p, l, v), l \notin {"flowResolve", "fedDone"}
    PROVE  Aloof
BY DEF Only, Aloof

\* No flow is touched, or one.
LEMMA NoFlow ==
    ASSUME CompletedOK, Aloof, UNCHANGED <<flow, begun, grants, completed, popped>>
    PROVE  FlowsMove
<1>1. \A f : NoGain(f)  BY AloofGains
<1>2. \A f \in Flows : FlowMove(f)  BY <1>1 DEF FlowMove, SameFlow, SameEnd
<1> QED  BY <1>2 DEF FlowsMove, CompletedOK

LEMMA OneFlow ==
    ASSUME DOMAIN flow' = Flows, DOMAIN grants' = Flows, NEW f,
           completed' = [g \in Flows |-> completed'[g]], popped' = [g \in Flows |-> popped'[g]],
           f \in Flows => FlowMove(f),
           \A g \in Flows \ {f} : NoGain(g) /\ SameFlow(g) /\ SameEnd(g)
    PROVE  FlowsMove
<1>1. ASSUME NEW g \in Flows  PROVE FlowMove(g)
  <2>1. CASE g = f  BY <2>1
  <2>2. CASE g # f
    <3>1. NoGain(g) /\ SameFlow(g) /\ SameEnd(g)  BY <2>2
    <3> QED  BY <3>1, Zenon DEF FlowMove
  <2> QED  BY <2>1, <2>2
<1> QED  BY <1>1, Zenon DEF FlowsMove

\* A store of flows after one cell is written.
LEMMA OneCell ==
    ASSUME NEW store, DOMAIN store = Flows, NEW f, NEW next,
           next = store \/ next = Del(store, f) \/ \E v, ttl : next = SetEx(store, f, v, ttl, clock)
    PROVE  DOMAIN next = Flows /\ \A g \in Flows \ {f} : next[g] = store[g]
BY SetExCells, DelCells

LEMMA BeginFlows ==
    ASSUME CompletedOK, NEW f \in Flows, NEW i, NEW why, NEW a, NEW s, NEW t, Begin(f, i, why, a, s, t)
    PROVE  FlowsMove
<1>1. Aloof  BY Zenon DEF Begin, directory, frame, Aloof
<1>2. \A g : NoGain(g)  BY <1>1, AloofGains
<1> DEFINE act == IF i \in LocalIdps THEN "collect" ELSE "redirect"
           st == [idp |-> i, intent |-> why, a |-> a, s |-> s, t |-> t, act |-> act, until |-> clock + StateTTL]
<1>3. flow' = SetEx(flow, f, st, StateTTL, clock)  BY Zenon DEF Begin
<1>4. f \notin begun /\ begun' = begun \cup {f} /\ UNCHANGED <<grants, completed, popped>>
  BY Zenon DEF Begin, fedHistory
<1> HIDE DEF st, act
<1>5. DOMAIN flow' = Flows /\ \A g \in Flows \ {f} : flow'[g] = flow[g]
  BY <1>3, SetExCells DEF CompletedOK
<1>6. FlowMove(f)  BY <1>2, <1>4 DEF FlowMove, SameEnd
<1>7. \A g \in Flows \ {f} : NoGain(g) /\ SameFlow(g) /\ SameEnd(g)  BY <1>2, <1>4, <1>5 DEF SameFlow, SameEnd
<1>8. DOMAIN grants' = Flows /\ completed' = [g \in Flows |-> completed'[g]] /\ popped' = [g \in Flows |-> popped'[g]]
  BY <1>4 DEF CompletedOK
<1> QED  BY <1>5, <1>6, <1>7, <1>8, OneFlow

\* A request that is answered leaves the flow it held.
LEMMA FinishLeaves ==
    ASSUME FrameOK, NEW p \in Procs, Finish(p)
    PROVE  Aloof /\ \A l, f : At(p, l, f) /\ l # "idle" => Leaves(p, l, f)
<1>1. Only(p, "idle", Blank)  BY Moved DEF Finish
<1>2. Aloof  BY <1>1, OnlyAloof
<1> QED  BY <1>1, <1>2 DEF Only, Leaves, At

\* A flow is rewritten by who finds it, or put back by who took it.
LEMMA WriteFlows ==
    ASSUME CompletedOK, FrameOK, NEW p \in Procs, Finish(p), NEW f,
           flow' = flow \/ \E v, ttl : flow' = SetEx(flow, f, v, ttl, clock),
           flow' # flow => flow[f] # NoEntry \/ At(p, "flowResolve", f),
           UNCHANGED <<grants, begun, completed, popped>>
    PROVE  FlowsMove
<1>1. Aloof /\ (At(p, "flowResolve", f) => Leaves(p, "flowResolve", f))  BY FinishLeaves
<1>2. \A g : NoGain(g)  BY <1>1, AloofGains
<1>3. CASE UNCHANGED flow  BY <1>1, <1>3, NoFlow
<1>4. CASE flow' # flow
  <2>1. DOMAIN flow' = Flows /\ \A g \in Flows \ {f} : flow'[g] = flow[g]  BY OneCell, Zenon DEF CompletedOK
  <2>2. FlowMove(f)  BY <1>1, <1>2, <1>4 DEF FlowMove, SameEnd
  <2>3. \A g \in Flows \ {f} : NoGain(g) /\ SameFlow(g) /\ SameEnd(g)  BY <1>2, <2>1 DEF SameFlow, SameEnd
  <2>4. DOMAIN grants' = Flows /\ completed' = [g \in Flows |-> completed'[g]] /\ popped' = [g \in Flows |-> popped'[g]]
    BY DEF CompletedOK
  <2> QED  BY <2>1, <2>2, <2>3, <2>4, OneFlow
<1> QED  BY <1>3, <1>4

\* What p does when it goes to l, with or without the flow it holds.
LEMMA OnlyGainsFlow ==
    ASSUME NEW p \in Procs, NEW l, NEW v, Only(p, l, v), v.f = loc[p].f
    PROVE  /\ \A g : g # loc[p].f => NoGain(g)
           /\ \A k, g : k # l => Lost(k, g)
           /\ OnlyBy(p, l, loc[p].f)
           /\ \A k, g : At(p, k, g) /\ k # l => Leaves(p, k, g)
BY DEF Only, NoGain, Lost, OnlyBy, Leaves, At

LEMMA ConsumeFlows ==
    ASSUME CompletedOK, HeldOK, NEW p \in Procs, FlowConsume(p)
    PROVE  FlowsMove
<1>0. FrameOK /\ clock \in Nat  BY DEF HeldOK, HoldersOK
<1>1. UNCHANGED <<grants, begun, completed, popped>>  BY Zenon DEF FlowConsume, fedHistory
<1>2. CASE Finish(p) /\ UNCHANGED flow  BY <1>0, <1>1, <1>2, FinishLeaves, NoFlow
<1>3. CASE Owns(p) /\ flow' = Del(flow, loc[p].f) /\ Goto(p, "flowResolve") /\ UNCHANGED loc
  <2> DEFINE f == loc[p].f
  <2>1. Only(p, "flowResolve", loc[p])  BY <1>0, <1>3 DEF FrameOK, Goto, Only
  <2>2. flow[f] # NoEntry  BY <1>0, <1>3, FoundEntry DEF Owns, Holds
  <2>3. DOMAIN flow' = Flows /\ \A g \in Flows \ {f} : flow'[g] = flow[g]  BY <1>3, DelCells DEF CompletedOK
  <2>4. f \in Flows => flow'[f] = NoEntry  BY <1>3, DelCells DEF CompletedOK
  <2>5. /\ \A g : g # f => NoGain(g)
        /\ OnlyBy(p, "flowResolve", f) /\ Lost("fedDone", f)
    BY <2>1, OnlyGainsFlow
  <2> HIDE DEF f
  <2>6. f \in Flows => FlowMove(f)  BY <1>1, <2>2, <2>4, <2>5, Zenon DEF FlowMove, SameEnd
  <2>7. \A g \in Flows \ {f} : NoGain(g) /\ SameFlow(g) /\ SameEnd(g)  BY <1>1, <2>3, <2>5 DEF SameFlow, SameEnd
  <2>8. DOMAIN grants' = Flows /\ completed' = [g \in Flows |-> completed'[g]] /\ popped' = [g \in Flows |-> popped'[g]]
    BY <1>1 DEF CompletedOK
  <2> QED  BY <2>3, <2>6, <2>7, <2>8, OneFlow
<1> QED  BY <1>2, <1>3, Zenon DEF FlowConsume

\* The request that took a flow resolves it, and goes on to l.
LEMMA CompleteFlows ==
    ASSUME CompletedOK, FrameOK, NEW p \in Procs, NEW f, At(p, "flowResolve", f),
           NEW l \in {"fedDone", "linkConfirm", "idle"}, NEW v, Only(p, l, v), l = "idle" \/ v.f = f,
           completed' = [completed EXCEPT ![f] = @ + 1], UNCHANGED <<flow, begun, grants, popped>>
    PROVE  FlowsMove
<1>1. /\ \A g : g # f => NoGain(g)
      /\ Lost("flowResolve", f) /\ OnlyBy(p, "fedDone", f) /\ Leaves(p, "flowResolve", f)
  BY DEF Only, NoGain, Lost, OnlyBy, Leaves, At
<1>2. /\ completed' = [g \in Flows |-> completed'[g]] /\ popped' = [g \in Flows |-> popped'[g]]
      /\ (f \in Flows => completed'[f] = completed[f] + 1) /\ \A g \in Flows \ {f} : completed'[g] = completed[g]
      /\ DOMAIN flow' = Flows /\ DOMAIN grants' = Flows
  BY DEF CompletedOK
<1>3. f \in Flows => FlowMove(f)  BY <1>1, <1>2, Zenon DEF FlowMove, SameFlow
<1>4. \A g \in Flows \ {f} : NoGain(g) /\ SameFlow(g) /\ SameEnd(g)  BY <1>1, <1>2 DEF SameFlow, SameEnd
<1> QED  BY <1>2, <1>3, <1>4, OneFlow

LEMMA ResolvedFlows ==
    ASSUME CompletedOK, FrameOK, NEW p \in Procs, pc[p] = "flowResolve",
           NEW step \in {"fedDone", "linkConfirm"}, NEW a, NEW u, NEW conf, NEW new, Resolved(p, step, a, u, conf, new)
    PROVE  FlowsMove
<1> DEFINE v == [op |-> "flow", f |-> loc[p].f, st |-> loc[p].st, prov |-> loc[p].prov,
                 a |-> a, u |-> u, conf |-> conf, new |-> new]
<1>0. PICK f : f = loc[p].f  OBVIOUS
<1>1. v.f = f  BY <1>0
<1>2. Set(p, v) /\ Goto(p, step)  BY Zenon DEF Resolved
<1> HIDE DEF v
<1>3. Only(p, step, v)  BY <1>2, Moved
<1>4. completed' = [completed EXCEPT ![f] = @ + 1] /\ UNCHANGED <<flow, begun, grants, popped>>
  BY <1>0, Zenon DEF Resolved
<1>5. At(p, "flowResolve", f)  BY <1>0 DEF At
<1> QED  BY <1>1, <1>3, <1>4, <1>5, CompleteFlows

LEMMA ResolveFlows ==
    ASSUME CompletedOK, FrameOK, NEW p \in Procs, NEW u, ResolveStep(p, u)
    PROVE  FlowsMove
<1>1. ASSUME NEW step \in {"fedDone", "linkConfirm"}, NEW a, NEW conf, NEW new, pc[p] = "flowResolve",
             Resolved(p, step, a, u, conf, new)
      PROVE  FlowsMove
  BY <1>1, ResolvedFlows
<1>2. ASSUME AttachInviteIdentity(p, u)
      PROVE  FlowsMove
  <2>0. PICK f : f = loc[p].f  OBVIOUS
  <2>1. /\ pc[p] = "flowResolve" /\ Finish(p) /\ completed' = [completed EXCEPT ![f] = @ + 1]
        /\ UNCHANGED <<flow, begun, grants, popped>>
    BY <1>2, <2>0, Zenon DEF AttachInviteIdentity, Resolving
  <2>2. Only(p, "idle", Blank)  BY <2>1, Moved DEF Finish
  <2>3. At(p, "flowResolve", f)  BY <2>0, <2>1 DEF At
  <2> QED  BY <2>1, <2>2, <2>3, CompleteFlows
<1>3. "fedDone" \in {"fedDone", "linkConfirm"} /\ "linkConfirm" \in {"fedDone", "linkConfirm"}  OBVIOUS
<1> QED  BY <1>1, <1>2, <1>3, Zenon DEF ResolveStep, ResolveExisting, ResolveLink, ApplyAutoProvision, ApplyInviteProvision, Resolving, Provision

\* A flow that was resolved for an unconfirmed identity ends in a grant.
LEMMA GrantFlows ==
    ASSUME CompletedOK, FrameOK, NEW p \in Procs, FederationCompletes(p)
    PROVE  FlowsMove
<1>1. UNCHANGED <<flow, begun, completed, popped>> /\ pc[p] = "fedDone"
  BY Zenon DEF FederationCompletes, fedHistory
<1>2. CASE Goto(p, "fedIssue") /\ UNCHANGED <<loc, grants>>
  <2>1. Only(p, "fedIssue", loc[p])  BY <1>2 DEF FrameOK, Goto, Only
  <2> QED  BY <1>1, <1>2, <2>1, OnlyAloof, NoFlow
<1>3. CASE grants' = CreateConfirmGrant(loc[p].f, loc[p].a, loc[p].u) /\ Finish(p)
  <2>1. PICK f, x : f = loc[p].f /\ x = [a |-> loc[p].a, u |-> loc[p].u]  OBVIOUS
  <2>2. grants' = SetEx(grants, f, x, GrantTTL, clock)  BY <1>3, <2>1 DEF CreateConfirmGrant
  <2>3. Aloof /\ Leaves(p, "fedDone", f)  BY <1>1, <1>3, <2>1, FinishLeaves DEF At
  <2>4. \A g : NoGain(g)  BY <2>3, AloofGains
  <2>5. DOMAIN grants' = Flows /\ \A g \in Flows \ {f} : grants'[g] = grants[g]
    BY <2>2, SetExCells DEF CompletedOK
  <2>6. FlowMove(f)  BY <1>1, <2>3, <2>4, Zenon DEF FlowMove, SameFlow
  <2>7. \A g \in Flows \ {f} : NoGain(g) /\ SameFlow(g) /\ SameEnd(g)  BY <1>1, <2>4, <2>5 DEF SameFlow, SameEnd
  <2>8. DOMAIN flow' = Flows /\ completed' = [g \in Flows |-> completed'[g]] /\ popped' = [g \in Flows |-> popped'[g]]
    BY <1>1 DEF CompletedOK
  <2> QED  BY <2>5, <2>6, <2>7, <2>8, OneFlow
<1> QED  BY <1>2, <1>3, Zenon DEF FederationCompletes

\* A grant is popped, to sign in or to decline.
LEMMA PopFlows ==
    ASSUME CompletedOK, Aloof, clock \in Nat, NEW f \in Flows, PopGrant(f), UNCHANGED <<flow, begun, completed>>,
           UNCHANGED popped \/ popped' = [popped EXCEPT ![f] = @ + 1]
    PROVE  FlowsMove
<1>1. grants[f] # NoEntry /\ grants' = Del(grants, f)  BY FoundEntry DEF PopGrant
<1>2. \A g : NoGain(g)  BY AloofGains
<1>3. DOMAIN grants' = Flows /\ grants'[f] = NoEntry /\ \A g \in Flows \ {f} : grants'[g] = grants[g]
  BY <1>1, DelCells DEF CompletedOK
<1>4. /\ popped' = [g \in Flows |-> popped'[g]] /\ popped'[f] \in {popped[f], popped[f] + 1}
      /\ (\A g \in Flows \ {f} : popped'[g] = popped[g])
      /\ completed' = [g \in Flows |-> completed'[g]] /\ DOMAIN flow' = Flows
  BY DEF CompletedOK
<1>5. FlowMove(f)  BY <1>1, <1>2, <1>3, <1>4, Zenon DEF FlowMove, SameFlow
<1>6. \A g \in Flows \ {f} : NoGain(g) /\ SameFlow(g) /\ SameEnd(g)  BY <1>2, <1>3, <1>4 DEF SameFlow, SameEnd
<1> QED  BY <1>3, <1>4, <1>5, <1>6, OneFlow

LEMMA StepFlows ==
    ASSUME CompletedOK, HeldOK, NEW f \in Flows, FlowStep(f)
    PROVE  FlowsMove
<1> USE DEF fedHistory, directory, frame
<1>0. FrameOK /\ clock \in Nat  BY DEF HeldOK, HoldersOK
<1>1. ASSUME NEW i, FederationLogin(f, i) \/ (\E s : IdentitiesLinkBegin(s, f, i)) \/ \E t : EnrollmentStartFederation(f, i, t)
      PROVE  FlowsMove
  BY <1>1, BeginFlows, Zenon DEF FederationLogin, BeginPublic, IdentitiesLinkBegin, BeginLink, EnrollmentStartFederation, BeginInvite
<1>2. ASSUME NEW p \in Procs, NEW s, NEW step \in {"flowPrepare", "flowConsume"}, NEW act, FlowLoad(p, f, s, step, act)
      PROVE  FlowsMove
  <2>1. PICK v : v = [op |-> "flow", f |-> f, st |-> flow[f].val, prov |-> idps[flow[f].val.idp]]  OBVIOUS
  <2>2. Goto(p, step) /\ Set(p, v) /\ UNCHANGED <<flow, begun, grants, completed, popped>>
    BY <1>2, <2>1, Zenon DEF FlowLoad
  <2>3. Only(p, step, v)  BY <1>0, <2>2, Moved
  <2>4. step \notin {"flowResolve", "fedDone"}  OBVIOUS
  <2> QED  BY <2>2, <2>3, <2>4, OnlyAloof, NoFlow
<1>3. ASSUME NEW p \in Procs, NEW s, PrepareFlow(p, f, s) \/ \E route : FederationCallback(p, f, s, route)
      PROVE  FlowsMove
  <2>1. "flowPrepare" \in {"flowPrepare", "flowConsume"} /\ "flowConsume" \in {"flowPrepare", "flowConsume"}  OBVIOUS
  <2> QED  BY <1>2, <1>3, <2>1, Zenon DEF PrepareFlow, FederationCallback, VerifyFlow
<1>4. ASSUME NEW p \in Procs, FederationConfirm(p, f)
      PROVE  FlowsMove
  <2>1. PICK v : v = [op |-> "confirm", a |-> grants[f].val.a]  OBVIOUS
  <2>2. /\ PopGrant(f) /\ popped' = [popped EXCEPT ![f] = @ + 1] /\ Set(p, v) /\ Goto(p, "fedIssue")
        /\ UNCHANGED <<flow, begun, completed>>
    BY <1>4, <2>1, Zenon DEF FederationConfirm
  <2>3. Only(p, "fedIssue", v)  BY <1>0, <2>2, Moved
  <2> QED  BY <1>0, <2>2, <2>3, OnlyAloof, PopFlows
<1>5. ASSUME LeaseLost(f) \/ ConfirmDecline(f)
      PROVE  FlowsMove
  <2>1. Aloof  BY <1>5, Zenon DEF LeaseLost, ConfirmDecline, Aloof
  <2>2. CASE LeaseLost(f)
    <3>1. UNCHANGED <<flow, begun, grants, completed, popped>>  BY <2>2, Zenon DEF LeaseLost
    <3> QED  BY <2>1, <3>1, NoFlow
  <2>3. CASE ConfirmDecline(f)
    <3>1. PopGrant(f) /\ UNCHANGED <<flow, begun, completed, popped>>  BY <2>3, Zenon DEF ConfirmDecline
    <3> QED  BY <1>0, <2>1, <3>1, PopFlows
  <2> QED  BY <1>5, <2>2, <2>3
<1> QED  BY <1>1, <1>3, <1>4, <1>5, Zenon DEF FlowStep

LEMMA FederationFlows ==
    ASSUME CompletedOK, HeldOK, FederationNext
    PROVE  FlowsMove
<1> USE DEF fedHistory, fedVars
<1>0. FrameOK /\ clock \in Nat  BY DEF HeldOK, HoldersOK
<1>1. ASSUME NEW p \in Procs, FlowPrepared(p) \/ FlowFails(p)
      PROVE  FlowsMove
  <2>1. PICK f, st, new : f = loc[p].f /\ st = loc[p].st /\ new = [st EXCEPT !.act = "publish"]  OBVIOUS
  <2>2. Finish(p) /\ UNCHANGED <<grants, begun, completed, popped>>  BY <1>1, Zenon DEF FlowPrepared, FlowFails
  <2>3. CASE FlowPrepared(p)
    <3>1. flow' = flow \/ (Owns(p) /\ flow' = SetEx(flow, f, new, st.until - clock, clock))
      BY <2>1, <2>3, Zenon DEF FlowPrepared
    <3>2. Owns(p) => flow[f] # NoEntry  BY <1>0, <2>1, FoundEntry DEF Owns, Holds
    <3> QED  BY <1>0, <2>2, <3>1, <3>2, WriteFlows
  <2>4. CASE FlowFails(p)
    <3>1. flow' = flow \/ flow' = SetEx(flow, f, st, st.until - clock, clock)
      BY <2>1, <2>4, Zenon DEF FlowFails
    <3>2. At(p, "flowResolve", f)  BY <2>1, <2>4, Zenon DEF FlowFails, At
    <3> QED  BY <1>0, <2>2, <3>1, <3>2, WriteFlows
  <2> QED  BY <1>1, <2>3, <2>4
<1>2. ASSUME NEW p \in Procs, FederationSignsIn(p) \/ \E ok : LinkConfirm(p, ok)
      PROVE  FlowsMove
  <2>1. Finish(p) /\ UNCHANGED <<flow, begun, grants, completed, popped>>
    BY <1>2, Zenon DEF FederationSignsIn, LinkConfirm
  <2> QED  BY <1>0, <2>1, FinishLeaves, NoFlow
<1>3. ASSUME NEW s, NEW i, ProviderStep(s, i)
      PROVE  FlowsMove
  <2>1. UNCHANGED <<flow, begun, grants, completed, popped>> /\ Aloof
    BY <1>3, Zenon DEF ProviderStep, frame, Aloof
  <2> QED  BY <2>1, NoFlow
<1> QED  BY <1>0, <1>1, <1>2, <1>3, ConsumeFlows, GrantFlows, ResolveFlows, StepFlows, Zenon DEF FederationNext

-----------------------------------------------------------------------------
(* What buys one thing once                                                  *)

SpentInv == RedeemedOK /\ OwedOK /\ UsesOK /\ CodesOK /\ YieldsOK /\ CompletedOK

\* What the six say of a step.
SpentMove == RedeemMove /\ OwedMove /\ UsesMove /\ CodesMove /\ YieldsMove /\ FlowsMove

LEMMA SpentMoved ==
    ASSUME SpentInv, SpentMove
    PROVE  SpentInv'
<1>1. RedeemedOK' /\ OwedOK'  BY RedeemMoved, OwedMoved, Zenon DEF SpentInv, SpentMove
<1>2. UsesOK' /\ CodesOK'  BY UsesMoved, CodesMoved, Zenon DEF SpentInv, SpentMove
<1>3. YieldsOK' /\ CompletedOK'  BY YieldsMoved, FlowsMoved, Zenon DEF SpentInv, SpentMove
<1> QED  BY <1>1, <1>2, <1>3, Zenon DEF SpentInv

\* A step that moves nobody to a stake and writes no stash leaves tokens and intents.
LEMMA CalmMoves ==
    ASSUME Calm, UNCHANGED <<partial, ceremony, intent, minted, redeemed, owed>>
    PROVE  RedeemMove /\ OwedMove
BY CalmClaims, CalmPledges, Zenon DEF RedeemMove, OwedMove

LEMMA SameInvites ==
    ASSUME YieldsOK, UNCHANGED <<inv, yields, withdrawn>>
    PROVE  YieldsMove
BY DEF YieldsOK, YieldsMove, Unspent

LEMMA SpentStep ==
    ASSUME SpentInv, TablesInv, [Next]_vars
    PROVE  SpentMove
<1> USE DEF tables, factors, federated, stashes, signInHistory, signInVars, frame, directory, emailVars, enrollVars,
            enrollHistory, fedVars, fedHistory
<1>1. RedeemedOK /\ OwedOK /\ UsesOK /\ CodesOK /\ YieldsOK /\ CompletedOK  BY Zenon DEF SpentInv
<1>2. HeldOK /\ FrameOK /\ LinksOK /\ InvitesOK /\ MailOK  BY Zenon DEF TablesInv, IdentityInv, HeldOK
<1>3. CASE SignInNext /\ UNCHANGED <<emailVars, enrollVars, fedVars, raced>>
  <2>1. RedeemMove /\ OwedMove  BY <1>1, <1>2, <1>3, RedeemEffect, OwedEffect
  <2>2. UsesMove /\ CodesMove  BY <1>1, <1>2, <1>3, SignInFactors
  <2>3. YieldsMove  BY <1>1, <1>3, SameInvites, Zenon
  <2>4. Aloof  BY <1>2, <1>3, SignInMoves, AloofLabels, MovesAloof
  <2>5. FlowsMove  BY <1>1, <1>3, <2>4, NoFlow, Zenon
  <2> QED  BY <2>1, <2>2, <2>3, <2>5, Zenon DEF SpentMove
<1>4. CASE EmailNext /\ UNCHANGED <<enrollVars, fedVars, raced>>
  <2>1. Moves(EmailAt) /\ UNCHANGED tables  BY <1>2, <1>4, EmailMoves, EmailEffects
  <2>2. UNCHANGED signInVars  BY <1>4, Zenon DEF EmailNext
  <2>3. Calm /\ Aloof  BY <2>1, MovesCalm, UnstakedLabels, AloofLabels, MovesAloof
  <2>4. RedeemMove /\ OwedMove  BY <2>2, <2>3, CalmMoves, Zenon
  <2>5. UsesMove /\ CodesMove  BY <2>1, <2>2, Zenon DEF UsesMove, CodesMove
  <2>6. YieldsMove /\ FlowsMove  BY <1>1, <1>4, <2>3, SameInvites, NoFlow, Zenon
  <2> QED  BY <2>4, <2>5, <2>6, Zenon DEF SpentMove
<1>5. CASE EnrollNext /\ UNCHANGED <<fedVars, raced>>
  <2>1. Moves(EnrollAt)  BY <1>2, <1>5, EnrollMoves
  <2>2. UNCHANGED <<partial, ceremony, intent, minted, redeemed, owed>>
    BY <1>5, Zenon DEF EnrollNext, EnrollWithPasskey, EnrollWithPassword
  <2>3. Calm /\ Aloof  BY <2>1, MovesCalm, UnstakedLabels, AloofLabels, MovesAloof
  <2>4. RedeemMove /\ OwedMove  BY <2>2, <2>3, CalmMoves
  <2>5. UsesMove /\ CodesMove  BY <1>1, <1>2, <1>5, EnrollFactors
  <2>6. YieldsMove  BY <1>2, <1>5, EnrollYields
  <2>7. FlowsMove  BY <1>1, <1>5, <2>3, NoFlow, Zenon
  <2> QED  BY <2>4, <2>5, <2>6, <2>7, Zenon DEF SpentMove
<1>6. CASE FederationNext /\ UNCHANGED raced
  <2>1. Moves(FederationAt)  BY <1>2, <1>6, FederationMoves
  <2>2. UNCHANGED signInVars  BY <1>6, Zenon DEF FederationNext
  <2>3. Calm  BY <2>1, MovesCalm, UnstakedLabels
  <2>4. RedeemMove /\ OwedMove  BY <2>2, <2>3, CalmMoves, Zenon
  <2>5. UNCHANGED <<totp, codes, nextCode>>  BY <1>6, FederationFactors
  <2>6. UsesMove /\ CodesMove  BY <2>2, <2>5, Zenon DEF UsesMove, CodesMove
  <2>7. YieldsMove  BY <1>2, <1>6, FederationYields
  <2>8. FlowsMove  BY <1>1, <1>2, <1>6, FederationFlows
  <2> QED  BY <2>4, <2>6, <2>7, <2>8, Zenon DEF SpentMove
<1>7. CASE AccountAdminNext
  <2>1. Moves(AdminAt)  BY <1>2, <1>7, AdminMoves
  <2>2. UNCHANGED <<signInVars, fedVars>>  BY <1>7, Zenon DEF AccountAdminNext
  <2>3. Calm /\ Aloof  BY <2>1, MovesCalm, UnstakedLabels, AloofLabels, MovesAloof
  <2>4. RedeemMove /\ OwedMove  BY <2>2, <2>3, CalmMoves, Zenon
  <2>5. UsesMove /\ CodesMove  BY <1>1, <1>2, <1>7, AdminFactors
  <2>6. YieldsMove  BY <1>2, <1>7, AdminYields
  <2>7. FlowsMove  BY <1>1, <2>2, <2>3, NoFlow, Zenon
  <2> QED  BY <2>4, <2>5, <2>6, <2>7, Zenon DEF SpentMove
<1>8. ASSUME Calm, Aloof, UNCHANGED <<factors, inv, yields, withdrawn, signInVars, flow, begun, grants, completed, popped>>
      PROVE  SpentMove
  <2>1. RedeemMove /\ OwedMove  BY <1>8, CalmMoves, Zenon
  <2>2. UsesMove /\ CodesMove  BY <1>8, Zenon DEF UsesMove, CodesMove
  <2>3. YieldsMove /\ FlowsMove  BY <1>1, <1>8, SameInvites, NoFlow, Zenon
  <2> QED  BY <2>1, <2>2, <2>3, Zenon DEF SpentMove
<1>9. ASSUME NEW p \in Procs, Abort(p)
      PROVE  SpentMove
  <2>1. Finish(p) /\ UNCHANGED <<factors, inv, yields, withdrawn, signInVars, flow, begun, grants, completed, popped>>
    BY <1>9, Zenon DEF Abort
  <2>2. Calm /\ Aloof  BY <1>2, <2>1, FinishCalm, FinishLeaves
  <2> QED  BY <1>8, <2>1, <2>2
<1>10. CASE Tick \/ UNCHANGED vars
  <2>1. UNCHANGED <<frame, factors, inv, yields, withdrawn, signInVars, flow, begun, grants, completed, popped>>
    BY <1>10, Zenon DEF Tick, vars
  <2>2. Calm /\ Aloof  BY <2>1, Zenon DEF Calm, Aloof
  <2> QED  BY <1>8, <2>1, <2>2, Zenon
<1> QED  BY <1>3, <1>4, <1>5, <1>6, <1>7, <1>9, <1>10, Zenon DEF Next

LEMMA InitSpent ==
    ASSUME Init
    PROVE  SpentInv
<1> USE DirectoryAssumption, SignInAssumption, IdentityAssumption, LimitsAssumption
<1>1. pc = [p \in Procs |-> "idle"] /\ loc = [p \in Procs |-> Blank]  BY Zenon DEF Init
<1>2. \A p \in Procs : pc[p] = "idle"  BY <1>1
<1>3. RedeemedOK
  <2>1. /\ minted = (IF "halfway" \in ops THEN Tokens ELSE {}) /\ ceremony = [t \in Tokens |-> NoEntry]
        /\ partial = [t \in Tokens |-> IF t \in minted THEN Entry(Focus, clock + CeremonyTTL) ELSE NoEntry]
        /\ redeemed = [t \in Tokens |-> 0]
    BY Zenon DEF Init, SignInInit
  <2>2. \A p \in Procs : \A t : ~Claims(pc[p], loc[p], t)  BY <1>2 DEF Claims
  <2>3. \A t \in Tokens : TokenOnce(t)  BY <2>1, <2>2 DEF TokenOnce, Open, Unclaimed
  <2> QED  BY <2>1, <2>3 DEF RedeemedOK
<1>4. OwedOK
  <2>1. intent = [s \in Sids |-> NoEntry] /\ owed = [s \in Sids |-> 0]  BY Zenon DEF Init, SignInInit
  <2>2. \A s : Pledgers(s) = {}  BY <1>2 DEF Pledgers, Pledges
  <2>3. \A s : Cardinality(Pledgers(s)) = 0  BY <2>2, FS_EmptySet
  <2> QED  BY <2>1, <2>3 DEF OwedOK, Stored
<1>5. UsesOK
  <2>1. /\ totp = [a \in Accounts |-> IF Present(a) THEN [sec |-> 1, last |-> 0] ELSE NoTotp]
        /\ uses = [a \in Accounts |-> [c \in Codes |-> 0]]
    BY Zenon DEF Init, SignInInit
  <2> QED  BY <2>1 DEF UsesOK, NoTotp
<1>6. CodesOK
  <2>1. /\ codes = [a \in Accounts |-> IF a = Root THEN {1} ELSE {}] /\ nextCode = 2
        /\ spent = [c \in 1..MaxCode |-> 0]
    BY Zenon DEF Init, SignInInit
  <2> QED  BY <2>1 DEF CodesOK
<1>7. YieldsOK
  <2>1. inv = [t \in Invites |-> NoInvite] /\ yields = [t \in Invites |-> 0] /\ withdrawn = {}
    BY Zenon DEF Init, EnrollInit
  <2> QED  BY <2>1 DEF YieldsOK
<1>8. CompletedOK
  <2>1. /\ flow = [f \in Flows |-> NoEntry] /\ grants = [f \in Flows |-> NoEntry]
        /\ completed = [f \in Flows |-> 0] /\ popped = [f \in Flows |-> 0]
    BY Zenon DEF Init, FederationInit
  <2>2. \A p \in Procs : \A f : ~At(p, "flowResolve", f) /\ ~At(p, "fedDone", f)  BY <1>2 DEF At
  <2>3. \A f \in Flows : FlowOnce(f)  BY <2>1, <2>2 DEF FlowOnce, Nobody
  <2> QED  BY <2>1, <2>3 DEF CompletedOK
<1> QED  BY <1>3, <1>4, <1>5, <1>6, <1>7, <1>8 DEF SpentInv

LEMMA SpentOnce ==
    ASSUME SpentInv
    PROVE  ProofsSpentOnce
<1>1. \A a \in Accounts, c \in Codes : uses[a][c] <= 1  BY DEF SpentInv, UsesOK
<1>2. \A c \in 1..MaxCode : spent[c] <= 1  BY DEF SpentInv, CodesOK
<1>3. \A t \in Tokens : redeemed[t] <= 1  BY DEF SpentInv, RedeemedOK
<1>4. \A s \in Sids : owed[s] >= 0  BY DEF SpentInv, OwedOK
<1>5. \A t \in Invites : yields[t] + (IF t \in withdrawn THEN 1 ELSE 0) <= 1  BY DEF SpentInv, YieldsOK
<1>6. \A f \in Flows : completed[f] <= 1 /\ popped[f] <= 1  BY DEF SpentInv, CompletedOK
<1> QED  BY <1>1, <1>2, <1>3, <1>4, <1>5, <1>6 DEF ProofsSpentOnce

\* Whatever proves an identity buys one thing once, whoever presents it and however the
\* requests interleave: a code of the current authenticator (totp.go:183), a recovery
\* code (recovery_code.sql.go:15), a partial session or passkey ceremony
\* (handle_auth_password.go:338), a sudo intent (handle_sudo.go:229), an enrollment
\* token (enrollment.sql.go:124), a federation flow (service.go:399) and the grant to
\* confirm its identity (service.go:492).
THEOREM ProofsAlwaysSpentOnce == Spec => []ProofsSpentOnce
<1>1. Init => SpentInv  BY InitSpent
<1>2. SpentInv /\ TablesInv /\ [Next]_vars => SpentInv'  BY SpentStep, SpentMoved
<1>3. SpentInv => ProofsSpentOnce  BY SpentOnce
<1> QED  BY <1>1, <1>2, <1>3, TablesHold, PTL DEF Spec

-----------------------------------------------------------------------------
(* Mailed codes                                                              *)

\* A stored record is of the one code it was stored with, and counts the guesses that
\* were compared with that code, of which none was accepted.
CodeFields == {"gen", "a", "n"}
Counted(rec) ==
    /\ DOMAIN rec = CodeFields /\ rec.gen \in 1..MaxIssued /\ rec.gen <= issued
    /\ rec.n = tries[rec.gen] /\ wins[rec.gen] = 0
Stores(m, g) == mailCode[m] # NoEntry /\ mailCode[m].val.gen = g
GuessesOK ==
    /\ DOMAIN mailCode = Mails /\ issued \in Nat
    /\ tries \in [1..MaxIssued -> 0..MaxCodeAttempts] /\ wins \in [1..MaxIssued -> 0..1]
    /\ \A g \in 1..MaxIssued : g > issued => tries[g] = 0 /\ wins[g] = 0
    /\ \A m \in Mails : mailCode[m] # NoEntry => Counted(mailCode[m].val)
    /\ \A m, k \in Mails : \A g : Stores(m, g) /\ Stores(k, g) => k = m

\* A request that is about to claim an attempt read a record that has one left.
ClaimsOK == \A p \in Procs : pc[p] = "codeClaim" => loc[p].rec.n < MaxCodeAttempts

LEMMA SendGuesses ==
    ASSUME GuessesOK, NEW s, NEW m \in Mails, NEW delivered, SendMyEmailCode(s, m, delivered)
    PROVE  GuessesOK'
<1> USE LimitsAssumption
<1>1. PICK g, x : g = issued + 1 /\ x = [gen |-> g, a |-> sess[s].a, n |-> 0]  OBVIOUS
<1>2. /\ issued < MaxIssued /\ issued' = g /\ UNCHANGED <<tries, wins>>
      /\ mailCode' = SetEx(mailCode, m, x, CodeTTL, clock) \/ mailCode' = Del(mailCode, m)
  BY <1>1, Zenon DEF SendMyEmailCode
<1>3. g \in 1..MaxIssued /\ g > issued /\ tries[g] = 0 /\ wins[g] = 0
  BY <1>1, <1>2 DEF GuessesOK
<1>4. DOMAIN x = CodeFields /\ x.gen = g /\ x.n = 0  BY <1>1 DEF CodeFields
<1>5. /\ DOMAIN mailCode' = Mails /\ (\A k \in Mails \ {m} : mailCode'[k] = mailCode[k])
      /\ mailCode'[m] = NoEntry \/ mailCode'[m].val = x
  BY <1>2, SetExCells, DelCells DEF GuessesOK
<1>6. ASSUME NEW k \in Mails, mailCode'[k] # NoEntry
      PROVE  Counted(mailCode[k].val)'
  <2>1. CASE k = m
    <3>1. mailCode'[k].val = x  BY <1>5, <1>6, <2>1
    <3>2. issued' = g /\ tries'[g] = 0 /\ wins'[g] = 0 /\ g <= g  BY <1>2, <1>3
    <3> QED  BY <1>3, <1>4, <3>1, <3>2, Zenon DEF Counted
  <2>2. CASE k # m
    <3>1. mailCode'[k] = mailCode[k] /\ Counted(mailCode[k].val)  BY <1>5, <1>6, <2>2 DEF GuessesOK
    <3> QED  BY <1>1, <1>2, <3>1 DEF Counted, GuessesOK
  <2> QED  BY <2>1, <2>2
<1>7. ASSUME NEW j \in Mails, NEW k \in Mails, NEW h, Stores(j, h)', Stores(k, h)'
      PROVE  j = k
  <2>1. ASSUME NEW i \in Mails, Stores(i, h)'
        PROVE  IF i = m THEN h = g ELSE Stores(i, h) /\ h <= issued
    BY <1>4, <1>5, <2>1 DEF Stores, GuessesOK, Counted
  <2>2. h = g => ~(h <= issued)  BY <1>1 DEF GuessesOK
  <2> QED  BY <1>7, <2>1, <2>2 DEF GuessesOK
<1> QED  BY <1>1, <1>2, <1>3, <1>5, <1>6, <1>7 DEF GuessesOK

LEMMA ClaimGuesses ==
    ASSUME GuessesOK, ClaimsOK, HeldOK, NEW p \in Procs, CodeClaim(p)
    PROVE  GuessesOK'
<1> USE LimitsAssumption
<1>0. clock \in Nat /\ pc[p] = "codeClaim" /\ UNCHANGED <<issued, wins>>
  BY Zenon DEF HeldOK, HoldersOK, CodeClaim
<1>1. CASE UNCHANGED <<mailCode, tries>>  BY <1>0, <1>1 DEF GuessesOK, Counted, Stores
<1>2. CASE ClaimWins(loc[p].m, loc[p].rec) /\ ~UNCHANGED <<mailCode, tries>>
  <2>1. PICK m, rec, g, x : m = loc[p].m /\ rec = loc[p].rec /\ g = rec.gen /\ x = Claimed(rec)  OBVIOUS
  <2>2. m \in Mails /\ rec.n < MaxCodeAttempts
    BY <1>0, <2>1 DEF HeldOK, FrameOK, Holder, ClaimsOK
  <2>3. /\ mailCode' = SetEx(mailCode, m, x, CodeTTL, clock)
        /\ tries' = [tries EXCEPT ![g] = @ + 1]
        /\ Found(mailCode, m, clock) /\ mailCode[m].val = rec
    BY <1>2, <2>1, Zenon DEF CodeClaim, ClaimWins, Holds
  <2>4. mailCode[m] # NoEntry /\ Stores(m, g) /\ Counted(rec)
    BY <1>0, <2>1, <2>2, <2>3, FoundEntry DEF Stores, GuessesOK
  <2>5. /\ g \in 1..MaxIssued /\ g <= issued /\ wins[g] = 0 /\ tries[g] = rec.n
        /\ DOMAIN x = CodeFields /\ x.gen = g /\ x.n = rec.n + 1
    BY <2>1, <2>4 DEF Counted, Claimed, CodeFields
  <2>6. /\ DOMAIN mailCode' = Mails /\ (\A k \in Mails \ {m} : mailCode'[k] = mailCode[k])
        /\ mailCode'[m].val = x
    BY <2>2, <2>3, SetExCells DEF GuessesOK
  <2>7. tries' \in [1..MaxIssued -> 0..MaxCodeAttempts] /\ tries'[g] = x.n
        /\ \A h \in 1..MaxIssued : h # g => tries'[h] = tries[h]
    BY <2>2, <2>3, <2>5 DEF GuessesOK
  <2>8. \A k \in Mails : \A h : Stores(k, h)' => Stores(k, h)
    BY <2>4, <2>5, <2>6 DEF Stores
  <2>9. ASSUME NEW k \in Mails, mailCode'[k] # NoEntry
        PROVE  Counted(mailCode[k].val)'
    <3>1. CASE k = m  BY <1>0, <2>5, <2>6, <2>7, <3>1 DEF Counted
    <3>2. CASE k # m
      <4>1. mailCode'[k] = mailCode[k] /\ Counted(mailCode[k].val)  BY <2>6, <2>9, <3>2 DEF GuessesOK
      <4>2. mailCode[k].val.gen # g  BY <2>2, <2>4, <2>9, <3>2, <4>1 DEF GuessesOK, Stores
      <4> QED  BY <1>0, <2>7, <4>1, <4>2 DEF Counted
    <3> QED  BY <3>1, <3>2
  <2>10. \A j, k \in Mails : \A h : Stores(j, h)' /\ Stores(k, h)' => k = j  BY <2>8 DEF GuessesOK
  <2>11. \A h \in 1..MaxIssued : h > issued' => tries'[h] = 0 /\ wins'[h] = 0
    BY <1>0, <2>5, <2>7 DEF GuessesOK
  <2> QED  BY <1>0, <2>6, <2>7, <2>9, <2>10, <2>11 DEF GuessesOK
<1> QED  BY <1>1, <1>2, Zenon DEF CodeClaim

LEMMA CompareGuesses ==
    ASSUME GuessesOK, HeldOK, NEW p \in Procs, CodeCompare(p)
    PROVE  GuessesOK'
<1>0. clock \in Nat /\ pc[p] = "codeCompare" /\ UNCHANGED <<issued, tries>>
  BY Zenon DEF HeldOK, HoldersOK, CodeCompare
<1>1. PICK m, rec, g : m = loc[p].m /\ rec = loc[p].rec /\ g = rec.gen  OBVIOUS
<1>2. m \in Mails  BY <1>0, <1>1 DEF HeldOK, FrameOK, Holder
<1>3. CASE UNCHANGED <<mailCode, wins>>  BY <1>0, <1>3 DEF GuessesOK, Counted, Stores
<1>4. CASE /\ Found(mailCode, m, clock) /\ mailCode[m].val = rec /\ mailCode' = Del(mailCode, m)
           /\ wins' = [wins EXCEPT ![g] = @ + 1] \/ UNCHANGED wins
  <2>1. mailCode[m] # NoEntry /\ Stores(m, g) /\ Counted(rec)
    BY <1>0, <1>1, <1>2, <1>4, FoundEntry DEF Stores, GuessesOK
  <2>2. g \in 1..MaxIssued /\ g <= issued /\ wins[g] = 0  BY <1>1, <2>1 DEF Counted
  <2>3. /\ DOMAIN mailCode' = Mails /\ (\A k \in Mails \ {m} : mailCode'[k] = mailCode[k])
        /\ mailCode'[m] = NoEntry
    BY <1>2, <1>4, DelCells DEF GuessesOK
  <2>4. wins' \in [1..MaxIssued -> 0..1] /\ \A h \in 1..MaxIssued : h # g => wins'[h] = wins[h]
    <3>1. wins \in [1..MaxIssued -> 0..1]  BY DEF GuessesOK
    <3>2. CASE wins' = [wins EXCEPT ![g] = @ + 1]  BY <2>2, <3>1, <3>2
    <3> QED  BY <1>4, <3>1, <3>2
  <2>5. \A k \in Mails : \A h : Stores(k, h)' => Stores(k, h) /\ k # m  BY <2>3 DEF Stores
  <2>6. ASSUME NEW k \in Mails, mailCode'[k] # NoEntry
        PROVE  Counted(mailCode[k].val)'
    <3>1. k # m /\ mailCode'[k] = mailCode[k] /\ Counted(mailCode[k].val)  BY <2>3, <2>6 DEF GuessesOK
    <3>2. mailCode[k].val.gen # g  BY <1>2, <2>1, <2>6, <3>1 DEF GuessesOK, Stores
    <3> QED  BY <1>0, <2>4, <3>1, <3>2 DEF Counted
  <2>7. \A j, k \in Mails : \A h : Stores(j, h)' /\ Stores(k, h)' => k = j  BY <2>5 DEF GuessesOK
  <2>8. \A h \in 1..MaxIssued : h > issued' => tries'[h] = 0 /\ wins'[h] = 0
    BY <1>0, <2>2, <2>4 DEF GuessesOK
  <2> QED  BY <1>0, <2>3, <2>4, <2>6, <2>7, <2>8 DEF GuessesOK
<1> QED  BY <1>1, <1>3, <1>4, Zenon DEF CodeCompare, Holds

\* Nobody comes to claim but with a record that has an attempt left.
Unclaiming == \A q \in Procs : (pc'[q] = pc[q] /\ loc'[q] = loc[q]) \/ pc'[q] # "codeClaim" \/ loc'[q].rec.n < MaxCodeAttempts

LEMMA ClaimsKept ==
    ASSUME ClaimsOK, Unclaiming
    PROVE  ClaimsOK'
BY DEF ClaimsOK, Unclaiming

LEMMA MovesUnclaiming ==
    ASSUME NEW L, Moves(L), "codeClaim" \notin L
    PROVE  Unclaiming
BY DEF Moves, Unclaiming

LEMMA GuessesSame ==
    ASSUME GuessesOK, UNCHANGED <<mailCode, issued, tries, wins>>
    PROVE  GuessesOK'
BY DEF GuessesOK, Counted, Stores

LEMMA EmailGuesses ==
    ASSUME GuessesOK, ClaimsOK, HeldOK, EmailNext
    PROVE  GuessesOK' /\ Unclaiming
<1> USE DEF codeVars, emailVars, directory, frame
<1>0. FrameOK  BY DEF HeldOK
<1>1. ASSUME NEW s, NEW m \in Mails, NEW delivered, SendMyEmailCode(s, m, delivered)
      PROVE  GuessesOK' /\ Unclaiming
  <2>1. UNCHANGED <<pc, loc>>  BY <1>1, Zenon DEF SendMyEmailCode
  <2> QED  BY <1>1, <2>1, SendGuesses DEF Unclaiming
<1>2. ASSUME NEW p \in Procs, NEW s, NEW m \in Mails, NEW right, VerifyMyEmail(p, s, m, right)
      PROVE  GuessesOK' /\ Unclaiming
  <2>1. PICK rec, l : rec = mailCode[m].val /\ l = [op |-> "emailcode", a |-> rec.a, m |-> m, rec |-> rec, right |-> right]
    OBVIOUS
  <2>2. rec.n < MaxCodeAttempts /\ Set(p, l) /\ Goto(p, "codeClaim") /\ UNCHANGED <<mailCode, issued, tries, wins>>
    BY <1>2, <2>1, Zenon DEF VerifyMyEmail
  <2>3. Only(p, "codeClaim", l) /\ l.rec = rec  BY <1>0, <2>1, <2>2, Moved
  <2>4. Unclaiming  BY <2>2, <2>3 DEF Only, Unclaiming
  <2> QED  BY <2>2, <2>4, GuessesSame
<1>3. ASSUME NEW p \in Procs, NEW l, l # "codeClaim", Goto(p, l), UNCHANGED loc \/ \E v : Set(p, v)
      PROVE  Unclaiming
  BY <1>0, <1>3 DEF Goto, Set, FrameOK, Unclaiming
<1>4. ASSUME NEW p \in Procs, CodeClaim(p) \/ CodeCompare(p) \/ MailVerify(p)
      PROVE  GuessesOK' /\ Unclaiming
  <2>1. \E l \in {"codeCompare", "mailVerify", "idle"} : Goto(p, l) /\ (UNCHANGED loc \/ \E v : Set(p, v))
    BY <1>4, Zenon DEF CodeClaim, CodeCompare, MailVerify, Finish
  <2>2. Unclaiming  BY <1>3, <2>1
  <2>3. ASSUME MailVerify(p)  PROVE GuessesOK'  BY <2>3, GuessesSame, Zenon DEF MailVerify
  <2> QED  BY <1>4, <2>2, <2>3, ClaimGuesses, CompareGuesses
<1>5. ASSUME UNCHANGED <<pc, loc, mailCode, issued, tries, wins>>
      PROVE  GuessesOK' /\ Unclaiming
  BY <1>5, GuessesSame DEF Unclaiming
<1>6. ASSUME NEW s \in Sids, NEW m \in Mails,
             \/ SetMyEmailPrimary(s, m) \/ DeleteMyEmail(s, m) \/ VerifyAccountEmail(s, m)
             \/ SetAccountEmailPrimary(s, m) \/ DeleteAccountEmail(s, m)
      PROVE  GuessesOK' /\ Unclaiming
  BY <1>5, <1>6, Zenon DEF SetMyEmailPrimary, DeleteMyEmail, VerifyAccountEmail, SetAccountEmailPrimary, DeleteAccountEmail
<1>7. ASSUME NEW s \in Sids, NEW addr,
             AddMyEmail(s, addr) \/ \E a, ver, primary : AddAccountEmail(s, a, addr, ver, primary)
      PROVE  GuessesOK' /\ Unclaiming
  BY <1>5, <1>7, Zenon DEF AddMyEmail, AddAccountEmail
<1> QED  BY <1>1, <1>2, <1>4, <1>6, <1>7, Zenon DEF EmailNext, MailStep

-----------------------------------------------------------------------------
(* Failures counted while the factor was locked                              *)

\* The requests that passed CheckLocked for the factor and have still to fail or succeed.
Triers(a, f) == {p \in Procs : Tries(pc[p], loc[p], a, f)}

\* While a factor is locked nobody new tries it, so the failures that are counted are
\* those of requests that were on their way; the one that locked it is not.
Few(a, f) ==
    /\ overrun[<<a, f>>] < Cardinality(Procs)
    /\ Locked(a, f) => overrun[<<a, f>>] + Cardinality(Triers(a, f)) < Cardinality(Procs)
Rows == [n : Nat, until : Nat]
OverrunOK ==
    /\ throttle \in [Accounts \X Factors -> Rows] /\ overrun \in [Accounts \X Factors -> Nat]
    /\ \A a \in Accounts, f \in Factors : Few(a, f)

TriersFall == \A a, f : Triers(a, f)' \subseteq Triers(a, f)
TriersGain == \A a, f : Locked(a, f) => Triers(a, f)' \subseteq Triers(a, f)
Resets == \E a \in Accounts, f \in Factors : ResetThrottle(a, f)
Failing(a, f) == RegisterFailure(a, f) /\ \E p : p \in Triers(a, f) /\ p \notin Triers(a, f)'
OverrunMove ==
    /\ clock \in Nat /\ clock' \in Nat /\ clock <= clock'
    /\ \/ TriersGain /\ UNCHANGED <<throttle, overrun>>
       \/ TriersFall /\ UNCHANGED clock /\ (Resets \/ \E a \in Accounts, f \in Factors : Failing(a, f))

LEMMA TriersFinite ==
    ASSUME NEW a, NEW f
    PROVE  IsFiniteSet(Triers(a, f)) /\ Cardinality(Triers(a, f)) \in Nat /\ Cardinality(Procs) \in Nat /\ Cardinality(Procs) > 0
<1>1. IsFiniteSet(Procs) /\ Procs # {}  BY LimitsAssumption
<1>2. Triers(a, f) \subseteq Procs  BY DEF Triers
<1>3. Cardinality(Procs) # 0  BY <1>1, FS_EmptySet
<1> QED  BY <1>1, <1>2, <1>3, FS_Subset, FS_CardinalityType

LEMMA FewerTriers ==
    ASSUME NEW a, NEW f, Triers(a, f)' \subseteq Triers(a, f)
    PROVE  Cardinality(Triers(a, f)') \in Nat /\ Cardinality(Triers(a, f)') <= Cardinality(Triers(a, f))
<1>1. IsFiniteSet(Triers(a, f))  BY TriersFinite
<1> QED  BY <1>1, FS_Subset, FS_CardinalityType

LEMMA OneLess ==
    ASSUME NEW S, IsFiniteSet(S), NEW R, R \subseteq S, NEW x, x \in S, x \notin R
    PROVE  Cardinality(R) \in Nat /\ Cardinality(S) \in Nat /\ Cardinality(R) + 1 <= Cardinality(S)
<1>1. R \subseteq S \ {x}  OBVIOUS
<1>2. IsFiniteSet(S \ {x}) /\ Cardinality(S \ {x}) = Cardinality(S) - 1  BY FS_RemoveElement
<1>3. Cardinality(R) \in Nat /\ Cardinality(R) <= Cardinality(S \ {x})  BY <1>1, <1>2, FS_Subset, FS_CardinalityType
<1> QED  BY <1>2, <1>3, FS_CardinalityType

\* The row after a failure.
LEMMA BumpedRow ==
    ASSUME clock \in Nat, NEW r \in Rows
    PROVE  BumpAuthThrottle(r) \in Rows
<1>1. Len(Schedule) \in Nat /\ Len(Schedule) > 0 /\ \A n \in 1..Len(Schedule) : Schedule[n] \in Nat  BY SignInAssumption
<1>2. PICK n : n = IF r.n < Len(Schedule) THEN r.n + 1 ELSE Len(Schedule)  OBVIOUS
<1>3. n \in 1..Len(Schedule)  BY <1>1, <1>2 DEF Rows
<1>4. PICK u : u = IF Schedule[n] > 0 THEN clock + Schedule[n] ELSE 0  OBVIOUS
<1>5. u \in Nat  BY <1>1, <1>3, <1>4
<1>6. BumpAuthThrottle(r) = [n |-> n, until |-> u]  BY <1>2, <1>4, Zenon DEF BumpAuthThrottle
<1> QED  BY <1>3, <1>5, <1>6 DEF Rows

LEMMA OverrunMoved ==
    ASSUME OverrunOK, OverrunMove
    PROVE  OverrunOK'
<1>0. throttle \in [Accounts \X Factors -> Rows] /\ overrun \in [Accounts \X Factors -> Nat]
  BY DEF OverrunOK
<1>1. clock \in Nat /\ clock' \in Nat /\ clock <= clock'  BY DEF OverrunMove
\* A pair whose row and count stay, and that nobody tries anew while it is locked.
<1>2. ASSUME NEW a \in Accounts, NEW f \in Factors, throttle'[<<a, f>>] = throttle[<<a, f>>], overrun'[<<a, f>>] = overrun[<<a, f>>],
             Locked(a, f) => Triers(a, f)' \subseteq Triers(a, f)
      PROVE  Few(a, f)'
  <2>1. Few(a, f) /\ overrun[<<a, f>>] \in Nat /\ throttle[<<a, f>>].until \in Nat  BY <1>0 DEF OverrunOK, Rows
  <2>2. Locked(a, f)' => Locked(a, f)  BY <1>1, <1>2, <2>1 DEF Locked
  <2>3. CASE ~Locked(a, f)'  BY <1>2, <2>1, <2>3 DEF Few
  <2>4. CASE Locked(a, f)'
    <3>1. Cardinality(Triers(a, f)') \in Nat /\ Cardinality(Triers(a, f)') <= Cardinality(Triers(a, f))
      BY <1>2, <2>2, <2>4, FewerTriers
    <3>2. overrun[<<a, f>>] + Cardinality(Triers(a, f)) < Cardinality(Procs)  BY <2>1, <2>2, <2>4 DEF Few
    <3>3. Cardinality(Triers(a, f)) \in Nat /\ Cardinality(Procs) \in Nat  BY TriersFinite
    <3>4. overrun[<<a, f>>] + Cardinality(Triers(a, f)') < Cardinality(Procs)  BY <2>1, <3>1, <3>2, <3>3
    <3> QED  BY <1>2, <2>1, <3>4 DEF Few
  <2> QED  BY <2>3, <2>4
<1>3. CASE TriersGain /\ UNCHANGED <<throttle, overrun>>
  <2>1. \A a \in Accounts, f \in Factors : Few(a, f)'  BY <1>2, <1>3 DEF TriersGain
  <2> QED  BY <1>0, <1>3, <2>1 DEF OverrunOK
<1>4. ASSUME TriersFall, UNCHANGED clock, NEW a \in Accounts, NEW f \in Factors, NEW r \in Rows, NEW n \in Nat,
             throttle' = [throttle EXCEPT ![<<a, f>>] = r], overrun' = [overrun EXCEPT ![<<a, f>>] = n], Few(a, f)'
      PROVE  OverrunOK'
  <2>1. throttle' \in [Accounts \X Factors -> Rows] /\ overrun' \in [Accounts \X Factors -> Nat]  BY <1>0, <1>4
  <2>2. ASSUME NEW b \in Accounts, NEW g \in Factors
        PROVE  Few(b, g)'
    <3>1. CASE b = a /\ g = f  BY <1>4, <3>1
    <3>2. CASE ~(b = a /\ g = f)
      <4>1. <<b, g>> # <<a, f>> /\ <<b, g>> \in Accounts \X Factors  BY <3>2
      <4>2. throttle'[<<b, g>>] = throttle[<<b, g>>] /\ overrun'[<<b, g>>] = overrun[<<b, g>>]  BY <1>0, <1>4, <4>1
      <4>3. Triers(b, g)' \subseteq Triers(b, g)  BY <1>4 DEF TriersFall
      <4> QED  BY <1>2, <4>2, <4>3
    <3> QED  BY <3>1, <3>2
  <2> QED  BY <2>1, <2>2 DEF OverrunOK
<1>5. ASSUME TriersFall, UNCHANGED clock, NEW a \in Accounts, NEW f \in Factors, ResetThrottle(a, f)
      PROVE  OverrunOK'
  <2>0. PICK r, n : r = NoRow /\ n = 0  OBVIOUS
  <2>1. throttle' = [throttle EXCEPT ![<<a, f>>] = r] /\ overrun' = [overrun EXCEPT ![<<a, f>>] = n]
    BY <1>5, <2>0, Zenon DEF ResetThrottle
  <2>2. r \in Rows /\ r.until = 0 /\ n \in Nat  BY <2>0 DEF NoRow, Rows
  <2>3. throttle'[<<a, f>>] = r /\ overrun'[<<a, f>>] = 0  BY <1>0, <2>0, <2>1
  <2>4. ~Locked(a, f)'  BY <1>1, <2>2, <2>3 DEF Locked
  <2>5. Few(a, f)'  BY <2>3, <2>4, TriersFinite DEF Few
  <2> QED  BY <1>4, <1>5, <2>1, <2>2, <2>5
<1>6. ASSUME TriersFall, UNCHANGED clock, NEW a \in Accounts, NEW f \in Factors, Failing(a, f)
      PROVE  OverrunOK'
  <2>1. PICK r, n : r = BumpAuthThrottle(throttle[<<a, f>>]) /\ n = IF Locked(a, f) THEN overrun[<<a, f>>] + 1 ELSE 0
    OBVIOUS
  <2>2. throttle' = [throttle EXCEPT ![<<a, f>>] = r] /\ overrun' = [overrun EXCEPT ![<<a, f>>] = n]
    BY <1>6, <2>1, Zenon DEF Failing, RegisterFailure, Locked
  <2>3. r \in Rows /\ n \in Nat  BY <1>0, <1>1, <2>1, BumpedRow
  <2>4. overrun'[<<a, f>>] = n  BY <1>0, <2>2
  <2>5. PICK p : p \in Triers(a, f) /\ p \notin Triers(a, f)'  BY <1>6 DEF Failing
  <2>6. Triers(a, f)' \subseteq Triers(a, f) /\ Triers(a, f) \subseteq Procs /\ IsFiniteSet(Procs)
    BY <1>6, LimitsAssumption DEF TriersFall, Triers
  <2>7. /\ Cardinality(Triers(a, f)') \in Nat /\ Cardinality(Triers(a, f)) \in Nat
        /\ Cardinality(Triers(a, f)') + 1 <= Cardinality(Triers(a, f))
    BY <2>5, <2>6, TriersFinite, OneLess
  <2>8. Cardinality(Procs) \in Nat /\ Cardinality(Triers(a, f)) <= Cardinality(Procs)
    BY <2>6, FS_Subset, FS_CardinalityType
  <2>9. Locked(a, f) => overrun[<<a, f>>] + Cardinality(Triers(a, f)) < Cardinality(Procs)
    BY DEF OverrunOK, Few
  <2>10. overrun[<<a, f>>] \in Nat  BY <1>0
  <2>11. n + Cardinality(Triers(a, f)') < Cardinality(Procs)  BY <2>1, <2>7, <2>8, <2>9, <2>10
  <2>12. Few(a, f)'  BY <2>3, <2>4, <2>7, <2>8, <2>11 DEF Few
  <2> QED  BY <1>4, <1>6, <2>2, <2>3, <2>12
<1> QED  BY <1>3, <1>5, <1>6, Zenon DEF OverrunMove, Resets

LEMMA TakesTries ==
    ASSUME NEW p, NEW T, NEW S, Takes(p, T, S)
    PROVE  TriersGain
BY DEF Takes, Gains, TriersGain, Triers

LEMMA FallsTries ==
    ASSUME Falls
    PROVE  TriersFall
BY DEF Falls, Gains, TriersFall, Triers

LEMMA CalmTries ==
    ASSUME Calm
    PROVE  TriersGain /\ TriersFall
BY CalmFalls, FallsTries DEF TriersGain, TriersFall

LEMMA OverrunEffect ==
    ASSUME HeldOK, SignInNext
    PROVE  OverrunMove
<1> USE DEF stashes, signInVars, signInHistory, tables, directory
<1> DEFINE Same == UNCHANGED <<throttle, overrun>>
<1>0. clock \in Nat /\ FrameOK  BY DEF HeldOK, HoldersOK
<1>1. UNCHANGED clock  BY SignInEffects, Zenon DEF SignInEffect
<1>2. clock \in Nat /\ clock' \in Nat /\ clock <= clock'  BY <1>0, <1>1
<1>3. ASSUME TriersGain, Same  PROVE OverrunMove  BY <1>2, <1>3, Zenon DEF OverrunMove
<1>4. ASSUME Manages \/ Offers
      PROVE  Same
  BY <1>4, Zenon DEF Manages, Offers, PasswordSet, PasswordTotpEnroll, TotpReenroll, RevokePwdTotp, AddKeyBegin, Logout,
     RevokeMySession, DeleteKey, Unlink, LoginBegin, SudoBegin
<1>5. ASSUME NEW p \in Procs, FactorStep(p)
      PROVE  Same
  BY <1>5, Zenon DEF FactorStep, RegenerateBegin, RegenerateDelete, RegenerateCommit, AddKeyInsert, AddKeyDone
<1>6. ASSUME NEW p \in Procs, (\E t : Pops(p, t)) \/ \E s : Withdraws(p, s)
      PROVE  Same
  BY <1>6, Zenon DEF Pops, TotpVerify, RecoveryVerify, LoginComplete, Withdraws, SudoCompletePassword, SudoCompleteKey
<1>7. ASSUME NEW p \in Procs, GoesOn(p)
      PROVE  Same \/ PasswordSudo(p)
  BY <1>7, Zenon DEF GoesOn, PasswordBegin, TotpSudo, TotpUpdate, RecoveryRedeem
<1>8. ASSUME NEW p \in Procs, PasskeySignsIn(p) \/ SudoByKey(p)
      PROVE  Same
  BY <1>8, Zenon DEF PasskeySignsIn, SudoByKey
<1> HIDE DEF Same
<1>9. \A p \in Procs : pc[p] \in {"pwVerify", "totpUpdate", "totpDone", "rcTx", "rcDone"} => loc[p].a \in Accounts
  BY <1>0 DEF FrameOK, Holder, Acting
<1>10. ASSUME NEW p \in Procs, TriersFall, NEW f \in Factors, ResetThrottle(loc[p].a, f), loc[p].a \in Accounts
       PROVE  OverrunMove
  BY <1>1, <1>2, <1>10, Zenon DEF OverrunMove, Resets
<1>11. "password" \in Factors /\ "totp" \in Factors /\ "recovery_code" \in Factors  BY DEF Factors
<1>12. ASSUME NEW p \in Procs, PasswordSudo(p)
       PROVE  OverrunMove
  <2>1. TriersFall  BY <1>12, PasswordTakes, FallsTries
  <2>2. pc[p] = "pwVerify" /\ ResetThrottle(loc[p].a, "password")  BY <1>12, Zenon DEF PasswordSudo, PasswordVerified
  <2> QED  BY <1>9, <1>10, <1>11, <2>1, <2>2
<1>13. ASSUME NEW p \in Procs, TriersFall, HalfWay(p) \/ TotpSignsIn(p) \/ RecoverySignsIn(p) \/ SudoByTotp(p)
       PROVE  OverrunMove
  <2>1. \/ pc[p] = "pwVerify" /\ ResetThrottle(loc[p].a, "password")
        \/ pc[p] = "totpDone" /\ ResetThrottle(loc[p].a, "totp")
        \/ pc[p] = "rcDone" /\ ResetThrottle(loc[p].a, "recovery_code")
    BY <1>13, Zenon DEF HalfWay, PasswordCompletes, PasswordVerified, TotpSignsIn, RecoverySignsIn, SudoByTotp
  <2> QED  BY <1>9, <1>10, <1>11, <1>13, <2>1
<1>14. ASSUME NEW p \in Procs, TriersFall, Fails(p), pc'[p] = "idle"
       PROVE  OverrunMove
  <2>1. \/ pc[p] = "pwVerify" /\ RegisterFailure(loc[p].a, "password")
        \/ pc[p] = "totpUpdate" /\ RegisterFailure(loc[p].a, "totp")
        \/ pc[p] = "rcTx" /\ RegisterFailure(loc[p].a, "recovery_code")
    BY <1>14, Zenon DEF Fails, PasswordFails, TotpFails, RecoveryFails
  <2>2. PICK a : a = loc[p].a  OBVIOUS
  <2>3. a \in Accounts  BY <1>9, <2>1, <2>2
  <2>4. \A f \in Factors : p \notin Triers(a, f)'  BY <1>14 DEF Triers, Tries
  <2>5. /\ pc[p] = "pwVerify" => p \in Triers(a, "password")
        /\ pc[p] = "totpUpdate" => p \in Triers(a, "totp")
        /\ pc[p] = "rcTx" => p \in Triers(a, "recovery_code")
    BY <2>2 DEF Triers, Tries
  <2>6. \E f \in Factors : Failing(a, f)  BY <1>11, <2>1, <2>2, <2>4, <2>5, Zenon DEF Failing
  <2> QED  BY <1>1, <1>2, <1>14, <2>3, <2>6, Zenon DEF OverrunMove
<1>15. ASSUME NEW p \in Procs, \/ (\E t \in Tokens : Pops(p, t)) \/ (\E s \in Sids : Withdraws(p, s))
                              \/ (GoesOn(p) /\ ~PasswordSudo(p))
       PROVE  OverrunMove
  <2>1. TriersGain  BY <1>15, SignInStakes, TakesTries, Zenon
  <2> QED  BY <1>3, <1>6, <1>7, <1>15, <2>1
<1>16. ASSUME NEW p \in Procs, Fails(p) \/ SignsIn(p) \/ StepsUp(p) \/ HalfWay(p) \/ FactorStep(p)
       PROVE  OverrunMove
  <2>1. Calm /\ (Fails(p) => pc'[p] = "idle")  BY <1>16, SignInStakes, Zenon
  <2>2. TriersGain /\ TriersFall  BY <2>1, CalmTries
  <2> QED  BY <1>3, <1>5, <1>8, <1>13, <1>14, <1>16, <2>1, <2>2, Zenon DEF SignsIn, StepsUp
<1>17. ASSUME Manages \/ Offers
       PROVE  OverrunMove
  <2>1. TriersGain  BY <1>17, ManagesCalm, CalmTries
  <2> QED  BY <1>3, <1>4, <1>17, <2>1
<1> QED  BY <1>12, <1>15, <1>16, <1>17, SignInKinds, Zenon

-----------------------------------------------------------------------------
(* Guessing                                                                  *)

GuessInv == GuessesOK /\ ClaimsOK /\ OverrunOK

LEMMA FederationCodes ==
    ASSUME FederationNext
    PROVE  UNCHANGED codeVars
<1> USE DEF emailVars, codeVars
<1>1. ASSUME NEW p, NEW u, ResolveStep(p, u)
      PROVE  UNCHANGED codeVars
  BY <1>1, Zenon DEF ResolveStep, ResolveExisting, ResolveLink, ApplyAutoProvision, ApplyInviteProvision, Provision,
     Resolved, AttachInviteIdentity
<1> QED  BY <1>1, Zenon DEF FederationNext

LEMMA AdminCodes ==
    ASSUME AccountAdminNext
    PROVE  UNCHANGED codeVars
<1> USE DEF upper, emailVars, codeVars
<1>1. ASSUME NEW p, NEW s, AdminStep(p, s)
      PROVE  UNCHANGED codeVars
  BY <1>1, Zenon DEF AdminStep, UpdateAccount, SetDisabledRead, DeleteAccountRead
<1>2. ASSUME NEW p, SetDisabledWrite(p) \/ RevokeAll(p) \/ RevokeAllFails(p) \/ DeleteAccount(p)
      PROVE  UNCHANGED codeVars
  BY <1>2, Zenon DEF SetDisabledWrite, RevokeAll, RevokeAllFails, DeleteAccount
<1>3. ASSUME NEW s, \/ \E k : DeleteAccountCredential(s, k)
                    \/ \E a : RevokeAccountSessions(s, a)
                    \/ \E t : RevokeAccountSession(s, t)
                    \/ MaintenanceShows
      PROVE  UNCHANGED codeVars
  BY <1>3, Zenon DEF DeleteAccountCredential, RevokeAccountSessions, RevokeAccountSession, MaintenanceShows
<1> QED  BY <1>1, <1>2, <1>3, Zenon DEF AccountAdminNext

LEMMA ClaimLabels ==
    /\ "codeClaim" \notin SignInAt /\ "codeClaim" \notin EnrollAt /\ "codeClaim" \notin FederationAt
    /\ "codeClaim" \notin AdminAt
BY DEF SignInAt, SignInPcs, EnrollAt, EnrollPcs, FederationAt, FedPcs, AdminAt, AdminPcs

LEMMA GuessStep ==
    ASSUME GuessInv, TablesInv, [Next]_vars
    PROVE  GuessesOK' /\ Unclaiming /\ OverrunMove
<1> USE DEF tables, signInHistory, signInVars, frame, directory, emailVars, codeVars
<1>1. GuessesOK /\ ClaimsOK /\ OverrunOK  BY DEF GuessInv
<1>2. HeldOK /\ FrameOK /\ LinksOK /\ InvitesOK /\ MailOK  BY Zenon DEF TablesInv, IdentityInv, HeldOK
<1>3. clock \in Nat  BY <1>2 DEF HeldOK, HoldersOK
<1>4. ASSUME Calm, clock' \in Nat, clock <= clock', UNCHANGED <<throttle, overrun>>
      PROVE  OverrunMove
  <2>1. TriersGain  BY <1>4, CalmTries
  <2> QED  BY <1>3, <1>4, <2>1, Zenon DEF OverrunMove
<1>5. ASSUME Calm, UNCHANGED <<clock, throttle, overrun>>  PROVE OverrunMove  BY <1>3, <1>4, <1>5
<1>6. CASE SignInNext /\ UNCHANGED <<emailVars, enrollVars, fedVars, raced>>
  <2>1. GuessesOK'  BY <1>1, <1>6, GuessesSame, Zenon
  <2>2. Unclaiming  BY <1>2, <1>6, SignInMoves, ClaimLabels, MovesUnclaiming
  <2> QED  BY <1>2, <1>6, <2>1, <2>2, OverrunEffect
<1>7. CASE EmailNext /\ UNCHANGED <<enrollVars, fedVars, raced>>
  <2>1. Moves(EmailAt) /\ UNCHANGED tables  BY <1>2, <1>7, EmailMoves, EmailEffects
  <2>2. Calm /\ UNCHANGED <<clock, throttle, overrun>>
    <3>1. UNCHANGED <<clock, throttle, overrun>>  BY <1>7, <2>1, Zenon DEF EmailNext
    <3> QED  BY <2>1, <3>1, MovesCalm, UnstakedLabels
  <2> QED  BY <1>1, <1>2, <1>5, <1>7, <2>2, EmailGuesses
<1>8. CASE EnrollNext /\ UNCHANGED <<fedVars, raced>>
  <2>1. Moves(EnrollAt) /\ UNCHANGED clock  BY <1>2, <1>8, EnrollMoves, EnrollEffects, Zenon DEF EnrollEffect
  <2>2. UNCHANGED <<throttle, overrun, mailCode, issued, tries, wins>>
    BY <1>8, Zenon DEF EnrollNext, EnrollWithPasskey, EnrollWithPassword
  <2>3. Calm /\ Unclaiming  BY <2>1, MovesCalm, UnstakedLabels, ClaimLabels, MovesUnclaiming
  <2> QED  BY <1>1, <1>5, <2>1, <2>2, <2>3, GuessesSame
<1>9. CASE FederationNext /\ UNCHANGED raced
  <2>1. Moves(FederationAt) /\ UNCHANGED clock
    BY <1>2, <1>9, FederationMoves, FederationEffects, Zenon DEF FederationEffect
  <2>2. UNCHANGED codeVars  BY <1>9, FederationCodes
  <2>3. UNCHANGED <<throttle, overrun, mailCode, issued, tries, wins>>  BY <1>9, <2>2, Zenon DEF FederationNext
  <2>4. Calm /\ Unclaiming  BY <2>1, MovesCalm, UnstakedLabels, ClaimLabels, MovesUnclaiming
  <2> QED  BY <1>1, <1>5, <2>1, <2>3, <2>4, GuessesSame
<1>10. CASE AccountAdminNext
  <2>1. Moves(AdminAt) /\ UNCHANGED clock  BY <1>2, <1>10, AdminMoves, AdminEffects, Zenon DEF AdminEffect
  <2>2. UNCHANGED codeVars  BY <1>10, AdminCodes
  <2>3. UNCHANGED <<throttle, overrun, mailCode, issued, tries, wins>>  BY <1>10, <2>2, Zenon DEF AccountAdminNext
  <2>4. Calm /\ Unclaiming  BY <2>1, MovesCalm, UnstakedLabels, ClaimLabels, MovesUnclaiming
  <2> QED  BY <1>1, <1>5, <2>1, <2>3, <2>4, GuessesSame
<1>11. ASSUME NEW p \in Procs, Abort(p)
       PROVE  GuessesOK' /\ Unclaiming /\ OverrunMove
  <2>1. Finish(p) /\ UNCHANGED <<clock, throttle, overrun, mailCode, issued, tries, wins>>  BY <1>11, Zenon DEF Abort
  <2>2. Calm /\ Only(p, "idle", Blank)  BY <1>2, <2>1, FinishCalm
  <2>3. Unclaiming  BY <2>2 DEF Only, Unclaiming
  <2> QED  BY <1>1, <1>5, <2>1, <2>2, <2>3, GuessesSame
<1>12. CASE Tick \/ UNCHANGED vars
  <2>1. UNCHANGED <<pc, loc, throttle, overrun, mailCode, issued, tries, wins>>  BY <1>12, Zenon DEF Tick, vars
  <2>2. clock' = clock + 1 \/ clock' = clock  BY <1>12, Zenon DEF Tick, vars
  <2>3. clock' \in Nat /\ clock <= clock'  BY <1>3, <2>2
  <2>4. Calm /\ Unclaiming  BY <2>1, QuietCalm DEF Unclaiming
  <2> QED  BY <1>1, <1>4, <2>1, <2>3, <2>4, GuessesSame
<1> QED  BY <1>6, <1>7, <1>8, <1>9, <1>10, <1>11, <1>12, Zenon DEF Next

LEMMA InitGuess ==
    ASSUME Init
    PROVE  GuessInv
<1> USE LimitsAssumption
<1>1. \A p \in Procs : pc[p] = "idle"  BY Zenon DEF Init
<1>2. GuessesOK
  <2>1. /\ mailCode = [m \in Mails |-> NoEntry] /\ issued = 0
        /\ tries = [g \in 1..MaxIssued |-> 0] /\ wins = [g \in 1..MaxIssued |-> 0]
    BY Zenon DEF Init, EmailInit
  <2> QED  BY <2>1 DEF GuessesOK, Stores
<1>3. ClaimsOK  BY <1>1 DEF ClaimsOK
<1>4. OverrunOK
  <2>1. /\ throttle = [x \in Accounts \X Factors |-> NoRow] /\ overrun = [x \in Accounts \X Factors |-> 0]
        /\ clock = Drift + 1
    BY Zenon DEF Init, SignInInit
  <2>2. NoRow \in Rows /\ NoRow.until = 0 /\ clock \in Nat  BY <2>1, SignInAssumption DEF NoRow, Rows
  <2>3. Cardinality(Procs) \in Nat /\ Cardinality(Procs) > 0  BY TriersFinite
  <2>4. ASSUME NEW a \in Accounts, NEW f \in Factors
        PROVE  Few(a, f)
    <3>1. throttle[<<a, f>>] = NoRow /\ overrun[<<a, f>>] = 0  BY <2>1
    <3> QED  BY <2>2, <2>3, <3>1 DEF Few, Locked
  <2> QED  BY <2>1, <2>2, <2>4 DEF OverrunOK
<1> QED  BY <1>2, <1>3, <1>4 DEF GuessInv

LEMMA GuessBound ==
    ASSUME GuessInv
    PROVE  GuessesBounded
<1>1. ASSUME NEW x \in Accounts \X Factors
      PROVE  overrun[x] < Cardinality(Procs)
  <2>1. PICK a \in Accounts, f \in Factors : x = <<a, f>>  BY <1>1
  <2> QED  BY <2>1 DEF GuessInv, OverrunOK, Few
<1>2. ASSUME NEW g \in 1..MaxIssued
      PROVE  tries[g] <= MaxCodeAttempts /\ wins[g] <= 1
  BY LimitsAssumption DEF GuessInv, GuessesOK
<1> QED  BY <1>1, <1>2 DEF GuessesBounded

\* Guessing is bounded however the requests interleave: the failures counted while a
\* factor is locked are those of requests that were past CheckLocked when another one
\* locked it (throttle.go:81 and :112 are two statements), and a mailed code is compared
\* at most MaxCodeAttempts times and accepted once (codes.go:102).
THEOREM GuessesAlwaysBounded == Spec => []GuessesBounded
<1>1. Init => GuessInv  BY InitGuess
<1>2. GuessInv /\ TablesInv /\ [Next]_vars => GuessInv'
  BY GuessStep, ClaimsKept, OverrunMoved, Zenon DEF GuessInv
<1>3. GuessInv => GuessesBounded  BY GuessBound
<1> QED  BY <1>1, <1>2, <1>3, TablesHold, PTL DEF Spec

-----------------------------------------------------------------------------
(* The last way in                                                           *)

\* What an account signs in with: a passkey, a password with an authenticator, an
\* identity at a provider that is open.
OpenIdp(i) == idps[i].on /\ ~idps[i].dis /\ idps[i].signIn
HasKey(a) == \E k \in Creds : keys[k].a = a
HasPassword(a) == pw[a].val # None /\ totp[a].sec # 0
HasLink(a) == \E l \in links : l.a = a /\ OpenIdp(l.idp)
Way(a) == HasKey(a) \/ HasPassword(a) \/ HasLink(a)

LEMMA WaysAre ==
    ASSUME NEW a
    PROVE  AvailableMethods(a) # {} <=> Way(a)
<1>1. KeysOf(a) # {} <=> HasKey(a)  BY DEF KeysOf, HasKey
<1>2. UsableSignIn(a, links) # {} <=> HasLink(a)  BY DEF UsableSignIn, HasLink, OpenIdp
<1> QED  BY <1>1, <1>2 DEF AvailableMethods, MethodsOf, HasPassword, Way

\* The rows of authenticators and providers.
TotpOK == DOMAIN totp = Accounts /\ \A a \in Accounts : DOMAIN totp[a] = {"sec", "last"}

\* Nobody loses his way by the step, and the step is one of the same mix.
WaysKept == UNCHANGED ops /\ \A a \in Accounts : Way(a) => Way(a)'

\* Passwords, authenticators, passkeys, identities and open providers that stay.
PwHolds == \A a \in Accounts : pw[a].val # None => pw'[a].val # None
TotpHolds == \A a \in Accounts : totp[a].sec # 0 => totp'[a].sec # 0
KeysHold == \A k \in Creds : keys[k].a \in Accounts => keys'[k].a = keys[k].a
LinksHold == \A l \in links : \E m \in links' : m.a = l.a /\ m.idp = l.idp
OpenHolds == \A i \in Idps : OpenIdp(i) => OpenIdp(i)'
Grows == UNCHANGED ops /\ PwHolds /\ TotpHolds /\ KeysHold /\ LinksHold /\ OpenHolds

LEMMA GrowsKeeps ==
    ASSUME LinksOK, Grows
    PROVE  WaysKept
<1>1. ASSUME NEW a \in Accounts, HasKey(a)  PROVE HasKey(a)'
  BY <1>1 DEF HasKey, Grows, KeysHold
<1>2. ASSUME NEW a \in Accounts, HasPassword(a)  PROVE HasPassword(a)'
  BY <1>2 DEF HasPassword, Grows, PwHolds, TotpHolds
<1>3. ASSUME NEW a \in Accounts, HasLink(a)  PROVE HasLink(a)'
  <2>1. PICK l \in links : l.a = a /\ OpenIdp(l.idp)  BY <1>3 DEF HasLink
  <2>2. PICK i \in Idps : i = l.idp  BY DEF LinksOK
  <2>3. OpenIdp(i)'  BY <2>1, <2>2 DEF Grows, OpenHolds
  <2>4. PICK m \in links' : m.a = a /\ m.idp = i  BY <2>1, <2>2 DEF Grows, LinksHold
  <2> QED  BY <2>3, <2>4 DEF HasLink, OpenIdp
<1> QED  BY <1>1, <1>2, <1>3 DEF Way, WaysKept, Grows

LEMMA SameGrows ==
    /\ UNCHANGED pw => PwHolds
    /\ UNCHANGED totp => TotpHolds
    /\ UNCHANGED keys => KeysHold
    /\ links \subseteq links' => LinksHold
    /\ UNCHANGED links => LinksHold
    /\ UNCHANGED idps => OpenHolds
BY DEF PwHolds, TotpHolds, KeysHold, LinksHold, OpenHolds, OpenIdp

LEMMA QuietGrows ==
    ASSUME UNCHANGED <<ops, pw, totp, keys, links, idps>>
    PROVE  Grows
BY SameGrows, Zenon DEF Grows

\* A password is set or hashed anew, an authenticator replaced or used.
LEMMA PwSet ==
    ASSUME PasswordsOK, NEW a, NEW v \in Passwords,
           \/ pw' = [pw EXCEPT ![a] = [val |-> v, old |-> FALSE]]
           \/ pw' = [pw EXCEPT ![a] = IF @.val # None THEN [val |-> v, old |-> FALSE] ELSE @]
    PROVE  PwHolds
<1> DEFINE row == [val |-> v, old |-> FALSE]
<1>1. row.val # None  BY LimitsAssumption
<1> HIDE DEF row
<1>2. \A b \in Accounts : pw'[b] = row \/ pw'[b] = pw[b]  BY DEF PasswordsOK, row
<1> QED  BY <1>1, <1>2 DEF PwHolds

LEMMA TotpSet ==
    ASSUME TotpOK, NEW a, NEW sec, sec # 0, NEW step, totp' = [totp EXCEPT ![a] = [sec |-> sec, last |-> step]]
    PROVE  TotpOK' /\ TotpHolds
<1> DEFINE row == [sec |-> sec, last |-> step]
<1>1. DOMAIN row = {"sec", "last"} /\ row.sec # 0  OBVIOUS
<1> HIDE DEF row
<1>2. DOMAIN totp' = Accounts /\ \A b \in Accounts : totp'[b] = row \/ totp'[b] = totp[b]  BY DEF TotpOK, row
<1> QED  BY <1>1, <1>2 DEF TotpOK, TotpHolds

LEMMA TotpUsed ==
    ASSUME TotpOK, NEW a, NEW step, totp' = [totp EXCEPT ![a].last = step]
    PROVE  TotpOK' /\ TotpHolds
<1>1. DOMAIN totp' = Accounts
      /\ \A b \in Accounts : totp'[b] = [totp[b] EXCEPT !.last = step] \/ totp'[b] = totp[b]
  BY DEF TotpOK
<1>2. \A b \in Accounts : LET row == [totp[b] EXCEPT !.last = step]
                          IN  DOMAIN row = {"sec", "last"} /\ row.sec = totp[b].sec
  BY DEF TotpOK
<1> QED  BY <1>1, <1>2 DEF TotpOK, TotpHolds

LEMMA TotpSame ==
    ASSUME TotpOK, UNCHANGED totp
    PROVE  TotpOK'
BY DEF TotpOK

\* A passkey is used, or one inserted where there was none.
LEMMA KeysUsed ==
    ASSUME KeysOK, NEW p, UseKey(p)
    PROVE  KeysHold
BY DEF KeysOK, KeyFields, UseKey, KeysHold

LEMMA KeysAdded ==
    ASSUME KeysOK, NEW k, keys[k].a = None, NEW row, keys' = [keys EXCEPT ![k] = row]
    PROVE  KeysHold
BY DirectoryAssumption DEF KeysOK, KeysHold

\* The guards of what takes away a factor of one's own: the last passkey stays, and a
\* password, or an identity, goes only where something else is left.
LEMMA RevokeWays ==
    ASSUME TotpOK, PasswordsOK, NEW s \in Sids, RevokePwdTotp(s)
    PROVE  TotpOK' /\ WaysKept
<1>0. PICK a : a = sess[s].a  OBVIOUS
<1>1. /\ KeysOf(a) # {} \/ UsableSignIn(a, links) # {}
      /\ totp' = [totp EXCEPT ![a] = NoTotp] /\ pw' = [pw EXCEPT ![a] = NoPw]
      /\ UNCHANGED <<ops, keys, links, idps>>
  BY <1>0, Zenon DEF RevokePwdTotp, federated
<1>2. DOMAIN NoTotp = {"sec", "last"}  BY DEF NoTotp
<1>3. DOMAIN totp' = Accounts /\ \A b \in Accounts : totp'[b] = IF b = a THEN NoTotp ELSE totp[b]  BY <1>1 DEF TotpOK
<1>4. TotpOK'  BY <1>2, <1>3 DEF TotpOK
<1>5. \A b \in Accounts \ {a} : pw'[b] = pw[b]  BY <1>1 DEF PasswordsOK
<1>6. HasKey(a) \/ HasLink(a)  BY <1>1 DEF KeysOf, UsableSignIn, HasKey, HasLink, OpenIdp
<1>7. \A b : (HasKey(b) => HasKey(b)') /\ (HasLink(b) => HasLink(b)')  BY <1>1 DEF HasKey, HasLink, OpenIdp
<1>8. \A b \in Accounts \ {a} : HasPassword(b) => HasPassword(b)'  BY <1>3, <1>5 DEF HasPassword
<1>9. ASSUME NEW b \in Accounts, Way(b)  PROVE Way(b)'
  <2>1. CASE b = a  BY <2>1, <1>6, <1>7 DEF Way
  <2>2. CASE b # a  BY <2>2, <1>7, <1>8, <1>9 DEF Way
  <2> QED  BY <2>1, <2>2
<1> QED  BY <1>1, <1>4, <1>9 DEF WaysKept

LEMMA DeleteWays ==
    ASSUME KeysOK, NEW s \in Sids, NEW k \in Creds, DeleteKey(s, k)
    PROVE  WaysKept
<1>0. PICK a : a = sess[s].a  OBVIOUS
<1>1. /\ Cardinality(KeysOf(a)) > 1 /\ keys[k].a = a /\ keys' = [keys EXCEPT ![k] = NoKey]
      /\ UNCHANGED <<ops, pw, totp, links, idps>>
  BY <1>0, Zenon DEF DeleteKey, LastPasskeyGuard, federated
<1>2. PICK j \in KeysOf(a) : j # k
  <2>1. k \in KeysOf(a)  BY <1>1 DEF KeysOf
  <2>2. Cardinality({k}) = 1  BY FS_Singleton
  <2>3. KeysOf(a) # {k}  BY <1>1, <2>2
  <2>4. (\A j \in KeysOf(a) : j = k) => KeysOf(a) = {k}  BY <2>1
  <2> QED  BY <2>3, <2>4
<1>3. \A i \in Creds : keys'[i] = IF i = k THEN NoKey ELSE keys[i]  BY <1>1 DEF KeysOK
<1>4. ASSUME NEW b \in Accounts, HasKey(b)  PROVE HasKey(b)'
  <2>1. CASE b = a
    <3>1. j \in Creds /\ keys'[j].a = a  BY <1>2, <1>3 DEF KeysOf
    <3> QED  BY <2>1, <3>1 DEF HasKey
  <2>2. CASE b # a
    <3>1. PICK i \in Creds : keys[i].a = b  BY <1>4 DEF HasKey
    <3>2. i # k  BY <1>1, <2>2, <3>1
    <3> QED  BY <1>3, <3>1, <3>2 DEF HasKey
  <2> QED  BY <2>1, <2>2
<1>5. \A b \in Accounts : (HasPassword(b) => HasPassword(b)') /\ (HasLink(b) => HasLink(b)')
  BY <1>1 DEF HasPassword, HasLink, OpenIdp
<1> QED  BY <1>1, <1>4, <1>5 DEF Way, WaysKept

LEMMA UnlinkWays ==
    ASSUME NEW s \in Sids, NEW l, Unlink(s, l)
    PROVE  WaysKept
<1>0. PICK a : a = sess[s].a  OBVIOUS
<1>1. /\ l.a = a /\ MethodsOf(a, KeysOf(a), pw[a], totp[a], links \ {l}) # {}
      /\ links' = links \ {l} /\ UNCHANGED <<ops, keys, pw, totp, idps>>
  BY <1>0, Zenon DEF Unlink, factors
<1>2. \A b : (HasKey(b) => HasKey(b)') /\ (HasPassword(b) => HasPassword(b)')  BY <1>1 DEF HasKey, HasPassword
<1>3. ASSUME NEW b \in Accounts, b # a, HasLink(b)  PROVE HasLink(b)'
  <2>1. PICK m \in links : m.a = b /\ OpenIdp(m.idp)  BY <1>3 DEF HasLink
  <2>2. m \in links' /\ OpenIdp(m.idp)'  BY <1>1, <1>3, <2>1 DEF OpenIdp
  <2> QED  BY <2>1, <2>2 DEF HasLink, OpenIdp
<1>4. Way(a)'
  <2>1. KeysOf(a) # {} \/ (pw[a].val # None /\ totp[a].sec # 0) \/ UsableSignIn(a, links \ {l}) # {}
    BY <1>1 DEF MethodsOf
  <2>2. CASE KeysOf(a) # {} \/ (pw[a].val # None /\ totp[a].sec # 0)
    <3>1. HasKey(a) \/ HasPassword(a)  BY <2>2 DEF KeysOf, HasKey, HasPassword
    <3>2. HasKey(a)' \/ HasPassword(a)'  BY <1>2, <3>1
    <3> QED  BY <3>2 DEF Way
  <2>3. CASE UsableSignIn(a, links \ {l}) # {}
    <3>1. PICK m \in links \ {l} : m.a = a /\ OpenIdp(m.idp)  BY <2>3 DEF UsableSignIn, OpenIdp
    <3>2. m \in links' /\ m.a = a /\ OpenIdp(m.idp)'  BY <1>1, <3>1 DEF OpenIdp
    <3> QED  BY <3>2 DEF HasLink, OpenIdp, Way
  <2> QED  BY <2>1, <2>2, <2>3
<1>5. ASSUME NEW b \in Accounts, Way(b)  PROVE Way(b)'
  <2>1. CASE b = a  BY <1>4, <2>1
  <2>2. CASE b # a  BY <1>2, <1>3, <1>5, <2>2 DEF Way
  <2> QED  BY <2>1, <2>2
<1> QED  BY <1>1, <1>5 DEF WaysKept

LEMMA SignInWays ==
    ASSUME HeldOK, LinksOK, PasswordsOK, TotpOK, SignInNext
    PROVE  TotpOK' /\ WaysKept /\ UNCHANGED idps
<1> USE DEF tables, factors, federated, stashes, signInHistory, signInVars, frame
<1> DEFINE Goal == TotpOK' /\ WaysKept /\ UNCHANGED idps
           Quiet == UNCHANGED <<ops, pw, totp, keys, links, idps>>
<1>1. KeysOK  BY DEF HeldOK, HoldersOK
<1>2. ASSUME Quiet  PROVE Goal
  BY <1>2, QuietGrows, GrowsKeeps, TotpSame
<1> HIDE DEF Quiet
<1>3. ASSUME NEW p \in Procs,
             \/ \E a \in Accounts, v \in Passwords : PasswordBegin(p, a, v)
             \/ PasswordFails(p) \/ TotpSudo(p) \/ TotpFails(p) \/ TotpSignsIn(p)
             \/ \E t, c : TotpVerify(p, t, c)
             \/ \E t, rc, c : RecoveryVerify(p, t, rc, c)
      PROVE  Quiet
  BY <1>3, Zenon DEF PasswordBegin, PasswordFails, TotpSudo, TotpFails, TotpSignsIn, TotpVerify, RecoveryVerify, Quiet
<1>4. ASSUME NEW p \in Procs,
             \/ RecoveryFails(p) \/ RecoverySignsIn(p) \/ RegenerateDelete(p) \/ RegenerateCommit(p)
             \/ \E s \in Sids : RegenerateBegin(p, s)
             \/ AddKeyDone(p) \/ SudoByTotp(p)
      PROVE  Quiet
  BY <1>4, Zenon DEF RecoveryFails, RecoverySignsIn, RegenerateDelete, RegenerateCommit, RegenerateBegin, AddKeyDone,
     SudoByTotp, Quiet
<1>5. ASSUME NEW p \in Procs,
             \/ \E t, k, n : LoginComplete(p, t, k, n)
             \/ \E s, v, c : SudoCompletePassword(p, s, v, c)
             \/ \E s, k, n : SudoCompleteKey(p, s, k, n)
      PROVE  Quiet
  BY <1>5, Zenon DEF LoginComplete, SudoCompletePassword, SudoCompleteKey, Quiet
<1>6. ASSUME \/ \E t \in Tokens : LoginBegin(t)
             \/ \E s \in Sids, m \in {"webauthn", "password_totp"} : SudoBegin(s, m)
             \/ \E s \in Sids : AddKeyBegin(s) \/ Logout(s)
             \/ \E s, t \in Sids : RevokeMySession(s, t)
      PROVE  Quiet
  BY <1>6, Zenon DEF LoginBegin, SudoBegin, AddKeyBegin, Logout, RevokeMySession, directory, Quiet
<1> HIDE DEF Goal
\* A password: rehashed or chosen; an authenticator: replaced or used.
<1>7. ASSUME NEW p \in Procs, PasswordVerified(p), UNCHANGED <<ops, federated>>
      PROVE  Goal
  <2>1. loc[p].pwd \in Passwords  BY <1>7 DEF PasswordVerified, HeldOK, FrameOK, Holder
  <2>2. UNCHANGED <<totp, keys>> /\ (UNCHANGED pw \/ Rehash(loc[p].a, loc[p].pwd))  BY <1>7, Zenon DEF PasswordVerified
  <2>3. PwHolds
    <3>1. PICK v \in Passwords : v = loc[p].pwd  BY <2>1
    <3>2. ASSUME Rehash(loc[p].a, v)  PROVE PwHolds  BY <3>2, PwSet DEF Rehash
    <3> QED  BY <2>2, <3>1, <3>2, SameGrows
  <2> QED  BY <1>7, <2>2, <2>3, SameGrows, GrowsKeeps, TotpSame, Zenon DEF Grows, Goal
<1>8. ASSUME NEW p \in Procs, PasswordSudo(p) \/ \E t : PasswordCompletes(p, t)
      PROVE  Goal
  <2>1. PasswordVerified(p) /\ UNCHANGED <<ops, federated>>  BY <1>8, Zenon DEF PasswordSudo, PasswordCompletes
  <2> QED  BY <1>7, <2>1
<1>9. ASSUME PwHolds, TotpOK', TotpHolds, UNCHANGED <<ops, keys, links, idps>>
      PROVE  Goal
  BY <1>9, SameGrows, GrowsKeeps, Zenon DEF Grows, Goal
<1>10. ASSUME NEW p \in Procs, TotpUpdate(p)
       PROVE  Goal
  <2>1. totp' = [totp EXCEPT ![loc[p].a].last = loc[p].code.step] /\ UNCHANGED <<ops, pw, keys, links, idps>>
    BY <1>10, Zenon DEF TotpUpdate
  <2> QED  BY <1>9, <2>1, TotpUsed, SameGrows
<1>11. ASSUME NEW p \in Procs, RecoveryRedeem(p)
       PROVE  Goal
  <2> DEFINE c == loc[p].code
  <2>1. /\ UNCHANGED <<ops, pw, keys, links, idps>>
        /\ UNCHANGED totp \/ (c.sec # 0 /\ EnrollConfirmed(loc[p].a, c.sec, c.step))
    BY <1>11, Zenon DEF RecoveryRedeem
  <2>2. CASE UNCHANGED totp  BY <1>9, <2>1, <2>2, SameGrows, TotpSame
  <2>3. CASE c.sec # 0 /\ EnrollConfirmed(loc[p].a, c.sec, c.step)
    <3>1. TotpOK' /\ TotpHolds  BY <2>3, TotpSet DEF EnrollConfirmed
    <3> QED  BY <1>9, <2>1, <3>1, SameGrows
  <2> QED  BY <2>1, <2>2, <2>3
<1>12. ASSUME NEW s, NEW v \in Passwords, PasswordSet(s, v)
       PROVE  Goal
  <2>1. SetPassword(sess[s].a, v) /\ UNCHANGED <<ops, totp, keys, links, idps>>  BY <1>12, Zenon DEF PasswordSet
  <2>2. PwHolds  BY <2>1, PwSet DEF SetPassword
  <2> QED  BY <1>9, <2>1, <2>2, SameGrows, TotpSame
<1>13. ASSUME NEW s, NEW v \in Passwords, NEW c, PasswordTotpEnroll(s, v, c)
       PROVE  Goal
  <2>1. /\ SetPassword(sess[s].a, v) /\ EnrollConfirmed(sess[s].a, c.sec, c.step) /\ c.sec # 0
        /\ UNCHANGED <<ops, keys, links, idps>>
    BY <1>13, Zenon DEF PasswordTotpEnroll, NewAuthenticator
  <2>2. PwHolds  BY <2>1, PwSet DEF SetPassword
  <2>3. TotpOK' /\ TotpHolds  BY <2>1, TotpSet DEF EnrollConfirmed
  <2> QED  BY <1>9, <2>1, <2>2, <2>3
<1>14. ASSUME NEW s, NEW c, TotpReenroll(s, c)
       PROVE  Goal
  <2>1. EnrollConfirmed(sess[s].a, c.sec, c.step) /\ c.sec # 0 /\ UNCHANGED <<ops, pw, keys, links, idps>>
    BY <1>14, Zenon DEF TotpReenroll, NewAuthenticator
  <2>2. TotpOK' /\ TotpHolds  BY <2>1, TotpSet DEF EnrollConfirmed
  <2> QED  BY <1>9, <2>1, <2>2, SameGrows
\* A passkey: used, added, deleted.
<1>15. ASSUME KeysHold, UNCHANGED <<ops, pw, totp, links, idps>>
       PROVE  Goal
  BY <1>15, SameGrows, GrowsKeeps, TotpSame, Zenon DEF Grows, Goal
<1>16. ASSUME NEW p \in Procs, PasskeySignsIn(p) \/ SudoByKey(p)
       PROVE  Goal
  <2>1. UseKey(p) /\ UNCHANGED <<ops, pw, totp, links, idps>>  BY <1>16, Zenon DEF PasskeySignsIn, SudoByKey
  <2> QED  BY <1>1, <1>15, <2>1, KeysUsed
<1>17. ASSUME NEW p, NEW s, NEW k, AddKeyInsert(p, s, k)
       PROVE  Goal
  <2>1. /\ keys[k].a = None /\ keys' = [keys EXCEPT ![k] = InsertCredential(sess[s].a)]
        /\ UNCHANGED <<ops, pw, totp, links, idps>>
    BY <1>17, Zenon DEF AddKeyInsert
  <2> QED  BY <1>1, <1>15, <2>1, KeysAdded
<1>18. ASSUME NEW s \in Sids, NEW k \in Creds, DeleteKey(s, k)
       PROVE  Goal
  <2>1. UNCHANGED <<totp, idps>>  BY <1>18, Zenon DEF DeleteKey
  <2> QED  BY <1>1, <1>18, <2>1, DeleteWays, TotpSame, Zenon DEF Goal
<1>19. ASSUME NEW s \in Sids, NEW l, Unlink(s, l)
       PROVE  Goal
  <2>1. UNCHANGED <<totp, idps>>  BY <1>19, Zenon DEF Unlink
  <2> QED  BY <1>19, <2>1, UnlinkWays, TotpSame, Zenon DEF Goal
<1>20. ASSUME NEW s \in Sids, RevokePwdTotp(s)
       PROVE  Goal
  <2>1. UNCHANGED idps  BY <1>20, Zenon DEF RevokePwdTotp
  <2> QED  BY <1>20, <2>1, RevokeWays, Zenon DEF Goal
<1>21. ASSUME NEW p \in Procs, PasswordStep(p) \/ TotpStep(p) \/ RecoveryStep(p)
       PROVE  Goal
  BY <1>2, <1>3, <1>4, <1>8, <1>10, <1>11, <1>21, Zenon DEF PasswordStep, TotpStep, RecoveryStep, Goal
<1>22. ASSUME NEW p \in Procs, PasskeyStep(p) \/ SudoStep(p) \/ FactorStep(p)
       PROVE  Goal
  BY <1>2, <1>4, <1>5, <1>16, <1>17, <1>22, Zenon DEF PasskeyStep, SudoStep, FactorStep, Goal
<1>23. Goal
  BY <1>2, <1>6, <1>12, <1>13, <1>14, <1>18, <1>19, <1>20, <1>21, <1>22, Zenon DEF SignInNext, Goal
<1> QED  BY <1>23 DEF Goal

LEMMA EmailWays ==
    ASSUME HeldOK, LinksOK, TotpOK, UNCHANGED tables
    PROVE  TotpOK' /\ WaysKept /\ UNCHANGED idps
<1>1. UNCHANGED <<ops, pw, totp, keys, links, idps>>  BY Zenon DEF tables, factors, federated
<1> QED  BY <1>1, QuietGrows, GrowsKeeps, TotpSame

\* A redemption only adds identities, and leaves its account a passkey or a password
\* with an authenticator for the passkeys it takes.
LEMMA RedeemWays ==
    ASSUME NEW p, Redeem(p)
    PROVE  UNCHANGED <<ops, idps>> /\ LinksHold
<1>1. UNCHANGED <<ops, idps>>  BY Zenon DEF Redeem
<1>2. links' = links \/ \E i, u, a, conf : links' = InsertAccountIdentity(i, u, a, conf)
  BY Zenon DEF Redeem, InsertInviteIdentity
<1>3. links \subseteq links'  BY <1>2 DEF InsertAccountIdentity
<1> QED  BY <1>1, <1>3, SameGrows

\* Identities and providers stay, and so do the factors of all accounts but a.
LEMMA OthersKeep ==
    ASSUME LinksOK, NEW a \in Accounts, LinksHold, UNCHANGED <<ops, idps>>,
           \A b \in Accounts \ {a} : (HasKey(b) => HasKey(b)') /\ (HasPassword(b) => HasPassword(b)'),
           HasKey(a)' \/ HasPassword(a)'
    PROVE  WaysKept
<1>1. ASSUME NEW b \in Accounts, HasLink(b)  PROVE HasLink(b)'
  <2>1. PICK l \in links : l.a = b /\ OpenIdp(l.idp)  BY <1>1 DEF HasLink
  <2>2. PICK m \in links' : m.a = b /\ m.idp = l.idp  BY <2>1 DEF LinksHold
  <2> QED  BY <2>1, <2>2 DEF HasLink, OpenIdp
<1> QED  BY <1>1 DEF Way, WaysKept

LEMMA PasskeyWays ==
    ASSUME HeldOK, LinksOK, TotpOK, NEW p \in Procs, EnrollWithPasskey(p)
    PROVE  TotpOK' /\ WaysKept /\ UNCHANGED idps
<1>0. PICK a, k : a = loc[p].a /\ k = loc[p].k  OBVIOUS
<1>1. a \in Accounts /\ k \in Creds  BY <1>0 DEF EnrollWithPasskey, HeldOK, FrameOK, Holder, Acting
<1>2. /\ keys[k].a = None /\ Redeem(p) /\ UNCHANGED <<pw, totp>>
      /\ keys' = [i \in Creds |-> CASE i = k -> InsertCredential(a)
                                    [] keys[i].a = a /\ i # k -> NoKey
                                    [] OTHER -> keys[i]]
  BY <1>0, Zenon DEF EnrollWithPasskey
<1>3. InsertCredential(a).a = a  BY DEF InsertCredential, NoKey
<1>4. HasKey(a)'  BY <1>1, <1>2, <1>3 DEF HasKey
<1>5. ASSUME NEW b \in Accounts \ {a}, HasKey(b)  PROVE HasKey(b)'
  <2>1. PICK i \in Creds : keys[i].a = b  BY <1>5 DEF HasKey
  <2>2. i # k  BY <1>2, <2>1, DirectoryAssumption
  <2>3. keys'[i] = keys[i]  BY <1>2, <1>5, <2>1, <2>2
  <2> QED  BY <2>1, <2>3 DEF HasKey
<1>6. \A b \in Accounts : HasPassword(b) => HasPassword(b)'  BY <1>2 DEF HasPassword
<1>7. LinksHold /\ UNCHANGED <<ops, idps>>  BY <1>2, RedeemWays
<1>8. WaysKept  BY <1>1, <1>4, <1>5, <1>6, <1>7, OthersKeep
<1> QED  BY <1>2, <1>7, <1>8, TotpSame

LEMMA PasswordWays ==
    ASSUME HeldOK, LinksOK, PasswordsOK, TotpOK, NEW p \in Procs, EnrollWithPassword(p)
    PROVE  TotpOK' /\ WaysKept /\ UNCHANGED idps
<1>0. PICK a, v, c : a = loc[p].a /\ v = loc[p].pwd /\ c = loc[p].code  OBVIOUS
<1>1. a \in Accounts /\ v \in Passwords /\ c.sec # 0
  BY <1>0 DEF EnrollWithPassword, HeldOK, FrameOK, Holder, Acting
<1>2. /\ Redeem(p) /\ SetPassword(a, v) /\ EnrollConfirmed(a, c.sec, c.step)
      /\ keys' = [i \in Creds |-> IF keys[i].a = a THEN NoKey ELSE keys[i]]
  BY <1>0, Zenon DEF EnrollWithPassword, NewAuthenticator
<1> DEFINE row == [val |-> v, old |-> FALSE]
           auth == [sec |-> c.sec, last |-> c.step]
<1>3. row.val # None /\ auth.sec # 0  BY <1>1, LimitsAssumption
<1>4. TotpOK'  BY <1>1, <1>2, TotpSet DEF EnrollConfirmed
<1> HIDE DEF row, auth
<1>5. pw'[a] = row /\ \A b \in Accounts \ {a} : pw'[b] = pw[b]  BY <1>1, <1>2 DEF SetPassword, PasswordsOK, row
<1>6. totp'[a] = auth /\ \A b \in Accounts \ {a} : totp'[b] = totp[b]  BY <1>1, <1>2 DEF EnrollConfirmed, TotpOK, auth
<1>7. HasPassword(a)'  BY <1>3, <1>5, <1>6 DEF HasPassword
<1>8. \A b \in Accounts \ {a} : HasPassword(b) => HasPassword(b)'  BY <1>5, <1>6 DEF HasPassword
<1>9. \A b \in Accounts \ {a} : HasKey(b) => HasKey(b)'  BY <1>2 DEF HasKey
<1>10. LinksHold /\ UNCHANGED <<ops, idps>>  BY <1>2, RedeemWays
<1>11. WaysKept  BY <1>1, <1>7, <1>8, <1>9, <1>10, OthersKeep
<1> QED  BY <1>4, <1>10, <1>11

LEMMA EnrollWays ==
    ASSUME HeldOK, LinksOK, PasswordsOK, TotpOK, EnrollNext
    PROVE  TotpOK' /\ WaysKept /\ UNCHANGED idps
<1> USE DEF tables, factors, federated, frame, directory, enrollHistory, enrollVars
<1> DEFINE Quiet == UNCHANGED <<ops, pw, totp, keys, links, idps>>
<1>1. ASSUME Quiet  PROVE TotpOK' /\ WaysKept /\ UNCHANGED idps
  BY <1>1, QuietGrows, GrowsKeeps, TotpSame
<1>2. ASSUME NEW t \in Invites, EnrollIssueStep(t) \/ \E p \in Procs : EnrollReadStep(p, t)
      PROVE  Quiet
  BY <1>2, Zenon DEF EnrollIssueStep, EnrollAdmin, IssueEnrollment, RevokeInvitation, ReissueEnrollment,
     CreateInvitation, EnrollmentBegin, EnrollReadStep, EnrollmentComplete, PasswordTotpVerify
<1>3. ASSUME NEW p \in Procs, EnrollSignsIn(p) \/ \E fails \in BOOLEAN : EnrollRevokes(p, fails)
      PROVE  Quiet
  BY <1>3, Zenon DEF EnrollSignsIn, EnrollRevokes
<1> HIDE DEF Quiet
<1> QED  BY <1>1, <1>2, <1>3, PasskeyWays, PasswordWays, Zenon DEF EnrollNext

\* The mixes in which no admin takes a way in, the requests that delete no account,
\* the rows of providers.
Closed == ops \cap {"credentials", "delete", "idpupdate", "idpdisable", "idpdelete"} = {}
NoDelete == \A p \in Procs : pc[p] # "delCheck"
IdpsOK == DOMAIN idps = Idps

\* A federation step adds an identity or confirms one; a provider is only added.
LEMMA ConfirmHolds ==
    ASSUME LinksOK, NEW a, NEW u, Confirm(a, u)
    PROVE  LinksHold
<1>1. ASSUME NEW l \in links
      PROVE  \E m \in links' : m.a = l.a /\ m.idp = l.idp
  <2> DEFINE m == IF l.sub = u /\ l.a = a THEN [l EXCEPT !.conf = TRUE] ELSE l
  <2>1. m \in links'  BY DEF Confirm
  <2>2. m.a = l.a /\ m.idp = l.idp  BY DEF LinksOK, LinkFields
  <2> QED  BY <2>1, <2>2
<1> QED  BY <1>1 DEF LinksHold

LEMMA ProviderWays ==
    ASSUME IdpsOK, NEW s, NEW i \in Idps, ProviderStep(s, i)
    PROVE  IdpsOK' /\ (Closed => UNCHANGED links /\ OpenHolds)
<1>1. IdpsOK'
  BY Zenon DEF ProviderStep, CreateIdentityProvider, UpdateIdentityProvider, UpdateUpstreamIDPConfig,
     SetIdentityProviderDisabled, SetUpstreamIDPDisabled, DeleteIdentityProvider, IdpsOK
<1>2. ASSUME Closed  PROVE UNCHANGED links /\ OpenHolds
  <2>1. /\ \A mode, signIn : ~UpdateIdentityProvider(s, i, mode, signIn)
        /\ \A dis : ~SetIdentityProviderDisabled(s, i, dis)
        /\ ~DeleteIdentityProvider(s, i)
    BY <1>2 DEF Closed, Admin, UpdateIdentityProvider, SetIdentityProviderDisabled, DeleteIdentityProvider
  <2>2. PICK mode, signIn : CreateIdentityProvider(s, i, mode, signIn)  BY <2>1 DEF ProviderStep
  <2>3. PICK row : idps' = [idps EXCEPT ![i] = row]  BY <2>2 DEF CreateIdentityProvider
  <2>4. ~idps[i].on /\ UNCHANGED links  BY <2>2, Zenon DEF CreateIdentityProvider
  <2>5. \A j \in Idps \ {i} : idps'[j] = idps[j]  BY <2>3 DEF IdpsOK
  <2> QED  BY <2>4, <2>5 DEF OpenHolds, OpenIdp
<1> QED  BY <1>1, <1>2

LEMMA ResolveWays ==
    ASSUME NEW p, NEW u, ResolveStep(p, u)
    PROVE  UNCHANGED <<ops, pw, totp, keys, idps>> /\ links \subseteq links'
<1> USE DEF tables, factors, federated
<1>1. UNCHANGED <<ops, pw, totp, keys, idps>>
  BY Zenon DEF ResolveStep, ResolveExisting, ResolveLink, ApplyAutoProvision, ApplyInviteProvision,
     AttachInviteIdentity, Resolved, Provision
<1>2. links' = links \/ \E i, a, conf : links' = InsertAccountIdentity(i, u, a, conf)
  BY Zenon DEF ResolveStep, ResolveExisting, ResolveLink, ApplyAutoProvision, ApplyInviteProvision,
     AttachInviteIdentity, Provision
<1> QED  BY <1>1, <1>2 DEF InsertAccountIdentity

LEMMA FederationWays ==
    ASSUME LinksOK, TotpOK, IdpsOK, FederationNext
    PROVE  TotpOK' /\ IdpsOK' /\ UNCHANGED ops /\ (Closed => WaysKept)
<1> USE DEF tables, factors, federated, directory
<1> DEFINE Goal == TotpOK' /\ IdpsOK' /\ UNCHANGED ops /\ (Closed => WaysKept)
           Kept == UNCHANGED <<ops, pw, totp, keys>> /\ IdpsOK' /\ (Closed => LinksHold /\ OpenHolds)
<1>1. ASSUME Kept  PROVE Goal
  BY <1>1, SameGrows, GrowsKeeps, TotpSame, Zenon DEF Grows
<1>2. ASSUME UNCHANGED <<ops, pw, totp, keys, links, idps>>  PROVE Kept
  BY <1>2, SameGrows, Zenon DEF IdpsOK
<1>3. ASSUME NEW p \in Procs, NEW u \in Subs, ResolveStep(p, u)  PROVE Kept
  BY <1>3, ResolveWays, SameGrows, Zenon DEF IdpsOK
<1>4. ASSUME NEW p, NEW f, FederationConfirm(p, f)  PROVE Kept
  <2>1. UNCHANGED <<ops, pw, totp, keys, idps>> /\ Confirm(grants[f].val.a, grants[f].val.u)
    BY <1>4, Zenon DEF FederationConfirm
  <2> QED  BY <2>1, ConfirmHolds, SameGrows, Zenon DEF IdpsOK
<1>5. ASSUME NEW p, NEW ok, LinkConfirm(p, ok)  PROVE Kept
  <2>1. UNCHANGED <<ops, pw, totp, keys, idps>> /\ (Confirm(loc[p].a, loc[p].u) \/ UNCHANGED links)
    BY <1>5, Zenon DEF LinkConfirm
  <2> QED  BY <2>1, ConfirmHolds, SameGrows, Zenon DEF IdpsOK
<1>6. ASSUME NEW f \in Flows, NEW i \in Idps,
             FederationLogin(f, i) \/ (\E s \in Sids : IdentitiesLinkBegin(s, f, i))
             \/ (\E t \in Invites : EnrollmentStartFederation(f, i, t))
      PROVE  Kept
  BY <1>2, <1>6, Zenon DEF FederationLogin, BeginPublic, IdentitiesLinkBegin, BeginLink, EnrollmentStartFederation,
     BeginInvite, Begin
<1>7. ASSUME NEW p, NEW f, NEW s, PrepareFlow(p, f, s) \/ \E route : FederationCallback(p, f, s, route)
      PROVE  Kept
  BY <1>2, <1>7, Zenon DEF PrepareFlow, FederationCallback, VerifyFlow, FlowLoad
<1>8. ASSUME NEW f, LeaseLost(f) \/ ConfirmDecline(f)  PROVE Kept
  BY <1>2, <1>8, Zenon DEF LeaseLost, ConfirmDecline
<1>9. ASSUME NEW p, FlowPrepared(p) \/ FlowConsume(p) \/ FlowFails(p) \/ FederationCompletes(p) \/ FederationSignsIn(p)
      PROVE  Kept
  BY <1>2, <1>9, Zenon DEF FlowPrepared, FlowConsume, FlowFails, FederationCompletes, FederationSignsIn
<1>10. ASSUME NEW s \in Sids, NEW i \in Idps, ProviderStep(s, i)  PROVE Kept
  <2>1. UNCHANGED <<ops, pw, totp, keys>>  BY <1>10, Zenon DEF ProviderStep
  <2> QED  BY <1>10, <2>1, ProviderWays, SameGrows, Zenon
<1> HIDE DEF Kept, Goal
<1>11. Kept
  BY <1>3, <1>4, <1>5, <1>6, <1>7, <1>8, <1>9, <1>10, Zenon DEF FederationNext, FlowStep
<1> QED  BY <1>1, <1>11 DEF Goal

\* Administration takes nothing in a closed mix, and no deletion begins there.
LEMMA AdminRows ==
    ASSUME TotpOK, IdpsOK, AccountAdminNext
    PROVE  TotpOK' /\ IdpsOK' /\ UNCHANGED ops
<1> USE DEF tables, factors, federated, frame
<1> DEFINE Same == UNCHANGED <<ops, idps, totp>>
<1>1. ASSUME Same  PROVE TotpOK' /\ IdpsOK' /\ UNCHANGED ops
  BY <1>1, TotpSame, Zenon DEF IdpsOK
<1>2. ASSUME NEW p, NEW s, AdminStep(p, s)  PROVE Same
  BY <1>2, Zenon DEF AdminStep, UpdateAccount, SetDisabledRead, DeleteAccountRead
<1>3. ASSUME NEW p, SetDisabledWrite(p) \/ RevokeAll(p) \/ RevokeAllFails(p)  PROVE Same
  BY <1>3, Zenon DEF SetDisabledWrite, RevokeAll, RevokeAllFails
<1>4. ASSUME NEW s, \/ \E a : RevokeAccountSessions(s, a)
                    \/ \E t : RevokeAccountSession(s, t) \/ DeleteAccountCredential(s, t)
                    \/ MaintenanceShows
      PROVE  Same
  BY <1>4, Zenon DEF RevokeAccountSessions, RevokeAccountSession, MaintenanceShows, DeleteAccountCredential
<1>5. ASSUME NEW p, DeleteAccount(p)  PROVE TotpOK' /\ IdpsOK' /\ UNCHANGED ops
  <2>1. UNCHANGED <<ops, idps>> /\ (UNCHANGED totp \/ totp' = [totp EXCEPT ![loc[p].a] = NoTotp])
    BY <1>5, Zenon DEF DeleteAccount, Cascade
  <2>2. DOMAIN NoTotp = {"sec", "last"}  BY DEF NoTotp
  <2>3. ASSUME totp' = [totp EXCEPT ![loc[p].a] = NoTotp]  PROVE TotpOK'
    <3>1. DOMAIN totp' = Accounts /\ \A b \in Accounts : totp'[b] = NoTotp \/ totp'[b] = totp[b]
      BY <2>3 DEF TotpOK
    <3> QED  BY <2>2, <3>1 DEF TotpOK
  <2> QED  BY <2>1, <2>3, TotpSame, Zenon DEF IdpsOK
<1> HIDE DEF Same
<1> QED  BY <1>1, <1>2, <1>3, <1>4, <1>5, Zenon DEF AccountAdminNext

LEMMA AdminWays ==
    ASSUME FrameOK, Closed, NoDelete, AccountAdminNext
    PROVE  UNCHANGED <<ops, pw, totp, keys, links, idps>> /\ NoDelete'
<1> USE DEF tables, factors, federated, frame
<1> DEFINE Quiet == UNCHANGED <<ops, pw, totp, keys, links, idps>>
           On(p) == \E l \in {"disWrite", "revokeAll", "idle"} : Goto(p, l)
           Goal == Quiet /\ NoDelete'
<1>1. ASSUME NEW p \in Procs, On(p)  PROVE NoDelete'
  BY <1>1 DEF NoDelete, Goto, FrameOK
<1>2. UNCHANGED pc => NoDelete'  BY DEF NoDelete
<1> HIDE DEF On
<1>3. ASSUME NEW p \in Procs, NEW s, NEW a, NEW admin, NEW dis, UpdateAccount(p, s, a, admin, dis)
      PROVE  Goal
  <2>1. Quiet /\ (Goto(p, "revokeAll") \/ UNCHANGED pc)  BY <1>3, Zenon DEF UpdateAccount, RevokeAllNext
  <2> QED  BY <1>1, <1>2, <2>1 DEF On
<1>4. ASSUME NEW p \in Procs, NEW s, NEW a, NEW dis, SetDisabledRead(p, s, a, dis)
      PROVE  Goal
  <2>1. Quiet /\ Goto(p, "disWrite")  BY <1>4, Zenon DEF SetDisabledRead
  <2> QED  BY <1>1, <2>1 DEF On
<1>5. ASSUME NEW p \in Procs, SetDisabledWrite(p) \/ RevokeAll(p) \/ RevokeAllFails(p)
      PROVE  Goal
  <2>1. Quiet /\ (Goto(p, "revokeAll") \/ Goto(p, "idle"))
    BY <1>5, Zenon DEF SetDisabledWrite, RevokeAll, RevokeAllFails, RevokeAllNext, Finish
  <2> QED  BY <1>1, <2>1 DEF On
<1>6. \A p, s, a : ~DeleteAccountRead(p, s, a)  BY DEF DeleteAccountRead, Admin, Closed
<1>7. \A p \in Procs : ~DeleteAccount(p)  BY DEF DeleteAccount, NoDelete
<1>8. \A s, k : ~DeleteAccountCredential(s, k)  BY DEF DeleteAccountCredential, Admin, Closed
<1>9. ASSUME NEW s, \/ \E a : RevokeAccountSessions(s, a)
                    \/ \E t : RevokeAccountSession(s, t)
                    \/ MaintenanceShows
      PROVE  Goal
  BY <1>2, <1>9, Zenon DEF RevokeAccountSessions, RevokeAccountSession, MaintenanceShows
<1> HIDE DEF Goal
<1>10. ASSUME NEW p \in Procs, NEW s, AdminStep(p, s)
       PROVE  Goal
  BY <1>3, <1>4, <1>6, <1>10, Zenon DEF AdminStep
<1>11. Goal  BY <1>5, <1>7, <1>8, <1>9, <1>10, Zenon DEF AccountAdminNext
<1> QED  BY <1>11 DEF Goal

\* Under a closed mix no account is on its way to deletion, and who was there has a way in.
MethodInv ==
    /\ IdpsOK /\ TotpOK
    /\ Closed => NoDelete /\ \A a \in Accounts : Present(a) => Way(a)

LEMMA MethodInit ==
    ASSUME Init
    PROVE  MethodInv
<1>1. NoDelete  BY DEF Init, NoDelete
<1>2. IdpsOK /\ DOMAIN totp = Accounts  BY Zenon DEF Init, IdpsOK
<1>3. \A a \in Accounts : totp[a] = IF Present(a) THEN [sec |-> 1, last |-> 0] ELSE NoTotp
  BY Zenon DEF Init
<1>4. \A a \in Accounts : DOMAIN totp[a] = {"sec", "last"} /\ (Present(a) => totp[a].sec # 0)
  BY <1>3 DEF NoTotp
<1> DEFINE v == CHOOSE x \in Passwords : TRUE
           old == "rehash" \in ops
<1>5. v # None  BY LimitsAssumption
<1>6. \A a \in Accounts : pw[a] = IF Present(a) THEN [val |-> v, old |-> old] ELSE NoPw
  BY Zenon DEF Init
<1> HIDE DEF v, old
<1>7. \A a \in Accounts : Present(a) => pw[a].val # None  BY <1>5, <1>6
<1>8. TotpOK /\ \A a \in Accounts : Present(a) => Way(a)  BY <1>2, <1>4, <1>7, Zenon DEF TotpOK, Way, HasPassword
<1> QED  BY <1>1, <1>2, <1>8, Zenon DEF MethodInv

LEMMA AsideDeletes ==
    ASSUME Aside, NoDelete
    PROVE  NoDelete'
BY DEF Aside, NoDelete, AdminPcs

LEMMA QuietWays ==
    ASSUME LinksOK, TotpOK, IdpsOK, UNCHANGED <<ops, pw, totp, keys, links, idps>>
    PROVE  TotpOK' /\ IdpsOK' /\ WaysKept
BY QuietGrows, GrowsKeeps, TotpSame, Zenon DEF IdpsOK

\* Every step keeps the ways in, of a closed mix.
LEMMA NextWays ==
    ASSUME HeldOK, LinksOK, InvitesOK, MailOK, PasswordsOK, TotpOK, IdpsOK, [Next]_vars
    PROVE  TotpOK' /\ IdpsOK' /\ UNCHANGED ops /\ (Closed /\ NoDelete => WaysKept /\ NoDelete')
<1> DEFINE Goal == TotpOK' /\ IdpsOK' /\ UNCHANGED ops /\ (Closed /\ NoDelete => WaysKept /\ NoDelete')
<1>1. FrameOK  BY DEF HeldOK
<1>2. Aside \/ AccountAdminNext  BY StepEffects
<1>3. NoDelete => NoDelete' \/ AccountAdminNext  BY <1>2, AsideDeletes
<1>4. ASSUME TotpOK' /\ IdpsOK' /\ UNCHANGED ops /\ (Closed => WaysKept)
      PROVE  Goal
  <2>1. ASSUME AccountAdminNext, Closed, NoDelete  PROVE NoDelete'  BY <1>1, <2>1, AdminWays
  <2> QED  BY <1>3, <1>4, <2>1
<1>5. ASSUME AccountAdminNext  PROVE Goal
  <2>1. TotpOK' /\ IdpsOK' /\ UNCHANGED ops  BY <1>5, AdminRows
  <2>2. ASSUME Closed, NoDelete  PROVE WaysKept /\ NoDelete'
    BY <1>1, <1>5, <2>2, AdminWays, QuietWays
  <2> QED  BY <2>1, <2>2
<1> HIDE DEF Goal
<1>6. ASSUME SignInNext \/ EnrollNext  PROVE Goal
  <2>1. TotpOK' /\ WaysKept /\ UNCHANGED idps  BY <1>6, SignInWays, EnrollWays
  <2> QED  BY <1>4, <2>1 DEF IdpsOK, WaysKept
<1>7. ASSUME EmailNext  PROVE Goal
  <2>1. UNCHANGED tables  BY <1>7, EmailEffects
  <2>2. TotpOK' /\ WaysKept /\ UNCHANGED idps  BY <2>1, EmailWays
  <2> QED  BY <1>4, <2>2 DEF IdpsOK, WaysKept
<1>8. ASSUME FederationNext  PROVE Goal
  BY <1>4, <1>8, FederationWays
<1>9. ASSUME UNCHANGED vars \/ Tick \/ \E p \in Procs : Abort(p)  PROVE Goal
  <2>1. UNCHANGED <<ops, pw, totp, keys, links, idps>>
    BY <1>9, Zenon DEF vars, Tick, Abort, directory, tables, factors, federated
  <2> QED  BY <1>4, <2>1, QuietWays DEF WaysKept
<1>10. Goal  BY <1>5, <1>6, <1>7, <1>8, <1>9, Zenon DEF Next
<1> QED  BY <1>10 DEF Goal

LEMMA MethodStep ==
    ASSUME TablesInv, MethodInv, [Next]_vars
    PROVE  MethodInv'
<1>1. HeldOK /\ LinksOK /\ InvitesOK /\ MailOK /\ PasswordsOK
  BY Zenon DEF TablesInv, IdentityInv, HeldOK
<1>2. TotpOK' /\ IdpsOK' /\ UNCHANGED ops /\ (Closed /\ NoDelete => WaysKept /\ NoDelete')
  BY <1>1, NextWays DEF MethodInv
<1>3. ASSUME Closed'
      PROVE  NoDelete' /\ \A a \in Accounts : Present(a)' => Way(a)'
  <2>1. Closed  BY <1>2, <1>3 DEF Closed
  <2>2. NoDelete /\ \A a \in Accounts : Present(a) => Way(a)  BY <2>1 DEF MethodInv
  <2>3. WaysKept /\ NoDelete'  BY <1>2, <2>1, <2>2
  <2>4. \A a \in Accounts : Present(a)' => Present(a)  BY <1>2 DEF Present
  <2> QED  BY <2>2, <2>3, <2>4 DEF WaysKept
<1> QED  BY <1>2, <1>3 DEF MethodInv

\* Nobody removes his own last way in: whatever requests change the factors and identities
\* of an account, in whatever order, it keeps a sign-in method (the last-passkey rule of
\* handle_me.go:568, flow.go:111, handle_me_identities.go:122), as long as no admin deletes
\* passkeys or accounts, or closes a provider.
THEOREM MethodAlwaysRemains == Spec => []MethodRemains
<1>1. Init => MethodInv  BY MethodInit
<1>2. TablesInv /\ MethodInv /\ [Next]_vars => MethodInv'  BY MethodStep
<1>3. MethodInv => MethodRemains
  <2>1. \A a \in Accounts : Way(a) => AvailableMethods(a) # {}  BY WaysAre
  <2> QED  BY <2>1 DEF MethodInv, MethodRemains, Closed
<1> QED  BY <1>1, <1>2, <1>3, TablesHold, PTL DEF Spec
=============================================================================
