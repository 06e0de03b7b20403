------------------------- MODULE SessionStoreProofs -------------------------
(***************************************************************************)
(* SessionStore: a session that was ended comes back only through an       *)
(* unfenced write, and a revoke-all that reports success left nothing of   *)
(* what it found, for any number of accounts, tokens and requests.         *)
(***************************************************************************)
EXTENDS SessionStore, KvProofs

\* Labels at which a request works on one session, and on one account.
OnToken == {"insert", "lease", "cas", "release", "loaded", "rvGet", "rvDel", "rvStamp"}
OnAccount == {"raLease", "raScan", "raDel", "raCheck", "raRelease"}
Pcs == {"idle", "list"} \cup OnToken \cup OnAccount

Data == [sid : Nat, exp : Nat, sudo : Nat, rem : BOOLEAN]
Fills == [tok : Tokens, data : Data]
Locals == [kind : {"none", "issue", "mw", "sudo", "revoke", "list", "revokeAll"},
           tok : Tokens \cup {None}, acct : Accounts \cup {None}, raw : Data, data : Data,
           ttl : Nat, todo : SUBSET Tokens, fill : SUBSET Fills, mark : SUBSET Tokens,
           sid : Nat, ok : BOOLEAN]
Rows == [sid : Nat, acct : Accounts \cup {None}]

TypeOK ==
    /\ clock \in Nat /\ nextSid \in Nat
    /\ kv \in [Tokens -> Cells(Data)] /\ lease \in [Accounts -> Cells(Procs)]
    /\ rows \subseteq Rows /\ stamped \subseteq Nat
    /\ used \subseteq Tokens /\ cookies \subseteq Tokens /\ disabled \subseteq Accounts
    /\ pc \in [Procs -> Pcs] /\ loc \in [Procs -> Locals]
    /\ ended \subseteq Tokens /\ raced \subseteq Tokens

\* Whatever a request holds was generated before: a token of U.
RequestOK(label, l, U) ==
    /\ label \in OnToken => l.tok \in U
    /\ label \in OnToken \cup OnAccount => l.acct \in Accounts
    /\ label = "list" => l.tok \in U \cup {None} /\ l.acct \in Accounts
    /\ l.todo \subseteq U /\ l.mark \subseteq U \cap TokensOf(l.acct)
    /\ \A e \in l.fill : e.tok \in U

\* Only generated tokens are live, returned, held by a request or ended: a token
\* that is generated is none of these.
UsedInv ==
    /\ \A t \in Tokens : Live(t) => t \in used
    /\ cookies \subseteq used /\ ended \subseteq used
    /\ \A p \in Procs : RequestOK(pc[p], loc[p], used)

\* What revoke-all has dealt with: a session it marked and no longer has to
\* delete is gone, or was written back without the fence.
SweptInv ==
    \A p \in Procs : pc[p] \in {"raDel", "raCheck", "raRelease"} /\ loc[p].ok =>
        \A t \in loc[p].mark :
            t \notin loc[p].todo \/ pc[p] # "raDel" => (Live(t) => t \in raced)

StoreInv == TypeOK /\ UsedInv

-----------------------------------------------------------------------------
(* Types, and that whatever is held was generated                            *)

LEMMA BlankTyped ==
    /\ NoData \in Data /\ Blank \in Locals
    /\ \A U : RequestOK("idle", Blank, U)
<1>1. NoData \in Data  BY DEF NoData, Data
<1>2. Blank \in Locals  BY <1>1 DEF Blank, Locals
<1>3. Blank.todo = {} /\ Blank.mark = {} /\ Blank.fill = {}  BY DEF Blank
<1> QED  BY <1>1, <1>2, <1>3 DEF RequestOK, OnToken, OnAccount

\* A live session has data of its type, and was generated.
LEMMA LiveTyped ==
    ASSUME StoreInv, NEW t \in Tokens, Live(t)
    PROVE  kv[t].val \in Data /\ kv[t].exp \in Nat /\ clock < kv[t].exp /\ t \in used
BY FoundTyped DEF StoreInv, TypeOK, UsedInv, Live

LEMMA TtlTyped ==
    ASSUME NEW d \in Data
    PROVE  ttlFor(d) \in Nat \ {0}
BY TtlAssumption DEF ttlFor, Data

\* A request that moves on, with facts that hold of itself, disturbs no other.
LEMMA Moved ==
    ASSUME StoreInv, NEW p \in Procs, NEW label \in Pcs, NEW l \in Locals,
           used \subseteq used', RequestOK(label, l, used'),
           Goto(p, label) \/ (pc' = pc /\ label = pc[p]),
           Set(p, l) \/ (loc' = loc /\ l = loc[p])
    PROVE  /\ pc' \in [Procs -> Pcs] /\ loc' \in [Procs -> Locals]
           /\ pc'[p] = label /\ loc'[p] = l
           /\ \A q \in Procs \ {p} : pc'[q] = pc[q] /\ loc'[q] = loc[q]
           /\ \A q \in Procs : RequestOK(pc'[q], loc'[q], used')
<1>1. /\ pc' \in [Procs -> Pcs] /\ loc' \in [Procs -> Locals]
      /\ pc'[p] = label /\ loc'[p] = l
      /\ \A q \in Procs \ {p} : pc'[q] = pc[q] /\ loc'[q] = loc[q]
  BY DEF StoreInv, TypeOK, Goto, Set
<1>2. ASSUME NEW q \in Procs \ {p} PROVE RequestOK(pc[q], loc[q], used')
  <2>1. RequestOK(pc[q], loc[q], used)  BY DEF StoreInv, UsedInv
  <2> QED  BY <2>1 DEF RequestOK
<1> QED  BY <1>1, <1>2

LEMMA Finished ==
    ASSUME StoreInv, NEW p \in Procs, used \subseteq used', Finish(p)
    PROVE  /\ pc' \in [Procs -> Pcs] /\ loc' \in [Procs -> Locals]
           /\ pc'[p] = "idle" /\ loc'[p] = Blank
           /\ \A q \in Procs \ {p} : pc'[q] = pc[q] /\ loc'[q] = loc[q]
           /\ \A q \in Procs : RequestOK(pc'[q], loc'[q], used')
<1>1. "idle" \in Pcs /\ RequestOK("idle", Blank, used')  BY BlankTyped DEF Pcs
<1> QED  BY <1>1, BlankTyped, Moved DEF Finish

\* What a write of one session, and a delete of one, leave behind.
LEMMA WriteFacts ==
    ASSUME StoreInv, NEW t \in Tokens, NEW d \in Data, NEW ttl \in Nat,
           kv' = SetEx(kv, t, d, ttl, clock), clock' = clock
    PROVE  /\ kv' \in [Tokens -> Cells(Data)]
           /\ \A u \in Tokens \ {t} : Live(u)' <=> Live(u)
<1>1. kv \in [Tokens -> Cells(Data)] /\ clock \in Nat  BY DEF StoreInv, TypeOK
<1>2. /\ SetEx(kv, t, d, ttl, clock) \in [Tokens -> Cells(Data)]
      /\ SetEx(kv, t, d, ttl, clock)[t] = [val |-> d, exp |-> clock + ttl]
      /\ \A u \in Tokens \ {t} : SetEx(kv, t, d, ttl, clock)[u] = kv[u]
  BY <1>1, SetExTyped
<1> QED  BY <1>2 DEF Live, Found

LEMMA DelFacts ==
    ASSUME StoreInv, NEW t \in Tokens, kv' = Del(kv, t), clock' = clock
    PROVE  /\ kv' \in [Tokens -> Cells(Data)] /\ ~Live(t)'
           /\ \A u \in Tokens \ {t} : Live(u)' <=> Live(u)
<1>1. /\ Del(kv, t) \in [Tokens -> Cells(Data)] /\ Del(kv, t)[t].exp = 0
      /\ \A u \in Tokens \ {t} : Del(kv, t)[u] = kv[u]
  BY DelTyped DEF StoreInv, TypeOK
<1> QED  BY <1>1 DEF Live, Found, StoreInv, TypeOK

\* Time only takes sessions away.
LEMMA TickLive ==
    ASSUME StoreInv, Tick, NEW t \in Tokens, Live(t)'
    PROVE  Live(t)
<1>1. clock \in Nat /\ clock' = clock + 1 /\ kv' = kv  BY DEF StoreInv, TypeOK, Tick, store
<1>2. kv[t].exp \in Nat  BY DEF StoreInv, TypeOK, Cells, NoEntry
<1> QED  BY <1>1, <1>2 DEF Live, Found

\* The lease's three operations keep it typed.
LEMMA LeaseTyped ==
    ASSUME StoreInv, NEW p \in Procs, NEW a \in Accounts
    PROVE  /\ SetEx(lease, a, p, LeaseTTL, clock) \in [Accounts -> Cells(Procs)]
           /\ CompareAndDelete(lease, a, p, clock) \in [Accounts -> Cells(Procs)]
           /\ CompareAndSwap(lease, a, p, p, LeaseTTL, clock) \in [Accounts -> Cells(Procs)]
BY SetExTyped, CompareAndDeleteTyped, CompareAndSwapTyped, TtlAssumption DEF StoreInv, TypeOK

\* The invariant's parts about everything but the store and the requests.
LEMMA StoreKept ==
    ASSUME StoreInv, UNCHANGED <<kv, clock>>, used \subseteq used', used' \subseteq Tokens,
           nextSid' \in Nat, lease' \in [Accounts -> Cells(Procs)],
           rows' \subseteq Rows, stamped' \subseteq Nat, disabled' \subseteq Accounts,
           UNCHANGED <<ended, raced>>, cookies' \subseteq used',
           pc' \in [Procs -> Pcs], loc' \in [Procs -> Locals],
           \A q \in Procs : RequestOK(pc'[q], loc'[q], used')
    PROVE  StoreInv'
BY DEF StoreInv, TypeOK, UsedInv, Live

\* A request that only moves on.
LEMMA MovedKeeps ==
    ASSUME StoreInv, NEW p \in Procs, NEW label \in Pcs, NEW l \in Locals,
           RequestOK(label, l, used),
           Goto(p, label) \/ (pc' = pc /\ label = pc[p]),
           Set(p, l) \/ (loc' = loc /\ l = loc[p]),
           UNCHANGED <<kv, clock, used, rows, cookies, ended, raced>>,
           nextSid' \in Nat, lease' \in [Accounts -> Cells(Procs)], stamped' \subseteq Nat,
           disabled' \subseteq Accounts
    PROVE  StoreInv'
<1>1. used \subseteq used' /\ RequestOK(label, l, used')  OBVIOUS
<1>2. /\ pc' \in [Procs -> Pcs] /\ loc' \in [Procs -> Locals]
      /\ \A q \in Procs : RequestOK(pc'[q], loc'[q], used')
  BY <1>1, Moved
<1> QED  BY <1>2, StoreKept DEF StoreInv, TypeOK, UsedInv

LEMMA IssueKeeps ==
    ASSUME StoreInv, NEW p \in Procs, NEW t \in Tokens, NEW r \in Remember, Issue(p, t, r)
    PROVE  /\ StoreInv' /\ t \notin used
           /\ \A u \in Tokens \ {t} : Live(u)' <=> Live(u)
<1> DEFINE x == [rem |-> r]
           d == [sid |-> nextSid, exp |-> clock + ttlFor(x), sudo |-> 0, rem |-> r]
           l == [Blank EXCEPT !.kind = "issue", !.tok = t, !.acct = AcctOf[t], !.sid = nextSid]
<1>1. r \in BOOLEAN /\ clock \in Nat /\ nextSid \in Nat /\ AcctOf[t] \in Accounts
  BY SetAssumption DEF StoreInv, TypeOK
<1>2. ttlFor(x) \in Nat  BY <1>1, TtlAssumption DEF ttlFor
<1>3. d \in Data  BY <1>1, <1>2 DEF Data
<1>4. l \in Locals /\ RequestOK("insert", l, used') /\ "insert" \in Pcs
  <2>1. l \in Locals  BY <1>1, BlankTyped DEF Locals
  <2>2. t \in used'  BY DEF Issue
  <2>3. l.tok = t /\ l.acct = AcctOf[t] /\ l.todo = {} /\ l.mark = {} /\ l.fill = {}
    BY DEF Blank
  <2> QED  BY <1>1, <2>1, <2>2, <2>3 DEF RequestOK, Pcs, OnToken, OnAccount
<1>5. ttlFor(d) = ttlFor(x)  BY DEF ttlFor
<1>6. kv' = SetEx(kv, t, d, ttlFor(d), clock) /\ Set(p, l) /\ Goto(p, "insert")
  BY DEF Issue
<1>7. used' = used \cup {t} /\ t \notin used /\ UNCHANGED <<clock, cookies, ended, raced>>
  BY DEF Issue, history
<1> HIDE DEF x, d, l
<1>8. kv' \in [Tokens -> Cells(Data)] /\ \A u \in Tokens \ {t} : Live(u)' <=> Live(u)
  BY <1>2, <1>3, <1>5, <1>6, <1>7, WriteFacts
<1>9. /\ pc' \in [Procs -> Pcs] /\ loc' \in [Procs -> Locals]
      /\ \A q \in Procs : RequestOK(pc'[q], loc'[q], used')
  BY <1>4, <1>6, <1>7, Moved
<1>10. TypeOK'  BY <1>1, <1>7, <1>8, <1>9 DEF Issue, StoreInv, TypeOK, history
<1>11. UsedInv'  BY <1>7, <1>8, <1>9 DEF StoreInv, UsedInv
<1> QED  BY <1>7, <1>8, <1>10, <1>11 DEF StoreInv

LEMMA InsertKeeps ==
    ASSUME StoreInv, NEW p \in Procs, InsertSession(p)
    PROVE  StoreInv'
<1>1. loc[p] \in Locals /\ RequestOK(pc[p], loc[p], used)  BY DEF StoreInv, TypeOK, UsedInv
<1>2. loc[p].tok \in used  BY <1>1 DEF InsertSession, RequestOK, OnToken
<1>3. rows' \subseteq Rows  BY <1>1 DEF InsertSession, StoreInv, TypeOK, Rows, Locals
<1>4. cookies' \subseteq used  BY <1>2 DEF InsertSession, StoreInv, UsedInv
<1>5. /\ pc' \in [Procs -> Pcs] /\ loc' \in [Procs -> Locals]
      /\ \A q \in Procs : RequestOK(pc'[q], loc'[q], used')
  BY Finished DEF InsertSession
<1> QED  BY <1>3, <1>4, <1>5, StoreKept DEF InsertSession, StoreInv, TypeOK, history

\* A session that is deleted is recorded as ended and is not live.
LEMMA DeleteKeeps ==
    ASSUME StoreInv, NEW t \in used, kv' = Del(kv, t), ended' = ended \cup {t},
           UNCHANGED <<clock, lease, rows, nextSid, used, cookies, disabled, raced, stamped>>,
           pc' \in [Procs -> Pcs], loc' \in [Procs -> Locals],
           \A q \in Procs : RequestOK(pc'[q], loc'[q], used')
    PROVE  StoreInv'
<1>1. t \in Tokens  BY DEF StoreInv, TypeOK
<1>2. kv' \in [Tokens -> Cells(Data)] /\ \A u \in Tokens : Live(u)' => Live(u)
  BY <1>1, DelFacts
<1>3. TypeOK'  BY <1>1, <1>2 DEF StoreInv, TypeOK
<1>4. UsedInv'  BY <1>2 DEF StoreInv, UsedInv
<1> QED  BY <1>3, <1>4 DEF StoreInv

\* A session that is rewritten was generated before.
LEMMA WriteKeeps ==
    ASSUME StoreInv, NEW t \in used, NEW d \in Data, NEW ttl \in Nat,
           kv' = SetEx(kv, t, d, ttl, clock) \/ kv' = kv,
           raced' \in {raced, raced \cup {t}}, nextSid' \in Nat,
           UNCHANGED <<clock, lease, rows, used, cookies, disabled, ended, stamped>>,
           pc' \in [Procs -> Pcs], loc' \in [Procs -> Locals],
           \A q \in Procs : RequestOK(pc'[q], loc'[q], used')
    PROVE  StoreInv' /\ \A u \in Tokens \ {t} : Live(u)' <=> Live(u)
<1>1. t \in Tokens  BY DEF StoreInv, TypeOK
<1>2. kv' \in [Tokens -> Cells(Data)] /\ \A u \in Tokens \ {t} : Live(u)' <=> Live(u)
  <2>1. CASE kv' = kv  BY <2>1 DEF StoreInv, TypeOK, Live
  <2>2. CASE kv' = SetEx(kv, t, d, ttl, clock)  BY <1>1, <2>2, WriteFacts
  <2> QED  BY <2>1, <2>2
<1>3. TypeOK'  BY <1>1, <1>2 DEF StoreInv, TypeOK
<1>4. UsedInv'  BY <1>2 DEF StoreInv, UsedInv
<1> QED  BY <1>2, <1>3, <1>4 DEF StoreInv

LEMMA LoadGetKeeps ==
    ASSUME StoreInv, NEW p \in Procs, NEW t \in Tokens, NEW kind \in {"mw", "sudo"},
           LoadGet(p, t, kind)
    PROVE  StoreInv'
<1> DEFINE d == kv[t].val
           b == Backfilled(d)
           new == IF RefreshDue(d) THEN [b EXCEPT !.exp = clock + ttlFor(d)] ELSE b
           l == [Blank EXCEPT !.kind = kind, !.tok = t, !.acct = AcctOf[t],
                              !.raw = d, !.data = new, !.ttl = WriteTtl(d)]
           label == IF RefreshDue(d) \/ (d.sid = 0 /\ WriteTtl(d) > 0) THEN "lease" ELSE "loaded"
<1>1. Live(t) /\ clock <= d.exp /\ t \in cookies /\ Set(p, l) /\ Goto(p, label)
      /\ nextSid' = SidAfter(d) /\ UNCHANGED <<clock, store, used, cookies, disabled, history>>
  BY DEF LoadGet
<1>2. d \in Data /\ d.exp \in Nat /\ clock \in Nat /\ nextSid \in Nat /\ t \in used
  BY <1>1, LiveTyped DEF StoreInv, TypeOK, Data
<1>3. ttlFor(d) \in Nat  BY <1>2, TtlTyped
<1>4. b \in Data  BY <1>2 DEF Backfilled, Data
<1>5. new \in Data
  <2>1. clock + ttlFor(d) \in Nat  BY <1>2, <1>3
  <2> HIDE DEF b
  <2>2. [b EXCEPT !.exp = clock + ttlFor(d)] \in Data  BY <1>4, <2>1 DEF Data
  <2> QED  BY <1>4, <2>2
<1>6. WriteTtl(d) \in Nat  BY <1>1, <1>2, <1>3 DEF WriteTtl
<1>7. nextSid' \in Nat  BY <1>1, <1>2 DEF SidAfter
<1> HIDE DEF d, new
<1>8. l \in Locals /\ l.tok = t /\ l.acct = AcctOf[t] /\ l.todo = {} /\ l.mark = {} /\ l.fill = {}
  <2>1. AcctOf[t] \in Accounts  BY SetAssumption
  <2>2. l \in Locals  BY <1>2, <1>5, <1>6, <2>1, BlankTyped DEF Locals
  <2> QED  BY <2>2 DEF Blank
<1>9. label \in Pcs /\ label \in OnToken /\ label # "list"  BY DEF Pcs, OnToken
<1> HIDE DEF l, label
<1>10. RequestOK(label, l, used)  BY <1>2, <1>8, <1>9, SetAssumption DEF RequestOK
<1> QED
  BY <1>1, <1>7, <1>8, <1>9, <1>10, MovedKeeps DEF StoreInv, TypeOK, store, history

LEMMA LoadStepsKeep ==
    ASSUME StoreInv, NEW p \in Procs,
           LoadLease(p) \/ LoadCasFails(p) \/ LoadRelease(p) \/ KillSession(p)
    PROVE  StoreInv'
<1>1. loc[p] \in Locals /\ pc[p] \in Pcs /\ RequestOK(pc[p], loc[p], used)
  BY DEF StoreInv, TypeOK, UsedInv
<1>2. pc[p] \in OnToken  BY DEF LoadLease, LoadCasFails, LoadRelease, KillSession, OnToken
<1>3. loc[p].acct \in Accounts /\ pc[p] # "list"  BY <1>1, <1>2 DEF RequestOK, OnToken
<1>4. lease' \in [Accounts -> Cells(Procs)]
  BY <1>3, LeaseTyped DEF LoadLease, LoadCasFails, LoadRelease, KillSession, store, StoreInv, TypeOK
<1>5. \A label \in {"cas", "release", "loaded", "rvGet"} :
        label \in Pcs /\ RequestOK(label, loc[p], used)
  BY <1>1, <1>2 DEF RequestOK, OnToken, Pcs
<1>6. \E label \in {"cas", "release", "loaded", "rvGet"} : Goto(p, label)
  BY DEF LoadLease, LoadCasFails, LoadRelease, KillSession
<1>7. loc' = loc /\ UNCHANGED <<kv, clock, used, rows, cookies, ended, raced, nextSid, stamped, disabled>>
  BY DEF LoadLease, LoadCasFails, LoadRelease, KillSession, store, history
<1> QED  BY <1>1, <1>4, <1>5, <1>6, <1>7, MovedKeeps DEF StoreInv, TypeOK

LEMMA LoadCasKeeps ==
    ASSUME StoreInv, NEW p \in Procs, LoadCas(p)
    PROVE  /\ StoreInv' /\ \A u \in Tokens : Live(u)' => Live(u)
<1> DEFINE t == loc[p].tok
<1>1. loc[p] \in Locals /\ RequestOK("cas", loc[p], used)  BY DEF LoadCas, StoreInv, TypeOK, UsedInv
<1>2. t \in used /\ loc[p].data \in Data /\ loc[p].ttl \in Nat
  BY <1>1 DEF RequestOK, OnToken, Locals
<1>3. \/ kv' = SetEx(kv, t, loc[p].data, loc[p].ttl, clock) /\ Holds(kv, t, loc[p].raw, clock)
      \/ kv' = kv
  BY DEF LoadCas, FencedCompareAndSwap
<1>4. "release" \in Pcs /\ RequestOK("release", loc[p], used')
  BY <1>1 DEF LoadCas, RequestOK, OnToken, Pcs
<1>5. /\ pc' \in [Procs -> Pcs] /\ loc' \in [Procs -> Locals]
      /\ \A q \in Procs : RequestOK(pc'[q], loc'[q], used')
  BY <1>1, <1>4, Moved DEF LoadCas
<1>6. StoreInv' /\ \A u \in Tokens \ {t} : Live(u)' <=> Live(u)
  <2>1. UNCHANGED <<clock, lease, rows, used, cookies, disabled, ended, stamped, raced, nextSid>>
    BY DEF LoadCas
  <2> QED  BY <1>2, <1>3, <1>5, <2>1, WriteKeeps DEF StoreInv, TypeOK
<1>7. kv' = kv \/ Live(t)  BY <1>3 DEF Holds, Live
<1> QED  BY <1>6, <1>7 DEF LoadCas, Live

\* The unfenced writes: what was not live when they wrote it is recorded as raced.
LEMMA SaveKeeps ==
    ASSUME StoreInv, NEW p \in Procs, Save(p)
    PROVE  /\ StoreInv' /\ \A u \in Tokens : Live(u)' => Live(u) \/ u \in raced'
<1> DEFINE t == loc[p].tok
           d == loc[p].data
           r == d.exp - clock
           v == [d EXCEPT !.sudo = clock + SudoTTL]
<1>1. loc[p] \in Locals /\ RequestOK("loaded", loc[p], used)  BY DEF Save, StoreInv, TypeOK, UsedInv
<1>2. t \in used /\ d \in Data /\ d.exp \in Nat /\ clock \in Nat /\ clock + SudoTTL \in Nat
  BY <1>1, TtlAssumption DEF RequestOK, OnToken, Locals, Data, StoreInv, TypeOK
<1>3. v \in Data /\ (r > 0 => r \in Nat)  BY <1>2 DEF Data
<1>4. /\ pc' \in [Procs -> Pcs] /\ loc' \in [Procs -> Locals]
      /\ \A q \in Procs : RequestOK(pc'[q], loc'[q], used')
      /\ UNCHANGED <<clock, lease, rows, used, cookies, disabled, ended, stamped, nextSid>>
  BY Finished DEF Save
<1>5. CASE r > 0
  <2>1. kv' = SetEx(kv, t, v, r, clock) /\ raced' = IF Live(t) THEN raced ELSE raced \cup {t}
    BY <1>5 DEF Save
  <2> HIDE DEF v, r
  <2>2. r \in Nat /\ nextSid' \in Nat  BY <1>3, <1>4, <1>5 DEF StoreInv, TypeOK
  <2>3. StoreInv' /\ \A u \in Tokens \ {t} : Live(u)' <=> Live(u)
    BY <1>2, <1>3, <1>4, <2>1, <2>2, WriteKeeps
  <2> QED  BY <2>1, <2>3
<1>6. CASE ~(r > 0)
  <2>1. kv' = kv /\ raced' = raced  BY <1>6 DEF Save
  <2>2. \A u \in Tokens : Live(u)' <=> Live(u)  BY <1>4, <2>1 DEF Live
  <2> QED  BY <1>4, <2>1, <2>2, StoreKept DEF StoreInv, TypeOK, UsedInv
<1> QED  BY <1>5, <1>6

LEMMA RevokeStepsKeep ==
    ASSUME StoreInv, NEW p \in Procs,
           RevokeGet(p) \/ (\E t \in Tokens : Logout(p, t))
    PROVE  StoreInv'
<1>1. loc[p] \in Locals /\ RequestOK(pc[p], loc[p], used)  BY DEF StoreInv, TypeOK, UsedInv
<1>2. ASSUME RevokeGet(p) PROVE StoreInv'
  <2> DEFINE t == loc[p].tok
             s == IF Live(t) THEN kv[t].val.sid ELSE 0
             l == [loc[p] EXCEPT !.sid = s]
  <2>1. RequestOK("rvGet", loc[p], used)  BY <1>1, <1>2 DEF RevokeGet
  <2>2. t \in used /\ loc[p].acct \in Accounts  BY <2>1 DEF RequestOK, OnToken
  <2>3. s \in Nat  BY <2>2, LiveTyped DEF StoreInv, TypeOK, Data
  <2> HIDE DEF s
  <2>4. /\ l \in Locals /\ l.tok = t /\ l.acct = loc[p].acct /\ l.todo = loc[p].todo
        /\ l.mark = loc[p].mark /\ l.fill = loc[p].fill
    BY <1>1, <2>3 DEF Locals
  <2>5. Set(p, l) /\ Goto(p, "rvDel")  BY <1>2 DEF RevokeGet, s
  <2> HIDE DEF l
  <2>6. RequestOK("rvDel", l, used) /\ "rvDel" \in Pcs
    BY <2>1, <2>2, <2>4 DEF RequestOK, OnToken, Pcs
  <2> QED
    BY <1>2, <2>4, <2>5, <2>6, MovedKeeps DEF RevokeGet, StoreInv, TypeOK, store, history
<1>3. ASSUME NEW t \in Tokens, Logout(p, t) PROVE StoreInv'
  <2> DEFINE l == [Blank EXCEPT !.kind = "revoke", !.tok = t, !.acct = AcctOf[t]]
  <2>1. t \in used /\ AcctOf[t] \in Accounts  BY <1>3, SetAssumption DEF Logout, StoreInv, UsedInv
  <2>2. l \in Locals  BY <2>1, BlankTyped DEF Locals
  <2>3. l.tok = t /\ l.acct = AcctOf[t] /\ l.todo = {} /\ l.mark = {} /\ l.fill = {}
    BY DEF Blank
  <2>4. Set(p, l) /\ Goto(p, "rvGet")  BY <1>3 DEF Logout
  <2> HIDE DEF l
  <2>5. RequestOK("rvGet", l, used) /\ "rvGet" \in Pcs
    BY <2>1, <2>3 DEF RequestOK, OnToken, Pcs
  <2> QED
    BY <1>3, <2>2, <2>4, <2>5, MovedKeeps DEF Logout, StoreInv, TypeOK, store, history
<1> QED  BY <1>2, <1>3

LEMMA RevokeDelKeeps ==
    ASSUME StoreInv, NEW p \in Procs, RevokeDel(p)
    PROVE  StoreInv' /\ loc[p].tok \in used
<1>1. loc[p] \in Locals /\ RequestOK("rvDel", loc[p], used)
  BY DEF RevokeDel, StoreInv, TypeOK, UsedInv
<1>2. loc[p].tok \in used  BY <1>1 DEF RequestOK, OnToken
<1>3. /\ pc' \in [Procs -> Pcs] /\ loc' \in [Procs -> Locals]
      /\ \A q \in Procs : RequestOK(pc'[q], loc'[q], used')
  <2>1. used' = used  BY DEF RevokeDel
  <2>2. RequestOK("rvStamp", loc[p], used') /\ "rvStamp" \in Pcs
    BY <1>1, <2>1 DEF RequestOK, OnToken, Pcs
  <2> QED  BY <1>1, <2>1, <2>2, Moved, Finished DEF RevokeDel
<1> QED  BY <1>2, <1>3, DeleteKeeps DEF RevokeDel

LEMMA InsertFailsKeeps ==
    ASSUME StoreInv, NEW p \in Procs, InsertSessionFails(p)
    PROVE  StoreInv' /\ loc[p].tok \in used
<1>1. RequestOK("insert", loc[p], used)  BY DEF InsertSessionFails, StoreInv, UsedInv
<1>2. loc[p].tok \in used  BY <1>1 DEF RequestOK, OnToken
<1> QED  BY <1>2, Finished, DeleteKeeps DEF InsertSessionFails

LEMMA LoadExpiredKeeps ==
    ASSUME StoreInv, NEW p \in Procs, NEW t \in Tokens, LoadExpired(p, t)
    PROVE  StoreInv' /\ t \in used
<1>1. t \in used  BY DEF LoadExpired, StoreInv, UsedInv
<1> QED  BY <1>1, DeleteKeeps DEF LoadExpired, StoreInv, TypeOK, UsedInv

LEMMA ListKeeps ==
    ASSUME StoreInv, NEW p \in Procs, NEW a \in Accounts, NEW target \in Tokens \cup {None},
           List(p, a, target)
    PROVE  StoreInv'
<1> DEFINE fill == {[tok |-> t, data |-> kv[t].val] :
                       t \in {u \in ScanKeys(kv, TokensOf(a), clock) : kv[u].val.sid = 0}}
           s == IF target = None THEN 0 ELSE kv[target].val.sid
           l == [Blank EXCEPT !.kind = "list", !.tok = target, !.acct = a,
                              !.fill = fill, !.sid = s]
           label == IF fill = {} THEN "rvDel" ELSE "list"
<1>1. \A u \in ScanKeys(kv, TokensOf(a), clock) : u \in Tokens /\ u \in used /\ kv[u].val \in Data
  BY LiveTyped DEF ScanKeys, TokensOf, Live
<1>2. \A e \in fill : e \in Fills /\ e.tok \in used  BY <1>1 DEF Fills
<1>3. target # None => target \in used /\ s \in Nat  BY <1>1 DEF List, Data
<1>4. Set(p, l) /\ Goto(p, label) /\ (fill # {} \/ target # None)  BY DEF List
<1> HIDE DEF fill
<1>5. s \in Nat  BY <1>3
<1> HIDE DEF s
<1>6. fill \subseteq Fills  BY <1>2
<1>7. l \in Locals  BY <1>5, <1>6, BlankTyped DEF Locals
<1>8. l.tok = target /\ l.acct = a /\ l.todo = {} /\ l.mark = {} /\ l.fill = fill
  BY DEF Blank
<1> HIDE DEF l
<1>9. RequestOK(label, l, used) /\ label \in Pcs
  BY <1>2, <1>3, <1>4, <1>8 DEF RequestOK, OnToken, OnAccount, Pcs
<1> QED
  BY <1>4, <1>7, <1>9, MovedKeeps DEF List, StoreInv, TypeOK, store, history

LEMMA ListFillKeeps ==
    ASSUME StoreInv, NEW p \in Procs, ListFill(p)
    PROVE  /\ StoreInv' /\ \A u \in Tokens : Live(u)' => Live(u) \/ u \in raced'
<1>1. loc[p] \in Locals /\ RequestOK("list", loc[p], used) /\ clock \in Nat /\ nextSid \in Nat
  BY DEF ListFill, StoreInv, TypeOK, UsedInv
<1>2. PICK e \in loc[p].fill :
        LET remaining == e.data.exp - clock
            left == loc[p].fill \ {e}
        IN  /\ IF remaining > 0
               THEN /\ kv' = SetEx(kv, e.tok, [e.data EXCEPT !.sid = nextSid], remaining, clock)
                    /\ raced' = IF Live(e.tok) THEN raced ELSE raced \cup {e.tok}
               ELSE UNCHANGED <<kv, raced>>
            /\ IF left # {} THEN pc' = pc /\ Set(p, [loc[p] EXCEPT !.fill = left])
               ELSE IF loc[p].tok # None
                    THEN Goto(p, "rvDel") /\ Set(p, [loc[p] EXCEPT !.fill = {}])
                    ELSE Finish(p)
  BY DEF ListFill
<1> DEFINE r == e.data.exp - clock
           left == loc[p].fill \ {e}
           v == [e.data EXCEPT !.sid = nextSid]
<1>3. e.tok \in used /\ e.data \in Data /\ e.data.exp \in Nat
  BY <1>1 DEF RequestOK, Locals, Fills, Data
<1>4. v \in Data /\ (r > 0 => r \in Nat)  BY <1>1, <1>3 DEF Data
<1>5. /\ used' = used /\ nextSid' \in Nat
      /\ UNCHANGED <<clock, lease, rows, used, cookies, disabled, ended, stamped>>
  BY <1>1 DEF ListFill
<1>6. /\ pc' \in [Procs -> Pcs] /\ loc' \in [Procs -> Locals]
      /\ \A q \in Procs : RequestOK(pc'[q], loc'[q], used')
  <2>1. ASSUME NEW rest \in SUBSET loc[p].fill
        PROVE  /\ [loc[p] EXCEPT !.fill = rest] \in Locals
               /\ RequestOK("list", [loc[p] EXCEPT !.fill = rest], used)
               /\ loc[p].tok # None => RequestOK("rvDel", [loc[p] EXCEPT !.fill = rest], used)
    <3> DEFINE l == [loc[p] EXCEPT !.fill = rest]
    <3>1. /\ l \in Locals /\ l.tok = loc[p].tok /\ l.acct = loc[p].acct /\ l.todo = loc[p].todo
          /\ l.mark = loc[p].mark /\ l.fill = rest
      BY <1>1 DEF Locals
    <3> HIDE DEF l
    <3>2. RequestOK("list", l, used) /\ (loc[p].tok # None => RequestOK("rvDel", l, used))
      BY <1>1, <3>1 DEF RequestOK, OnToken, OnAccount
    <3> QED  BY <3>1, <3>2 DEF l
  <2>2. "list" \in Pcs /\ "rvDel" \in Pcs  BY DEF Pcs, OnToken
  <2>3. CASE left # {}
    <3>1. pc[p] = "list" /\ pc' = pc /\ Set(p, [loc[p] EXCEPT !.fill = left])
      BY <1>2, <2>3 DEF ListFill
    <3> QED  BY <1>5, <2>1, <2>2, <3>1, Moved
  <2>4. CASE left = {} /\ loc[p].tok # None
    <3>1. Goto(p, "rvDel") /\ Set(p, [loc[p] EXCEPT !.fill = {}])  BY <1>2, <2>4
    <3> QED  BY <1>5, <2>1, <2>2, <2>4, <3>1, Moved
  <2>5. CASE left = {} /\ loc[p].tok = None
    BY <1>2, <1>5, <2>5, Finished
  <2> QED  BY <2>3, <2>4, <2>5
<1>7. CASE r > 0
  <2>1. kv' = SetEx(kv, e.tok, v, r, clock)
        /\ raced' = IF Live(e.tok) THEN raced ELSE raced \cup {e.tok}
    BY <1>2, <1>7
  <2> HIDE DEF v, r
  <2>2. StoreInv' /\ \A u \in Tokens \ {e.tok} : Live(u)' <=> Live(u)
    BY <1>3, <1>4, <1>5, <1>6, <1>7, <2>1, WriteKeeps
  <2> QED  BY <2>1, <2>2
<1>8. CASE ~(r > 0)
  <2>1. kv' = kv /\ raced' = raced  BY <1>2, <1>8
  <2>2. \A u \in Tokens : Live(u)' <=> Live(u)  BY <1>5, <2>1 DEF Live
  <2> QED  BY <1>5, <1>6, <2>1, <2>2, StoreKept DEF StoreInv, TypeOK, UsedInv
<1> QED  BY <1>7, <1>8

LEMMA RevokeAllStartKeeps ==
    ASSUME StoreInv, NEW p \in Procs, NEW a \in Accounts, RevokeAll(p, a) \/ SetDisabled(p, a)
    PROVE  StoreInv'
<1> DEFINE l == [Blank EXCEPT !.kind = "revokeAll", !.acct = a]
<1>1. l \in Locals /\ l.acct = a /\ l.todo = {} /\ l.mark = {} /\ l.fill = {}
  <2>1. l \in Locals  BY BlankTyped DEF Locals
  <2> QED  BY <2>1 DEF Blank
<1>2. Set(p, l) /\ Goto(p, "raLease")  BY DEF RevokeAll, SetDisabled
<1>3. UNCHANGED <<clock, store, nextSid, used, cookies, history>> /\ disabled' \subseteq Accounts
  BY DEF RevokeAll, SetDisabled, StoreInv, TypeOK
<1> HIDE DEF l
<1>4. RequestOK("raLease", l, used) /\ "raLease" \in Pcs
  BY <1>1 DEF RequestOK, OnToken, OnAccount, Pcs
<1> QED  BY <1>1, <1>2, <1>3, <1>4, MovedKeeps DEF StoreInv, TypeOK, store, history

\* A request of revoke-all that keeps its account and holds generated tokens of it.
LEMMA SweepMoves ==
    ASSUME StoreInv, NEW p \in Procs, NEW label \in OnAccount, NEW l \in Locals,
           l.acct = loc[p].acct, pc[p] \in OnAccount,
           l.todo \subseteq used, l.mark \subseteq used \cap TokensOf(l.acct), l.fill = loc[p].fill
    PROVE  label \in Pcs /\ RequestOK(label, l, used)
<1>1. RequestOK(pc[p], loc[p], used)  BY DEF StoreInv, UsedInv
<1> QED  BY <1>1 DEF RequestOK, OnToken, OnAccount, Pcs

LEMMA RevokeAllLeaseKeeps ==
    ASSUME StoreInv, NEW p \in Procs, RevokeAllLease(p)
    PROVE  StoreInv'
<1> DEFINE a == loc[p].acct
           m == ScanKeys(kv, TokensOf(a), clock)
           l == [loc[p] EXCEPT !.mark = m]
<1>1. loc[p] \in Locals /\ RequestOK("raLease", loc[p], used)
  BY DEF RevokeAllLease, StoreInv, TypeOK, UsedInv
<1>2. a \in Accounts /\ pc[p] \in OnAccount  BY <1>1 DEF RequestOK, OnAccount, RevokeAllLease
<1>3. \A u \in m : u \in Tokens /\ u \in used /\ u \in TokensOf(a)
  BY LiveTyped DEF ScanKeys, TokensOf, Live
<1>4. CASE ~Found(lease, a, clock)
  <2>1. lease' \in [Accounts -> Cells(Procs)] /\ Set(p, l) /\ Goto(p, "raScan")
    BY <1>2, <1>4, LeaseTyped DEF RevokeAllLease
  <2> HIDE DEF m
  <2>2. /\ l \in Locals /\ l.acct = a /\ l.todo = loc[p].todo /\ l.mark = m /\ l.fill = loc[p].fill
    BY <1>1, <1>3 DEF Locals
  <2> HIDE DEF l
  <2>3. RequestOK("raScan", l, used) /\ "raScan" \in Pcs
    <3>1. l.todo \subseteq used  BY <1>1, <2>2 DEF RequestOK
    <3> QED  BY <1>2, <1>3, <2>2, <3>1, SweepMoves DEF OnAccount
  <2> QED
    BY <2>1, <2>2, <2>3, MovedKeeps DEF RevokeAllLease, StoreInv, TypeOK
<1>5. CASE Found(lease, a, clock)
  BY <1>5, Finished, StoreKept DEF RevokeAllLease, StoreInv, TypeOK, UsedInv
<1> QED  BY <1>4, <1>5

LEMMA RevokeAllScanKeeps ==
    ASSUME StoreInv, NEW p \in Procs, RevokeAllScan(p)
    PROVE  StoreInv'
<1> DEFINE a == loc[p].acct
           m == ScanKeys(kv, TokensOf(a), clock)
           l == [loc[p] EXCEPT !.todo = m]
<1>1. loc[p] \in Locals /\ RequestOK("raScan", loc[p], used) /\ pc[p] \in OnAccount
  BY DEF RevokeAllScan, StoreInv, TypeOK, UsedInv, OnAccount
<1>2. \A u \in m : u \in Tokens /\ u \in used
  BY LiveTyped DEF ScanKeys, TokensOf, Live
<1>3. Set(p, l) /\ Goto(p, "raDel")  BY DEF RevokeAllScan
<1> HIDE DEF m
<1>4. /\ l \in Locals /\ l.acct = a /\ l.todo = m /\ l.mark = loc[p].mark /\ l.fill = loc[p].fill
  BY <1>1, <1>2 DEF Locals
<1> HIDE DEF l
<1>5. RequestOK("raDel", l, used) /\ "raDel" \in Pcs
  <2>1. l.mark \subseteq used \cap TokensOf(l.acct)  BY <1>1, <1>4 DEF RequestOK
  <2> QED  BY <1>1, <1>2, <1>4, <2>1, SweepMoves DEF OnAccount
<1> QED  BY <1>3, <1>4, <1>5, MovedKeeps DEF RevokeAllScan, StoreInv, TypeOK, store, history

LEMMA RevokeAllDelKeeps ==
    ASSUME StoreInv, NEW p \in Procs, RevokeAllDel(p)
    PROVE  /\ StoreInv'
           /\ \A u \in Tokens : Live(u)' => Live(u)
           /\ \E t \in loc[p].todo :
                /\ t \in used
                /\ loc'[p].mark = loc[p].mark /\ loc'[p].todo = loc[p].todo \ {t}
                /\ \/ ~Live(t)' /\ ended' = ended \cup {t} /\ loc'[p].ok = loc[p].ok
                   \/ ended' = ended /\ ~loc'[p].ok
<1>1. loc[p] \in Locals /\ RequestOK("raDel", loc[p], used) /\ pc[p] \in OnAccount
      /\ pc[p] = "raDel"
  BY DEF RevokeAllDel, StoreInv, TypeOK, UsedInv, OnAccount
<1>2. PICK t \in loc[p].todo :
        \/ /\ kv' = Del(kv, t) /\ ended' = ended \cup {t}
           /\ Set(p, [loc[p] EXCEPT !.todo = @ \ {t}])
        \/ /\ Set(p, [loc[p] EXCEPT !.todo = @ \ {t}, !.ok = FALSE])
           /\ UNCHANGED <<kv, ended>>
  BY DEF RevokeAllDel
<1>3. t \in used /\ t \in Tokens  BY <1>1 DEF RequestOK, StoreInv, TypeOK
<1>4. /\ pc' = pc /\ used' = used
      /\ UNCHANGED <<clock, lease, rows, stamped, nextSid, used, cookies, disabled, raced>>
  BY DEF RevokeAllDel
<1> DEFINE l == [loc[p] EXCEPT !.todo = @ \ {t}]
           f == [loc[p] EXCEPT !.todo = @ \ {t}, !.ok = FALSE]
<1>5. /\ l \in Locals /\ l.acct = loc[p].acct /\ l.todo = loc[p].todo \ {t}
      /\ l.mark = loc[p].mark /\ l.fill = loc[p].fill /\ l.ok = loc[p].ok
  BY <1>1 DEF Locals
<1>6. /\ f \in Locals /\ f.acct = loc[p].acct /\ f.todo = loc[p].todo \ {t}
      /\ f.mark = loc[p].mark /\ f.fill = loc[p].fill /\ f.ok = FALSE
  BY <1>1 DEF Locals
<1>7. \/ kv' = Del(kv, t) /\ ended' = ended \cup {t} /\ Set(p, l)
      \/ Set(p, f) /\ UNCHANGED <<kv, ended>>
  BY <1>2
<1> HIDE DEF l, f
<1>8. RequestOK("raDel", l, used) /\ RequestOK("raDel", f, used) /\ "raDel" \in Pcs
  BY <1>1, <1>5, <1>6 DEF RequestOK, OnToken, OnAccount, Pcs
<1>9. CASE kv' = Del(kv, t) /\ ended' = ended \cup {t} /\ Set(p, l)
  <2>1. /\ pc' \in [Procs -> Pcs] /\ loc' \in [Procs -> Locals] /\ loc'[p] = l
        /\ \A q \in Procs : RequestOK(pc'[q], loc'[q], used')
    BY <1>1, <1>4, <1>5, <1>8, <1>9, Moved
  <2>2. StoreInv'  BY <1>3, <1>4, <1>9, <2>1, DeleteKeeps
  <2>3. ~Live(t)' /\ \A u \in Tokens : Live(u)' => Live(u)  BY <1>3, <1>4, <1>9, DelFacts
  <2> QED  BY <1>3, <1>5, <1>9, <2>1, <2>2, <2>3
<1>10. CASE Set(p, f) /\ UNCHANGED <<kv, ended>>
  <2>1. /\ loc'[p] = f
    BY <1>10 DEF Set, StoreInv, TypeOK
  <2>2. StoreInv'
    BY <1>1, <1>4, <1>6, <1>8, <1>10, MovedKeeps DEF StoreInv, TypeOK
  <2>3. \A u \in Tokens : Live(u)' => Live(u)  BY <1>4, <1>10 DEF Live
  <2> QED  BY <1>3, <1>6, <1>10, <2>1, <2>2, <2>3
<1> QED  BY <1>7, <1>9, <1>10

LEMMA RevokeAllStepsKeep ==
    ASSUME StoreInv, NEW p \in Procs, RevokeAllStamp(p) \/ RevokeAllCheck(p) \/ RevokeAllFails(p)
    PROVE  StoreInv'
<1>1. loc[p] \in Locals /\ RequestOK(pc[p], loc[p], used) /\ pc[p] \in OnAccount
  BY DEF RevokeAllStamp, RevokeAllCheck, RevokeAllFails, StoreInv, TypeOK, UsedInv, OnAccount
<1>2. loc[p].acct \in Accounts  BY <1>1 DEF RequestOK
<1>3. ASSUME RevokeAllStamp(p) PROVE StoreInv'
  <2>1. stamped' \subseteq Nat  BY <1>3 DEF RevokeAllStamp, StoreInv, TypeOK, Rows
  <2>2. RequestOK("raCheck", loc[p], used) /\ "raCheck" \in Pcs
    BY <1>1 DEF RequestOK, OnToken, OnAccount, Pcs
  <2> QED  BY <1>1, <1>3, <2>1, <2>2, MovedKeeps DEF RevokeAllStamp, StoreInv, TypeOK, history
<1>4. ASSUME NEW b \in BOOLEAN, Set(p, [loc[p] EXCEPT !.ok = b]), Goto(p, "raRelease"),
             lease' \in [Accounts -> Cells(Procs)],
             UNCHANGED <<clock, kv, rows, stamped, nextSid, used, cookies, disabled, history>>
      PROVE  StoreInv'
  <2> DEFINE l == [loc[p] EXCEPT !.ok = b]
  <2>1. /\ l \in Locals /\ l.acct = loc[p].acct /\ l.todo = loc[p].todo /\ l.mark = loc[p].mark
        /\ l.fill = loc[p].fill /\ Set(p, l)
    BY <1>1, <1>4 DEF Locals
  <2> HIDE DEF l
  <2>2. RequestOK("raRelease", l, used) /\ "raRelease" \in Pcs
    BY <1>1, <2>1 DEF RequestOK, OnToken, OnAccount, Pcs
  <2> QED  BY <1>4, <2>1, <2>2, MovedKeeps DEF StoreInv, TypeOK, history
<1>5. ASSUME RevokeAllCheck(p) PROVE StoreInv'
  <2> DEFINE b == loc[p].ok /\ Holds(lease, loc[p].acct, p, clock)
  <2>1. b \in BOOLEAN /\ Set(p, [loc[p] EXCEPT !.ok = b])  BY <1>5 DEF RevokeAllCheck
  <2>2. lease' \in [Accounts -> Cells(Procs)]  BY <1>2, <1>5, LeaseTyped DEF RevokeAllCheck
  <2> HIDE DEF b
  <2> QED  BY <1>4, <1>5, <2>1, <2>2 DEF RevokeAllCheck
<1>6. ASSUME RevokeAllFails(p) PROVE StoreInv'
  BY <1>4, <1>6 DEF RevokeAllFails, store, StoreInv, TypeOK
<1> QED  BY <1>3, <1>5, <1>6

\* The steps that end a request and leave the sessions alone.
LEMMA EndKeeps ==
    ASSUME StoreInv, NEW p \in Procs, Serve(p) \/ RevokeStamp(p) \/ RevokeAllRelease(p) \/ Abort(p)
    PROVE  StoreInv'
<1>1. Finish(p) /\ UNCHANGED <<kv, clock, rows, nextSid, used, cookies, disabled, ended, raced>>
  BY DEF Serve, RevokeStamp, RevokeAllRelease, Abort, store, history
<1>2. loc[p] \in Locals /\ RequestOK(pc[p], loc[p], used)  BY DEF StoreInv, TypeOK, UsedInv
<1>3. stamped' \subseteq Nat
  BY <1>2 DEF Serve, RevokeStamp, RevokeAllRelease, Abort, store, StoreInv, TypeOK, Locals
<1>4. lease' \in [Accounts -> Cells(Procs)]
  <2>1. RevokeAllRelease(p) => loc[p].acct \in Accounts
    BY <1>2 DEF RevokeAllRelease, RequestOK, OnAccount
  <2> QED
    BY <2>1, LeaseTyped DEF Serve, RevokeStamp, RevokeAllRelease, Abort, store, StoreInv, TypeOK
<1> QED  BY <1>1, <1>3, <1>4, Finished, StoreKept DEF StoreInv, TypeOK, UsedInv

-----------------------------------------------------------------------------
(* The properties                                                            *)

\* One request that has swept some of the sessions it marked.
Swept(p) ==
    pc[p] \in {"raDel", "raCheck", "raRelease"} /\ loc[p].ok =>
        \A t \in loc[p].mark :
            t \notin loc[p].todo \/ pc[p] # "raDel" => (Live(t) => t \in raced)

\* No step makes a generated token live that was not, except an unfenced write.
NoRevival == \A t \in used : Live(t)' => Live(t) \/ t \in raced'

\* What one step may do to the sessions and the histories.
EndInv == OnlyUnfencedWritesRevive /\ SweptInv

\* Both properties follow from the absence of revivals: p must only account for
\* what it ends and for what it has swept itself.
LEMMA EndStep ==
    ASSUME StoreInv, StoreInv', EndInv, NEW p \in Procs,
           NoRevival, raced \subseteq raced',
           \A t \in ended' : t \in ended \/ ~Live(t)',
           \A q \in Procs \ {p} : pc'[q] = pc[q] /\ loc'[q] = loc[q],
           Swept(p)'
    PROVE  EndInv'
<1>1. OnlyUnfencedWritesRevive'
  <2> SUFFICES ASSUME NEW t \in ended', Live(t)' PROVE t \in raced'
    BY DEF OnlyUnfencedWritesRevive
  <2>1. t \in ended /\ t \in used  BY DEF StoreInv, UsedInv
  <2>2. Live(t) \/ t \in raced'  BY <2>1 DEF NoRevival
  <2> QED  BY <2>1, <2>2 DEF EndInv, OnlyUnfencedWritesRevive
<1>2. ASSUME NEW q \in Procs \ {p} PROVE Swept(q)'
  <2>1. RequestOK(pc[q], loc[q], used)  BY DEF StoreInv, UsedInv
  <2>2. \A t \in loc[q].mark : Live(t)' => Live(t) \/ t \in raced'
    BY <2>1 DEF RequestOK, NoRevival
  <2>3. Swept(q)  BY DEF EndInv, SweptInv, Swept
  <2> QED  BY <2>2, <2>3 DEF Swept
<1> QED  BY <1>1, <1>2 DEF EndInv, SweptInv, Swept

\* A step that leaves the sessions alone keeps what p has swept.
LEMMA QuietStep ==
    ASSUME StoreInv, StoreInv', EndInv, NEW p \in Procs, UNCHANGED <<kv, clock, ended, raced>>,
           \A q \in Procs \ {p} : pc'[q] = pc[q] /\ loc'[q] = loc[q],
           pc'[p] \in {"raDel", "raCheck", "raRelease"} /\ loc'[p].ok => Swept(p)'
    PROVE  EndInv'
<1>1. \A t \in Tokens : Live(t)' = Live(t)  BY DEF Live
<1>2. NoRevival  BY DEF NoRevival, Live
<1>3. Swept(p)'  BY DEF Swept
<1> QED  BY <1>2, <1>3, EndStep

LEMMA EndKept == StoreInv /\ StoreInv' /\ EndInv /\ [Next]_vars => EndInv'
<1> SUFFICES ASSUME StoreInv, StoreInv', EndInv, [Next]_vars PROVE EndInv'  OBVIOUS
<1> USE DEF store, history
<1>0. StoreInv => pc \in [Procs -> Pcs] /\ loc \in [Procs -> Locals]  BY DEF StoreInv, TypeOK
<1>1. ASSUME NEW p \in Procs, NEW t \in Tokens, NEW r \in Remember, Issue(p, t, r) PROVE EndInv'
  <2>1. NoRevival  BY <1>1, IssueKeeps DEF NoRevival, StoreInv, TypeOK
  <2>2. pc'[p] = "insert" /\ \A q \in Procs \ {p} : pc'[q] = pc[q] /\ loc'[q] = loc[q]
    BY <1>0, <1>1 DEF Issue, Goto, Set
  <2> QED  BY <1>1, <2>1, <2>2, EndStep DEF Issue, Swept
<1>2. ASSUME NEW p \in Procs, NEW t \in used, kv' = Del(kv, t), ended' = ended \cup {t},
             UNCHANGED <<clock, raced>>, pc'[p] \notin {"raDel", "raCheck", "raRelease"},
             \A q \in Procs \ {p} : pc'[q] = pc[q] /\ loc'[q] = loc[q]
      PROVE  EndInv'
  <2>1. t \in Tokens /\ used \subseteq Tokens  BY DEF StoreInv, TypeOK
  <2>2. ~Live(t)' /\ \A u \in Tokens : Live(u)' => Live(u)  BY <1>2, <2>1, DelFacts
  <2>3. NoRevival  BY <2>1, <2>2 DEF NoRevival
  <2> QED  BY <1>2, <2>2, <2>3, EndStep DEF Swept
<1>3. ASSUME NEW p \in Procs, InsertSessionFails(p) PROVE EndInv'
  BY <1>2, <1>3, InsertFailsKeeps, Finished DEF InsertSessionFails
<1>4. ASSUME NEW p \in Procs, RevokeDel(p) PROVE EndInv'
  <2>1. pc'[p] \in {"idle", "rvStamp"} /\ \A q \in Procs \ {p} : pc'[q] = pc[q] /\ loc'[q] = loc[q]
    BY <1>0, <1>4 DEF RevokeDel, Finish, Goto, Set
  <2> QED  BY <1>2, <1>4, <2>1, RevokeDelKeeps DEF RevokeDel
<1>5. ASSUME NEW p \in Procs, NEW t \in Tokens, LoadExpired(p, t) PROVE EndInv'
  BY <1>2, <1>5, LoadExpiredKeeps DEF LoadExpired, Start
<1>6. ASSUME NEW p \in Procs, LoadCas(p) PROVE EndInv'
  <2>1. NoRevival  BY <1>6, LoadCasKeeps DEF NoRevival, StoreInv, TypeOK
  <2>2. pc'[p] = "release" /\ \A q \in Procs \ {p} : pc'[q] = pc[q] /\ loc'[q] = loc[q]
    BY <1>0, <1>6 DEF LoadCas, Goto
  <2> QED  BY <1>6, <2>1, <2>2, EndStep DEF LoadCas, Swept
<1>7. ASSUME NEW p \in Procs, Save(p) PROVE EndInv'
  <2>1. NoRevival  BY <1>7, SaveKeeps DEF NoRevival, StoreInv, TypeOK
  <2>2. pc'[p] = "idle" /\ \A q \in Procs \ {p} : pc'[q] = pc[q] /\ loc'[q] = loc[q]
    BY <1>7, Finished DEF Save
  <2>3. raced \subseteq raced' /\ ended' = ended  BY <1>7 DEF Save
  <2> QED  BY <2>1, <2>2, <2>3, EndStep DEF Swept
<1>8. ASSUME NEW p \in Procs, ListFill(p) PROVE EndInv'
  <2>1. NoRevival  BY <1>8, ListFillKeeps DEF NoRevival, StoreInv, TypeOK
  <2>2. /\ pc'[p] \in {"list", "rvDel", "idle"}
        /\ \A q \in Procs \ {p} : pc'[q] = pc[q] /\ loc'[q] = loc[q]
    BY <1>0, <1>8 DEF ListFill, Finish, Goto, Set
  <2>3. raced \subseteq raced' /\ ended' = ended  BY <1>8 DEF ListFill
  <2> QED  BY <2>1, <2>2, <2>3, EndStep DEF Swept
<1>9. ASSUME NEW p \in Procs, RevokeAllDel(p) PROVE EndInv'
  <2>1. PICK t \in loc[p].todo :
          /\ t \in used
          /\ loc'[p].mark = loc[p].mark /\ loc'[p].todo = loc[p].todo \ {t}
          /\ \/ ~Live(t)' /\ ended' = ended \cup {t} /\ loc'[p].ok = loc[p].ok
             \/ ended' = ended /\ ~loc'[p].ok
    BY <1>9, RevokeAllDelKeeps
  <2>2. NoRevival  BY <1>9, RevokeAllDelKeeps DEF NoRevival, StoreInv, TypeOK
  <2>3. pc' = pc /\ pc[p] = "raDel" /\ raced' = raced
        /\ \A q \in Procs \ {p} : loc'[q] = loc[q]
    BY <1>0, <1>9 DEF RevokeAllDel, Set
  <2>4. RequestOK(pc[p], loc[p], used) /\ Swept(p)
    BY DEF StoreInv, UsedInv, EndInv, SweptInv, Swept
  <2>5. Swept(p)'
    <3> SUFFICES ASSUME loc'[p].ok, NEW u \in loc[p].mark, u \notin loc[p].todo \/ u = t, Live(u)'
                 PROVE  u \in raced'
      BY <2>1, <2>3 DEF Swept
    <3>1. u # t /\ loc[p].ok /\ u \in used  BY <2>1, <2>4 DEF RequestOK
    <3>2. Live(u) \/ u \in raced'  BY <2>2, <3>1 DEF NoRevival
    <3> QED  BY <2>3, <2>4, <3>1, <3>2 DEF Swept
  <2> QED  BY <2>1, <2>2, <2>3, <2>5, EndStep
<1>10. ASSUME NEW p \in Procs, RevokeAllScan(p) PROVE EndInv'
  <2>1. /\ pc'[p] = "raDel" /\ loc'[p].mark = loc[p].mark
        /\ loc'[p].todo = ScanKeys(kv, TokensOf(loc[p].acct), clock)
        /\ \A q \in Procs \ {p} : pc'[q] = pc[q] /\ loc'[q] = loc[q]
    BY <1>0, <1>10 DEF RevokeAllScan, Goto, Set, Locals
  <2>2. RequestOK(pc[p], loc[p], used)  BY DEF StoreInv, UsedInv
  <2>3. \A t \in loc[p].mark : t \notin loc'[p].todo => ~Live(t)
    BY <2>1, <2>2 DEF RequestOK, ScanKeys, Live
  <2>4. Swept(p)'  BY <1>10, <2>1, <2>3 DEF RevokeAllScan, Swept, Live
  <2> QED  BY <1>10, <2>1, <2>4, QuietStep DEF RevokeAllScan
<1>11. ASSUME NEW p \in Procs, RevokeAllStamp(p) PROVE EndInv'
  <2>1. /\ pc'[p] = "raCheck" /\ loc' = loc /\ pc[p] = "raDel" /\ loc[p].todo = {}
        /\ \A q \in Procs \ {p} : pc'[q] = pc[q]
    BY <1>0, <1>11 DEF RevokeAllStamp, Goto
  <2>2. Swept(p)  BY DEF EndInv, SweptInv, Swept
  <2>3. Swept(p)'  BY <1>11, <2>1, <2>2 DEF RevokeAllStamp, Swept, Live
  <2> QED  BY <1>11, <2>1, <2>3, QuietStep DEF RevokeAllStamp
<1>12. ASSUME NEW p \in Procs, RevokeAllCheck(p) PROVE EndInv'
  <2>1. /\ pc'[p] = "raRelease" /\ pc[p] = "raCheck" /\ loc'[p].mark = loc[p].mark
        /\ loc'[p].ok => loc[p].ok
        /\ \A q \in Procs \ {p} : pc'[q] = pc[q] /\ loc'[q] = loc[q]
    BY <1>0, <1>12 DEF RevokeAllCheck, Goto, Set, Locals
  <2>2. Swept(p)  BY DEF EndInv, SweptInv, Swept
  <2>3. Swept(p)'  BY <1>12, <2>1, <2>2 DEF RevokeAllCheck, Swept, Live
  <2> QED  BY <1>12, <2>1, <2>3, QuietStep DEF RevokeAllCheck
<1>13. ASSUME NEW p \in Procs, RevokeAllFails(p) PROVE EndInv'
  <2>1. ~loc'[p].ok /\ \A q \in Procs \ {p} : pc'[q] = pc[q] /\ loc'[q] = loc[q]
    BY <1>0, <1>13 DEF RevokeAllFails, Goto, Set, Locals
  <2> QED  BY <1>13, <2>1, QuietStep DEF RevokeAllFails
<1>14. ASSUME NEW p \in Procs, NEW a \in Accounts, RevokeAll(p, a) \/ SetDisabled(p, a) PROVE EndInv'
  <2>1. pc'[p] = "raLease" /\ \A q \in Procs \ {p} : pc'[q] = pc[q] /\ loc'[q] = loc[q]
    BY <1>0, <1>14 DEF RevokeAll, SetDisabled, Goto, Set
  <2> QED  BY <1>14, <2>1, QuietStep DEF RevokeAll, SetDisabled
<1>15. ASSUME NEW p \in Procs, RevokeAllLease(p) PROVE EndInv'
  <2>1. pc'[p] \in {"raScan", "idle"} /\ \A q \in Procs \ {p} : pc'[q] = pc[q] /\ loc'[q] = loc[q]
    BY <1>0, <1>15 DEF RevokeAllLease, Finish, Goto, Set
  <2> QED  BY <1>15, <2>1, QuietStep DEF RevokeAllLease
<1>16. ASSUME NEW p \in Procs, NEW t \in Tokens, NEW kind \in {"mw", "sudo"}, LoadGet(p, t, kind)
       PROVE  EndInv'
  <2>1. /\ pc'[p] \in {"lease", "loaded"}
        /\ \A q \in Procs \ {p} : pc'[q] = pc[q] /\ loc'[q] = loc[q]
    BY <1>0, <1>16 DEF LoadGet, Goto, Set
  <2> QED  BY <1>16, <2>1, QuietStep DEF LoadGet
<1>17. ASSUME NEW p \in Procs, LoadLease(p) \/ LoadCasFails(p) \/ LoadRelease(p) \/ KillSession(p)
       PROVE  EndInv'
  <2>1. /\ pc'[p] \in {"cas", "loaded", "release", "rvGet"}
        /\ \A q \in Procs \ {p} : pc'[q] = pc[q] /\ loc'[q] = loc[q]
    BY <1>0, <1>17 DEF LoadLease, LoadCasFails, LoadRelease, KillSession, Goto
  <2> QED  BY <1>17, <2>1, QuietStep DEF LoadLease, LoadCasFails, LoadRelease, KillSession
<1>18. ASSUME NEW p \in Procs,
              InsertSession(p) \/ Serve(p) \/ RevokeStamp(p) \/ RevokeAllRelease(p) \/ Abort(p)
       PROVE  EndInv'
  <2>1. Finish(p) /\ used' = used /\ UNCHANGED <<kv, clock, ended, raced>>
    BY <1>18 DEF InsertSession, Serve, RevokeStamp, RevokeAllRelease, Abort
  <2>2. pc'[p] = "idle" /\ \A q \in Procs \ {p} : pc'[q] = pc[q] /\ loc'[q] = loc[q]
    BY <2>1, Finished
  <2> QED  BY <2>1, <2>2, QuietStep
<1>19. ASSUME NEW p \in Procs, (\E t \in Tokens : Logout(p, t)) \/ RevokeGet(p) PROVE EndInv'
  <2>1. /\ pc'[p] \in {"rvGet", "rvDel"}
        /\ \A q \in Procs \ {p} : pc'[q] = pc[q] /\ loc'[q] = loc[q]
    BY <1>0, <1>19 DEF Logout, RevokeGet, Goto, Set
  <2> QED  BY <1>19, <2>1, QuietStep DEF Logout, RevokeGet
<1>20. ASSUME NEW p \in Procs, NEW a \in Accounts, NEW t \in Tokens \cup {None}, List(p, a, t)
       PROVE  EndInv'
  <2>1. /\ pc'[p] \in {"list", "rvDel"}
        /\ \A q \in Procs \ {p} : pc'[q] = pc[q] /\ loc'[q] = loc[q]
    BY <1>0, <1>20 DEF List, Goto, Set
  <2> QED  BY <1>20, <2>1, QuietStep DEF List
<1>21. ASSUME NEW a \in Accounts, SetEnabled(a) PROVE EndInv'
  BY <1>21 DEF SetEnabled, EndInv, OnlyUnfencedWritesRevive, SweptInv, Live
<1>22. CASE Tick
  <2>1. \A t \in Tokens : Live(t)' => Live(t)  BY <1>22, TickLive
  <2>2. ended \subseteq Tokens /\ \A p \in Procs : loc[p].mark \subseteq Tokens
    BY DEF StoreInv, TypeOK, Locals
  <2> QED  BY <1>22, <2>1, <2>2 DEF Tick, EndInv, OnlyUnfencedWritesRevive, SweptInv
<1>23. CASE UNCHANGED vars
  BY <1>23 DEF vars, EndInv, OnlyUnfencedWritesRevive, SweptInv, Live
<1> QED
  BY <1>1, <1>3, <1>4, <1>5, <1>6, <1>7, <1>8, <1>9, <1>10, <1>11, <1>12, <1>13, <1>14, <1>15,
     <1>16, <1>17, <1>18, <1>19, <1>20, <1>21, <1>22, <1>23
  DEF Next, IssueNext, LoadNext, RevokeNext, RevokeAllNext

LEMMA StoreStep == StoreInv /\ [Next]_vars => StoreInv'
<1> SUFFICES ASSUME StoreInv, [Next]_vars PROVE StoreInv'  OBVIOUS
<1>1. CASE \E a \in Accounts : SetEnabled(a)
  BY <1>1 DEF SetEnabled, store, history, StoreInv, TypeOK, UsedInv, Live
<1>2. CASE Tick
  <2>1. \A t \in Tokens : Live(t)' => Live(t)  BY <1>2, TickLive
  <2> QED  BY <1>2, <2>1 DEF Tick, store, history, StoreInv, TypeOK, UsedInv
<1>3. CASE UNCHANGED vars
  BY <1>3 DEF vars, StoreInv, TypeOK, UsedInv, Live
<1> QED
  BY <1>1, <1>2, <1>3, IssueKeeps, InsertKeeps, InsertFailsKeeps, LoadExpiredKeeps, LoadGetKeeps,
     LoadStepsKeep, LoadCasKeeps, SaveKeeps, RevokeStepsKeep, RevokeDelKeeps, ListKeeps,
     ListFillKeeps, RevokeAllStartKeeps, RevokeAllLeaseKeeps, RevokeAllScanKeeps,
     RevokeAllDelKeeps, RevokeAllStepsKeep, EndKeeps
  DEF Next, IssueNext, LoadNext, RevokeNext, RevokeAllNext

\* The store, the leases, the rows and the requests keep their types, and whatever
\* is live, returned or held by a request was generated.
THEOREM SessionTypes == Spec => []StoreInv
<1>1. Init => StoreInv
  <2> SUFFICES ASSUME Init PROVE StoreInv  OBVIOUS
  <2> DEFINE d == [sid |-> 0, exp |-> SessionTTL, sudo |-> 0, rem |-> FALSE]
  <2>1. Old \subseteq Tokens  BY SetAssumption DEF Old
  <2>2. NoEntry \in Cells(Data) /\ NoEntry \in Cells(Procs) /\ NoEntry.exp = 0  BY DEF Cells, NoEntry
  <2>3. Entry(d, SessionTTL) \in Cells(Data)
    <3>1. d \in Data /\ SessionTTL \in Nat  BY TtlAssumption DEF Data
    <3> HIDE DEF d
    <3> QED  BY <3>1 DEF Cells, Entry
  <2>4. kv \in [Tokens -> Cells(Data)] /\ lease \in [Accounts -> Cells(Procs)]
    BY <2>2, <2>3 DEF Init
  <2>5. pc \in [Procs -> Pcs] /\ loc \in [Procs -> Locals]  BY BlankTyped DEF Init, Pcs
  <2>6. TypeOK  BY <2>1, <2>4, <2>5 DEF Init, TypeOK
  <2>7. \A t \in Tokens : Live(t) => t \in used
    <3>1. \A t \in Tokens : t \notin Old => kv[t].exp = 0  BY <2>2 DEF Init
    <3> QED  BY <3>1 DEF Init, Live, Found
  <2>8. UsedInv  BY <2>7, BlankTyped DEF Init, UsedInv
  <2> QED  BY <2>6, <2>8 DEF StoreInv
<1> QED  BY <1>1, StoreStep, PTL DEF Spec

LEMMA EndHolds == Spec => []EndInv
<1>1. Init => EndInv
  BY DEF Init, EndInv, OnlyUnfencedWritesRevive, SweptInv
<1> QED  BY <1>1, SessionTypes, EndKept, PTL DEF Spec

\* A session that was deleted is live again only if an unfenced SetEx - the sudo
\* Save, the listing's backfill - wrote it: the fenced compare-and-swap of Load
\* never brings one back, whatever it read before the session ended.
THEOREM SessionOnlyUnfencedWritesRevive == Spec => []OnlyUnfencedWritesRevive
<1>1. EndInv => OnlyUnfencedWritesRevive  BY DEF EndInv
<1> QED  BY <1>1, EndHolds, PTL

\* When RevokeAllForAccount is about to report success, every session that was
\* live when it won the lease is gone or was written back without the fence.
THEOREM SessionRevokeAllComplete == Spec => []RevokeAllComplete
<1>1. EndInv => RevokeAllComplete  BY DEF EndInv, SweptInv, RevokeAllComplete
<1> QED  BY <1>1, EndHolds, PTL
=============================================================================
