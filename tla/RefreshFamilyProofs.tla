------------------------ MODULE RefreshFamilyProofs ------------------------
(***************************************************************************)
(* RefreshFamily: one successor per token, tokens minted in good standing, *)
(* no lock-out, and the abstract chain implemented, for any number of      *)
(* requests and clients, every lifetime and every bound.                   *)
(***************************************************************************)
EXTENDS RefreshFamily, KvProofs

Pcs == {"idle", "issue", "classify", "cas", "reload", "client", "check", "mint", "del"}
Families == [rev : Nat, cur : Nat, prev : Nat, succ : Nat, pvu : Nat, abs : Nat, ina : Nat]
Locals == [tok : Nat, client : Clients, fam : Families, new : Families, out : Nat,
           i : 1 .. Checks, low : SUBSET Conditions]
Links == [from : Nat, to : Nat]

TypeOK ==
    /\ clock \in Nat /\ next \in Nat /\ born \in BOOLEAN /\ last \in Nat
    /\ kv \in [{"family"} -> Cells(Families)]
    /\ held \subseteq Nat /\ lost \subseteq Conditions
    /\ pc \in [Procs -> Pcs] /\ loc \in [Procs -> Locals]
    /\ link \subseteq Links /\ given \subseteq Links

\* A record that was never rotated has no window; any other names the rotation
\* it came from.
FromLink(f) == f.pvu = 0 \/ [from |-> f.prev, to |-> f.succ] \in link

\* The live record carries the token that is current.
RecordFacts ==
    Alive => /\ born /\ Record.cur = last /\ Record.cur < next
             /\ FromLink(Record)

\* The chain grows upwards: every token that was exchanged is below the current
\* one, so the current one is exchanged only once.
HistoryFacts ==
    /\ next = 1 => ~born
    /\ ~born => link = {}
    /\ \A l \in link : l.from < last
    /\ \A l, m \in link : l.from = m.from => l.to = m.to
    /\ given \subseteq link

\* What a request knows between two calls of the store.
RequestFacts ==
    \A p \in Procs :
        /\ pc[p] = "issue" =>
            /\ ~born /\ 1 < next
            /\ loc[p].fam.cur = 1 /\ loc[p].fam.pvu = 0
            /\ \A q \in Procs \ {p} : pc[q] # "issue"
        /\ pc[p] \in {"classify", "cas"} => FromLink(loc[p].fam) /\ loc[p].fam.cur < next
        /\ pc[p] = "cas" =>
            /\ loc[p].tok = loc[p].fam.cur
            /\ loc[p].fam.cur < loc[p].new.cur /\ loc[p].new.cur < next
            /\ loc[p].new.cur <= MaxToken
            /\ loc[p].new.prev = loc[p].fam.cur /\ loc[p].new.succ = loc[p].new.cur
        /\ pc[p] \in {"client", "check", "mint"} =>
            [from |-> loc[p].tok, to |-> loc[p].out] \in link

ChainInv == RecordFacts /\ HistoryFacts /\ RequestFacts

\* The re-check loop: what a request found lost is still lost, and none of it is
\* among the conditions it has passed.
StandingInv ==
    \A p \in Procs :
        /\ loc[p].low \subseteq lost
        /\ \A j \in 1 .. (loc[p].i - 1) : CheckAt(j) \notin loc[p].low
        /\ pc[p] = "mint" => loc[p].low = {}

\* The first token is handed out by the request that writes the family.
UsableInv ==
    /\ NeverLockedOut
    /\ \A p \in Procs : pc[p] = "issue" => loc[p].tok = 1

-----------------------------------------------------------------------------
(* Types                                                                     *)

LEMMA BlankTyped == NoFamily \in Families /\ Blank \in Locals
<1>1. NoFamily \in Families  BY DEF NoFamily, Families
<1> QED  BY <1>1, FamilyAssumption DEF Blank, Locals, Checks

\* A rotation replaces the record of a family by the record of a family.
LEMMA RotatedTyped ==
    ASSUME NEW f \in Families, NEW t \in Nat, clock \in Nat
    PROVE  /\ Rotated(f, t) \in Families
           /\ Rotated(f, t).cur = t /\ Rotated(f, t).prev = f.cur /\ Rotated(f, t).succ = t
<1> DEFINE i == Min2(clock + InactivityTTL, f.abs)
           r == clock + Window
           n == f.rev + 1
<1>1. f.abs \in Nat /\ f.rev \in Nat /\ f.cur \in Nat  BY DEF Families
<1>2. i \in Nat /\ r \in Nat /\ n \in Nat
  <2>1. r \in Nat /\ n \in Nat  BY <1>1, FamilyAssumption
  <2>2. clock + InactivityTTL \in Nat  BY FamilyAssumption
  <2> QED  BY <1>1, <2>1, <2>2 DEF Min2
<1>3. Rotated(f, t) = [f EXCEPT !.rev = n, !.cur = t, !.prev = f.cur, !.succ = t,
                                !.pvu = r, !.ina = i]
  BY DEF Rotated
<1> HIDE DEF i, r, n
<1> QED  BY <1>1, <1>2, <1>3 DEF Families

\* The record is rewritten with a positive lifetime: a rotation never ends the family.
LEMMA KvTtlPositive ==
    ASSUME NEW f \in Families, clock \in Nat
    PROVE  KvTtl(f) \in Nat \ {0}
<1>1. f.abs \in Nat  BY DEF Families
<1> QED  BY <1>1, FamilyAssumption DEF KvTtl

\* The family is live exactly when its cell holds a record that has not expired.
LEMMA AliveTyped ==
    ASSUME TypeOK, Alive
    PROVE  Record \in Families
BY FoundTyped DEF TypeOK, Alive, Record

\* A request that goes to another label of its own is still a typed request.
LEMMA StepTyped ==
    ASSUME TypeOK, NEW p \in Procs, NEW l \in Locals, NEW label \in Pcs,
           Goto(p, label), Set(p, l) \/ (loc' = loc /\ l = loc[p])
    PROVE  /\ pc' \in [Procs -> Pcs] /\ loc' \in [Procs -> Locals]
           /\ pc'[p] = label /\ loc'[p] = l
           /\ \A q \in Procs \ {p} : pc'[q] = pc[q] /\ loc'[q] = loc[q]
BY DEF TypeOK, Goto, Set

LEMMA FinishTyped ==
    ASSUME TypeOK, NEW p \in Procs, Finish(p)
    PROVE  /\ pc' \in [Procs -> Pcs] /\ loc' \in [Procs -> Locals]
           /\ pc'[p] = "idle" /\ loc'[p] = Blank
           /\ \A q \in Procs \ {p} : pc'[q] = pc[q] /\ loc'[q] = loc[q]
BY BlankTyped DEF TypeOK, Finish, Goto, Set, Pcs

\* What the two writes of the family's key leave behind.
LEMMA PutFacts ==
    ASSUME TypeOK, NEW f \in Families, NEW ttl \in Nat \ {0},
           kv' = SetEx(kv, "family", f, ttl, clock), clock' = clock
    PROVE  kv' \in [{"family"} -> Cells(Families)] /\ Alive' /\ Record' = f
<1>1. /\ SetEx(kv, "family", f, ttl, clock) \in [{"family"} -> Cells(Families)]
      /\ SetEx(kv, "family", f, ttl, clock)["family"] = [val |-> f, exp |-> clock + ttl]
  BY SetExTyped DEF TypeOK
<1>2. kv'["family"].exp = clock + ttl /\ kv'["family"].val = f  BY <1>1
<1> QED  BY <1>1, <1>2 DEF TypeOK, Alive, Record, Found

LEMMA DelFacts ==
    ASSUME TypeOK, kv' = Del(kv, "family"), clock' = clock
    PROVE  kv' \in [{"family"} -> Cells(Families)] /\ ~Alive'
<1>1. Del(kv, "family") \in [{"family"} -> Cells(Families)] /\ Del(kv, "family")["family"].exp = 0
  BY DelTyped DEF TypeOK
<1> QED  BY <1>1 DEF TypeOK, Alive, Found

\* Time only takes the family away.
LEMMA TickAlive ==
    ASSUME TypeOK, Tick, Alive'
    PROVE  Alive
<1>1. clock \in Nat /\ clock' = clock + 1 /\ kv' = kv  BY DEF TypeOK, Tick
<1>2. kv["family"].exp \in Nat  BY DEF TypeOK, Cells, NoEntry
<1> QED  BY <1>1, <1>2 DEF Alive, Found

LEMMA CasTyped ==
    ASSUME TypeOK, NEW p \in Procs, Cas(p)
    PROVE  TypeOK'
<1> DEFINE f == loc[p].fam
           n == loc[p].new
<1>1. f \in Families /\ n \in Families /\ loc[p].tok \in Nat /\ n.cur \in Nat /\ loc[p] \in Locals
  BY DEF TypeOK, Locals, Families
<1>2. KvTtl(f) \in Nat  BY <1>1, KvTtlPositive DEF TypeOK
<1>3. kv' \in [{"family"} -> Cells(Families)]
  BY <1>1, <1>2, CompareAndSwapTyped DEF Cas, TypeOK
<1>4. CASE Holds(kv, "family", f, clock)
  <2>1. [loc[p] EXCEPT !.out = n.cur] \in Locals  BY <1>1 DEF Locals
  <2>2. pc' \in [Procs -> Pcs] /\ loc' \in [Procs -> Locals]
    BY <1>4, <2>1, StepTyped DEF Cas, Pcs
  <2>3. [from |-> loc[p].tok, to |-> n.cur] \in Links  BY <1>1 DEF Links
  <2> QED  BY <1>1, <1>3, <1>4, <2>2, <2>3 DEF Cas, TypeOK
<1>5. CASE ~Holds(kv, "family", f, clock)
  <2>1. pc' \in [Procs -> Pcs]  BY <1>5 DEF Cas, TypeOK, Goto, Pcs
  <2> QED  BY <1>3, <1>5, <2>1 DEF Cas, TypeOK
<1> QED  BY <1>4, <1>5

LEMMA ClassifyTyped ==
    ASSUME TypeOK, NEW p \in Procs, Classify(p)
    PROVE  TypeOK'
<1> DEFINE f == loc[p].fam
<1>1. f \in Families /\ loc[p] \in Locals /\ f.succ \in Nat  BY DEF TypeOK, Locals, Families
<1>2. Rotated(f, next) \in Families  BY <1>1, RotatedTyped DEF TypeOK
<1>3. /\ [loc[p] EXCEPT !.out = f.succ] \in Locals
      /\ [loc[p] EXCEPT !.new = Rotated(f, next)] \in Locals
  BY <1>1, <1>2 DEF Locals
<1>4. next' \in Nat /\ UNCHANGED <<clock, ops, kv, held, lost, born, history>>
  BY DEF Classify, TypeOK
<1>5. pc' \in [Procs -> Pcs] /\ loc' \in [Procs -> Locals]
  BY <1>3 DEF Classify, TypeOK, Goto, Set, Pcs
<1> QED  BY <1>4, <1>5 DEF TypeOK, history

LEMMA TypesKept == TypeOK /\ [Next]_vars => TypeOK'
<1> SUFFICES ASSUME TypeOK, [Next]_vars PROVE TypeOK'  OBVIOUS
<1>1. ASSUME NEW p \in Procs, IssueRefresh(p) PROVE TypeOK'
  <2>1. [Blank EXCEPT !.tok = 1,
                      !.fam = [NoFamily EXCEPT !.cur = 1, !.abs = clock + AbsoluteTTL,
                                               !.ina = clock + InactivityTTL]] \in Locals
    <3> DEFINE a == clock + AbsoluteTTL
               i == clock + InactivityTTL
    <3>1. a \in Nat /\ i \in Nat  BY FamilyAssumption DEF TypeOK
    <3> HIDE DEF a, i
    <3>2. [NoFamily EXCEPT !.cur = 1, !.abs = a, !.ina = i] \in Families
      BY <3>1, BlankTyped DEF Families
    <3>3. [Blank EXCEPT !.tok = 1,
                        !.fam = [NoFamily EXCEPT !.cur = 1, !.abs = a, !.ina = i]] \in Locals
      BY <3>2, BlankTyped DEF Locals
    <3> QED  BY <3>3 DEF a, i
  <2>2. pc' \in [Procs -> Pcs] /\ loc' \in [Procs -> Locals]
    BY <1>1, <2>1 DEF IssueRefresh, TypeOK, Goto, Set, Pcs
  <2> QED  BY <1>1, <2>2 DEF IssueRefresh, TypeOK, history
<1>2. ASSUME NEW p \in Procs, PutFamily(p) PROVE TypeOK'
  <2>1. loc[p].fam \in Families /\ loc[p].tok \in Nat  BY DEF TypeOK, Locals
  <2>2. kv' \in [{"family"} -> Cells(Families)]
    BY <1>2, <2>1, PutFacts, FamilyAssumption DEF PutFamily
  <2> QED  BY <1>2, <2>1, <2>2, FinishTyped DEF PutFamily, TypeOK
<1>3. ASSUME NEW p \in Procs, NEW t \in held, NEW c \in Clients, Present(p, t, c) PROVE TypeOK'
  <2>1. [Blank EXCEPT !.tok = t, !.client = c, !.fam = Record, !.low = lost] \in Locals
    BY <1>3, BlankTyped, AliveTyped DEF Present, TypeOK, Locals
  <2>2. pc' \in [Procs -> Pcs] /\ loc' \in [Procs -> Locals]
    BY <1>3, <2>1 DEF Present, TypeOK, Goto, Set, Pcs
  <2> QED  BY <1>3, <2>2 DEF Present, TypeOK, history
<1>4. ASSUME NEW p \in Procs, Reload(p) PROVE TypeOK'
  <2>1. Alive => [loc[p] EXCEPT !.out = Record.succ] \in Locals
    BY AliveTyped DEF TypeOK, Locals, Families
  <2>2. pc' \in [Procs -> Pcs] /\ loc' \in [Procs -> Locals]
    BY <1>4, <2>1, BlankTyped DEF Reload, Finish, TypeOK, Goto, Set, Pcs
  <2> QED  BY <1>4, <2>2 DEF Reload, TypeOK, history
<1>5. ASSUME NEW p \in Procs, DelFamily(p) PROVE TypeOK'
  BY <1>5, DelFacts, FinishTyped DEF DelFamily, TypeOK, history
<1>6. ASSUME NEW p \in Procs, CheckClient(p) \/ AccountReadFails(p) \/ MintFails(p) PROVE TypeOK'
  BY <1>6 DEF CheckClient, AccountReadFails, MintFails, TypeOK, Goto, Pcs, history
<1>7. ASSUME NEW p \in Procs, CheckStanding(p) PROVE TypeOK'
  <2>1. loc[p].i # Checks => [loc[p] EXCEPT !.i = @ + 1] \in Locals
    BY DEF TypeOK, Locals, Checks
  <2>2. pc' \in [Procs -> Pcs] /\ loc' \in [Procs -> Locals]
    BY <1>7, <2>1 DEF CheckStanding, TypeOK, Goto, Set, Pcs
  <2> QED  BY <1>7, <2>2 DEF CheckStanding, TypeOK, history
<1>8. ASSUME NEW p \in Procs, Respond(p) PROVE TypeOK'
  <2>1. [from |-> loc[p].tok, to |-> loc[p].out] \in Links /\ loc[p].out \in Nat
    BY DEF TypeOK, Locals, Links
  <2> QED  BY <1>8, <2>1, FinishTyped DEF Respond, TypeOK
<1>9. ASSUME NEW p \in Procs, Abort(p) PROVE TypeOK'
  BY <1>9, FinishTyped DEF Abort, TypeOK, history
<1>10. CASE RevokeFamily
  BY <1>10, DelFacts DEF RevokeFamily, TypeOK, history
<1>11. ASSUME NEW c \in Conditions, Lose(c) PROVE TypeOK'
  BY <1>11 DEF Lose, TypeOK, history
<1>12. ASSUME NEW c \in Conditions, Restore(c) PROVE TypeOK'
  <2>1. \A p \in Procs : [loc[p] EXCEPT !.low = @ \ {c}] \in Locals
    BY DEF TypeOK, Locals
  <2>2. loc' \in [Procs -> Locals]  BY <1>12, <2>1 DEF Restore
  <2> QED  BY <1>12, <2>2 DEF Restore, TypeOK, history
<1>13. CASE Tick  BY <1>13 DEF Tick, TypeOK, history
<1>14. CASE UNCHANGED vars  BY <1>14 DEF vars, TypeOK, history
<1> QED
  BY <1>1, <1>2, <1>3, <1>4, <1>5, <1>6, <1>7, <1>8, <1>9, <1>10, <1>11, <1>12, <1>13, <1>14,
     CasTyped, ClassifyTyped, FamilyAssumption DEF Next, Rotate, Grant

\* The family's record, the requests and the histories keep their types.
THEOREM FamilyTypes == Spec => []TypeOK
<1>1. Init => TypeOK
  <2>1. NoEntry \in Cells(Families)  BY DEF Cells
  <2>2. ASSUME Init PROVE kv \in [{"family"} -> Cells(Families)]  BY <2>1, <2>2 DEF Init
  <2>3. ASSUME Init PROVE pc \in [Procs -> Pcs] /\ loc \in [Procs -> Locals]
    BY <2>3, BlankTyped DEF Init, Pcs
  <2>4. ASSUME Init PROVE /\ clock \in Nat /\ next \in Nat /\ last \in Nat /\ born \in BOOLEAN
                          /\ held \subseteq Nat /\ lost \subseteq Conditions
                          /\ link \subseteq Links /\ given \subseteq Links
    BY <2>4 DEF Init
  <2> QED  BY <2>2, <2>3, <2>4 DEF TypeOK
<1> QED  BY <1>1, TypesKept, PTL DEF Spec
-----------------------------------------------------------------------------
(* MintsInGoodStanding                                                       *)

\* A step of p keeps the re-check invariant when it leaves the standing alone and
\* p holds nothing lost, or what it held, and is not about to mint.
LEMMA StandingStep ==
    ASSUME TypeOK, StandingInv, NEW p \in Procs, lost' = lost,
           \A q \in Procs \ {p} : pc'[q] = pc[q] /\ loc'[q] = loc[q],
           pc'[p] # "mint",
           \/ loc'[p].i = 1 /\ loc'[p].low \subseteq lost
           \/ loc'[p].i = loc[p].i /\ loc'[p].low = loc[p].low
    PROVE  StandingInv'
BY DEF StandingInv

\* One re-check passes one condition: the last one leaves nothing lost.
LEMMA CheckStandingStep ==
    ASSUME TypeOK, StandingInv, NEW p \in Procs, CheckStanding(p)
    PROVE  StandingInv'
<1> DEFINE l == loc[p]
<1>1. l \in Locals /\ l.i \in 1 .. 4 /\ l.low \subseteq lost /\ lost \subseteq Conditions
  BY DEF TypeOK, StandingInv, Locals, Checks
<1>2. \A j \in 1 .. (l.i - 1) : CheckAt(j) \notin l.low  BY DEF StandingInv
<1>3. CASE CheckAt(l.i) \in lost
  BY <1>3, StandingStep DEF CheckStanding, Goto, TypeOK
<1>4. CASE CheckAt(l.i) \notin lost /\ l.i = Checks
  <2>1. \A j \in 1 .. 4 : CheckAt(j) \notin l.low
    BY <1>1, <1>2, <1>4 DEF Checks
  <2>2. "account" \notin l.low /\ "session" \notin l.low /\ "access" \notin l.low /\ "provider" \notin l.low
    <3>1. CheckAt(1) \notin l.low /\ CheckAt(2) \notin l.low /\ CheckAt(3) \notin l.low /\ CheckAt(4) \notin l.low
      BY <2>1
    <3> QED  BY <3>1 DEF CheckAt
  <2>3. l.low = {}  BY <1>1, <2>2 DEF Conditions
  <2>4. /\ pc'[p] = "mint" /\ loc' = loc /\ lost' = lost
        /\ \A q \in Procs \ {p} : pc'[q] = pc[q]
    BY <1>4 DEF CheckStanding, Goto, TypeOK
  <2> QED  BY <2>3, <2>4 DEF StandingInv
<1>5. CASE CheckAt(l.i) \notin lost /\ l.i # Checks
  <2>1. /\ pc' = pc /\ lost' = lost /\ pc[p] = "check"
        /\ loc' = [loc EXCEPT ![p] = [l EXCEPT !.i = l.i + 1]]
    BY <1>5 DEF CheckStanding, Set
  <2>2. loc'[p].i = l.i + 1 /\ loc'[p].low = l.low  BY <1>1, <2>1 DEF TypeOK, Locals
  <2>3. \A j \in 1 .. (loc'[p].i - 1) : CheckAt(j) \notin l.low
    BY <1>1, <1>2, <1>5, <2>2
  <2>4. \A q \in Procs \ {p} : loc'[q] = loc[q]  BY <2>1 DEF TypeOK
  <2> QED  BY <1>1, <2>1, <2>2, <2>3, <2>4 DEF StandingInv
<1> QED  BY <1>3, <1>4, <1>5

LEMMA StandingKept == TypeOK /\ StandingInv /\ [Next]_vars => StandingInv'
<1> SUFFICES ASSUME TypeOK, StandingInv, [Next]_vars PROVE StandingInv'  OBVIOUS
<1> USE DEF history
<1>1. ASSUME NEW p \in Procs, IssueRefresh(p) PROVE StandingInv'
  <2>1. pc'[p] = "issue" /\ loc'[p].i = 1 /\ loc'[p].low = {}
    BY <1>1 DEF IssueRefresh, Goto, Set, TypeOK, Blank
  <2> QED  BY <1>1, <2>1, StandingStep DEF IssueRefresh, Goto, Set, TypeOK
<1>2. ASSUME NEW p \in Procs, Finish(p), lost' = lost PROVE StandingInv'
  <2>1. Blank.i = 1 /\ Blank.low = {}  BY DEF Blank
  <2> QED  BY <1>2, <2>1, FinishTyped, StandingStep
<1>3. ASSUME NEW p \in Procs, NEW t \in held, NEW c \in Clients, Present(p, t, c) PROVE StandingInv'
  <2>1. pc'[p] = "classify" /\ loc'[p].i = 1 /\ loc'[p].low = lost
    BY <1>3 DEF Present, Goto, Set, TypeOK, Blank
  <2> QED  BY <1>3, <2>1, StandingStep DEF Present, Goto, Set, TypeOK
<1>4. ASSUME NEW p \in Procs, Classify(p) PROVE StandingInv'
  <2>1. /\ pc'[p] # "mint" /\ loc'[p].i = loc[p].i /\ loc'[p].low = loc[p].low
        /\ \A q \in Procs \ {p} : pc'[q] = pc[q] /\ loc'[q] = loc[q]
    BY <1>4 DEF Classify, Goto, Set, TypeOK, Locals
  <2> QED  BY <1>4, <2>1, StandingStep DEF Classify
<1>5. ASSUME NEW p \in Procs, Cas(p) PROVE StandingInv'
  <2>1. /\ pc'[p] # "mint" /\ loc'[p].i = loc[p].i /\ loc'[p].low = loc[p].low
        /\ \A q \in Procs \ {p} : pc'[q] = pc[q] /\ loc'[q] = loc[q]
    BY <1>5 DEF Cas, Goto, Set, TypeOK, Locals
  <2> QED  BY <1>5, <2>1, StandingStep DEF Cas
<1>6. ASSUME NEW p \in Procs, Reload(p), Alive PROVE StandingInv'
  <2>1. /\ pc'[p] # "mint" /\ loc'[p].i = loc[p].i /\ loc'[p].low = loc[p].low
        /\ \A q \in Procs \ {p} : pc'[q] = pc[q] /\ loc'[q] = loc[q]
    BY <1>6 DEF Reload, Goto, Set, TypeOK, Locals
  <2> QED  BY <1>6, <2>1, StandingStep DEF Reload
<1>7. ASSUME NEW p \in Procs, CheckClient(p) \/ AccountReadFails(p) \/ MintFails(p) PROVE StandingInv'
  BY <1>7, StandingStep DEF CheckClient, AccountReadFails, MintFails, TypeOK, Goto
<1>8. CASE RevokeFamily \/ Tick
  BY <1>8 DEF RevokeFamily, Tick, StandingInv
<1>9. ASSUME NEW c \in Conditions, Lose(c) PROVE StandingInv'
  BY <1>9 DEF Lose, StandingInv
<1>10. ASSUME NEW c \in Conditions, Restore(c) PROVE StandingInv'
  <2>1. \A p \in Procs : loc'[p].i = loc[p].i /\ loc'[p].low = loc[p].low \ {c}
    BY <1>10 DEF Restore, TypeOK, Locals
  <2> QED  BY <1>10, <2>1 DEF Restore, StandingInv
<1>11. CASE UNCHANGED vars  BY <1>11 DEF vars, StandingInv
<1>12. ASSUME NEW p \in Procs,
              PutFamily(p) \/ DelFamily(p) \/ Respond(p) \/ Abort(p) \/ (Reload(p) /\ ~Alive)
       PROVE  StandingInv'
  BY <1>2, <1>12 DEF PutFamily, DelFamily, Respond, Abort, Reload
<1> QED
  BY <1>1, <1>3, <1>4, <1>5, <1>6, <1>7, <1>8, <1>9, <1>10, <1>11, <1>12,
     CheckStandingStep, FamilyAssumption DEF Next, Rotate, Grant

\* Tokens are minted only for a grant in good standing: a condition that was lost
\* when the request came in and stayed lost never gets past the re-checks of
\* grantRefreshToken, for a rotation and for an idempotent replay alike.
THEOREM RefreshMintsInGoodStanding == Spec => []MintsInGoodStanding
<1>1. Init => StandingInv
  BY DEF Init, StandingInv, Blank
<1>2. StandingInv => MintsInGoodStanding  BY DEF StandingInv, MintsInGoodStanding
<1> QED  BY <1>1, <1>2, FamilyTypes, StandingKept, PTL DEF Spec

-----------------------------------------------------------------------------
(* NeverLockedOut                                                            *)

\* The token that is current is on its way to a client, or the family is about
\* to be deleted.
Delivering(p) == pc[p] \in {"client", "check", "mint", "del"} /\ loc[p].out = last

\* A request that delivers the current token goes on delivering it, hands it out
\* or dies; no other request disturbs it.
LEMMA UsableStep ==
    ASSUME TypeOK, UsableInv, NEW p \in Procs, Alive' => Alive,
           held \subseteq held', UNCHANGED <<ops, last>>,
           \A q \in Procs \ {p} : pc'[q] = pc[q] /\ loc'[q] = loc[q],
           Delivering(p) /\ "abort" \notin ops => Delivering(p)' \/ last \in held' \/ ~Alive',
           pc'[p] = "issue" => loc'[p].tok = 1
    PROVE  UsableInv'
<1>1. NeverLockedOut'
  <2> SUFFICES ASSUME Alive', "abort" \notin ops
               PROVE  last \in held' \/ \E q \in Procs : Delivering(q)'
    BY DEF NeverLockedOut, Delivering
  <2>1. last \in held \/ \E q \in Procs : Delivering(q)
    BY DEF UsableInv, NeverLockedOut, Delivering
  <2>2. CASE last \in held  BY <2>2
  <2>3. CASE \E q \in Procs : Delivering(q)
    <3>1. PICK q \in Procs : Delivering(q)  BY <2>3
    <3>2. CASE q = p  BY <3>1, <3>2
    <3>3. CASE q # p
      <4>1. Delivering(q)'  BY <3>1, <3>3 DEF Delivering
      <4> QED  BY <4>1
    <3> QED  BY <3>2, <3>3
  <2> QED  BY <2>1, <2>2, <2>3
<1>2. \A q \in Procs : pc'[q] = "issue" => loc'[q].tok = 1
  BY DEF UsableInv
<1> QED  BY <1>1, <1>2 DEF UsableInv

LEMMA UsableKept == TypeOK /\ UsableInv /\ [Next]_vars => UsableInv'
<1> SUFFICES ASSUME TypeOK, UsableInv, [Next]_vars PROVE UsableInv'  OBVIOUS
<1> USE DEF history
<1>1. ASSUME NEW p \in Procs, IssueRefresh(p) PROVE UsableInv'
  <2>1. loc'[p].tok = 1 /\ ~Delivering(p)
    BY <1>1 DEF IssueRefresh, Set, TypeOK, Blank, Delivering
  <2> QED  BY <1>1, <2>1, UsableStep DEF IssueRefresh, Goto, Set, TypeOK, Alive
<1>2. ASSUME NEW p \in Procs, PutFamily(p) PROVE UsableInv'
  <2>1. last' \in held'  BY <1>2 DEF PutFamily, UsableInv
  <2>2. \A q \in Procs : pc'[q] = "issue" => loc'[q].tok = 1
    BY <1>2, FinishTyped DEF PutFamily, UsableInv
  <2> QED  BY <2>1, <2>2 DEF UsableInv, NeverLockedOut
<1>3. ASSUME NEW p \in Procs, NEW t \in held, NEW c \in Clients, Present(p, t, c) PROVE UsableInv'
  <2>1. pc'[p] = "classify" /\ ~Delivering(p)  BY <1>3 DEF Present, Goto, TypeOK, Delivering
  <2> QED  BY <1>3, <2>1, UsableStep DEF Present, Goto, Set, TypeOK, Alive
<1>4. ASSUME NEW p \in Procs, Classify(p) PROVE UsableInv'
  <2>1. pc'[p] # "issue" /\ ~Delivering(p)  BY <1>4 DEF Classify, Goto, TypeOK, Delivering
  <2> QED  BY <1>4, <2>1, UsableStep DEF Classify, Goto, Set, TypeOK, Alive
<1>5. ASSUME NEW p \in Procs, Cas(p) PROVE UsableInv'
  <2>1. CASE Holds(kv, "family", loc[p].fam, clock)
    <3>1. /\ pc'[p] = "client" /\ loc'[p].out = last'
          /\ \A q \in Procs \ {p} : pc'[q] = pc[q] /\ loc'[q] = loc[q]
      BY <1>5, <2>1 DEF Cas, Goto, Set, TypeOK, Locals
    <3> QED  BY <3>1 DEF UsableInv, NeverLockedOut
  <2>2. CASE ~Holds(kv, "family", loc[p].fam, clock)
    <3>1. kv' = kv  BY <1>5, <2>2 DEF Cas, CompareAndSwap
    <3>2. pc'[p] = "reload" /\ ~Delivering(p)  BY <1>5, <2>2 DEF Cas, Goto, TypeOK, Delivering
    <3> QED  BY <1>5, <2>2, <3>1, <3>2, UsableStep DEF Cas, Goto, TypeOK, Alive
  <2> QED  BY <2>1, <2>2
<1>6. ASSUME NEW p \in Procs, Reload(p) PROVE UsableInv'
  <2>1. pc'[p] # "issue" /\ ~Delivering(p)
    BY <1>6 DEF Reload, Finish, Goto, TypeOK, Delivering
  <2> QED  BY <1>6, <2>1, UsableStep DEF Reload, Finish, Goto, Set, TypeOK, Alive
<1>7. ASSUME NEW p \in Procs, CheckClient(p) \/ AccountReadFails(p) \/ MintFails(p) PROVE UsableInv'
  <2>1. pc'[p] # "issue" /\ (Delivering(p) => Delivering(p)')
    BY <1>7 DEF CheckClient, AccountReadFails, MintFails, Goto, TypeOK, Delivering
  <2> QED
    BY <1>7, <2>1, UsableStep DEF CheckClient, AccountReadFails, MintFails, Goto, TypeOK, Alive
<1>8. ASSUME NEW p \in Procs, CheckStanding(p) PROVE UsableInv'
  <2>1. pc'[p] # "issue" /\ (Delivering(p) => Delivering(p)')
    BY <1>8 DEF CheckStanding, Goto, Set, TypeOK, Locals, Delivering
  <2> QED  BY <1>8, <2>1, UsableStep DEF CheckStanding, Goto, Set, TypeOK, Alive
<1>9. ASSUME NEW p \in Procs, Respond(p) PROVE UsableInv'
  <2>1. Delivering(p) => last \in held'  BY <1>9 DEF Respond, Delivering
  <2> QED  BY <1>9, <2>1, UsableStep, FinishTyped DEF Respond, Alive
<1>10. ASSUME NEW p \in Procs, DelFamily(p) PROVE UsableInv'
  BY <1>10, UsableStep, FinishTyped, DelFacts DEF DelFamily
<1>11. ASSUME NEW p \in Procs, Abort(p) PROVE UsableInv'
  BY <1>11, UsableStep, FinishTyped DEF Abort, Alive
<1>12. CASE RevokeFamily
  BY <1>12, DelFacts DEF RevokeFamily, UsableInv, NeverLockedOut
<1>13. ASSUME NEW c \in Conditions, Lose(c) PROVE UsableInv'
  BY <1>13 DEF Lose, UsableInv, NeverLockedOut, Alive
<1>14. ASSUME NEW c \in Conditions, Restore(c) PROVE UsableInv'
  <2>1. \A p \in Procs : loc'[p].out = loc[p].out /\ loc'[p].tok = loc[p].tok
    BY <1>14 DEF Restore, TypeOK, Locals
  <2> QED  BY <1>14, <2>1 DEF Restore, UsableInv, NeverLockedOut, Alive
<1>15. CASE Tick
  <2>1. Alive' => Alive  BY <1>15, TickAlive
  <2> QED  BY <1>15, <2>1 DEF Tick, UsableInv, NeverLockedOut
<1>16. CASE UNCHANGED vars  BY <1>16 DEF vars, UsableInv, NeverLockedOut, Alive
<1> QED
  BY <1>1, <1>2, <1>3, <1>4, <1>5, <1>6, <1>7, <1>8, <1>9, <1>10, <1>11, <1>12, <1>13, <1>14,
     <1>15, <1>16, FamilyAssumption DEF Next, Rotate, Grant

\* Without crashes and backend errors a live family is never locked out: its
\* current token was returned or is on its way, or a Del is pending.  The mint
\* that fails after a rotation, and every refused re-check, delete the family.
THEOREM RefreshNeverLockedOut == Spec => []NeverLockedOut
<1>1. Init => UsableInv
  BY DEF Init, UsableInv, NeverLockedOut, Alive, Found, NoEntry
<1>2. UsableInv => NeverLockedOut  BY DEF UsableInv
<1> QED  BY <1>1, <1>2, FamilyTypes, UsableKept, PTL DEF Spec
-----------------------------------------------------------------------------
(* OneSuccessor and the chain                                                *)

\* The requests' part survives a step of p that leaves the histories alone, when
\* it holds for p itself.
LEMMA RequestStep ==
    ASSUME TypeOK, ChainInv, NEW p \in Procs, UNCHANGED <<born, link>>,
           next' = next \/ next' = next + 1,
           \A q \in Procs \ {p} : pc'[q] = pc[q] /\ loc'[q] = loc[q],
           pc'[p] = "issue" => pc[p] = "issue" /\ loc'[p] = loc[p],
           pc'[p] \in {"classify", "cas"} => FromLink(loc'[p].fam) /\ loc'[p].fam.cur < next',
           pc'[p] = "cas" =>
               /\ loc'[p].tok = loc'[p].fam.cur
               /\ loc'[p].fam.cur < loc'[p].new.cur /\ loc'[p].new.cur < next'
               /\ loc'[p].new.cur <= MaxToken
               /\ loc'[p].new.prev = loc'[p].fam.cur /\ loc'[p].new.succ = loc'[p].new.cur,
           pc'[p] \in {"client", "check", "mint"} =>
               [from |-> loc'[p].tok, to |-> loc'[p].out] \in link
    PROVE  RequestFacts'
<1>1. next \in Nat /\ next <= next'  BY DEF TypeOK
<1>2. \A q \in Procs : loc[q].fam.cur \in Nat /\ loc[q].new.cur \in Nat
  BY DEF TypeOK, Locals, Families
<1> SUFFICES ASSUME NEW q \in Procs, q # p
             PROVE  /\ pc[q] = "issue" =>
                        /\ ~born /\ 1 < next'
                        /\ loc[q].fam.cur = 1 /\ loc[q].fam.pvu = 0
                        /\ \A r \in Procs \ {q} : pc'[r] # "issue"
                    /\ pc[q] \in {"classify", "cas"} =>
                        FromLink(loc[q].fam) /\ loc[q].fam.cur < next'
                    /\ pc[q] = "cas" => loc[q].new.cur < next'
  BY <1>1 DEF ChainInv, RequestFacts, FromLink
<1>3. pc[q] = "issue" => \A r \in Procs \ {q} : pc'[r] # "issue"
  BY DEF ChainInv, RequestFacts
<1>4. pc[q] = "issue" => ~born /\ 1 < next /\ loc[q].fam.cur = 1 /\ loc[q].fam.pvu = 0
  BY DEF ChainInv, RequestFacts
<1>5. pc[q] \in {"classify", "cas"} => FromLink(loc[q].fam) /\ loc[q].fam.cur < next
  BY DEF ChainInv, RequestFacts
<1>6. pc[q] = "cas" => loc[q].new.cur < next
  BY DEF ChainInv, RequestFacts
<1> QED  BY <1>1, <1>2, <1>3, <1>4, <1>5, <1>6

\* The record's and the histories' parts survive a step that leaves the store alone.
LEMMA StoreKept ==
    ASSUME TypeOK, ChainInv, UNCHANGED <<kv, clock, born, last, link>>,
           next' = next \/ (next' = next + 1 /\ next # 0) \/ ~born,
           given' \subseteq link
    PROVE  RecordFacts' /\ HistoryFacts'
<1>1. Alive' = Alive /\ Record' = Record  BY DEF Alive, Record
<1>2. Alive => Record.cur \in Nat  BY AliveTyped DEF Families
<1>3. RecordFacts'  BY <1>1, <1>2 DEF ChainInv, RecordFacts, FromLink, TypeOK
<1> QED  BY <1>3 DEF ChainInv, HistoryFacts, TypeOK

LEMMA ClassifyChain ==
    ASSUME TypeOK, ChainInv, NEW p \in Procs, Classify(p)
    PROVE  ChainInv'
<1> DEFINE f == loc[p].fam
           t == loc[p].tok
<1>1. /\ pc[p] = "classify" /\ FromLink(f) /\ f.cur < next
      /\ UNCHANGED <<clock, kv, born, last, link, given>>
  BY DEF Classify, ChainInv, RequestFacts, history
<1>2. f \in Families /\ f.cur \in Nat /\ next \in Nat /\ clock \in Nat /\ loc[p] \in Locals
      /\ f.pvu \in Nat
  BY DEF TypeOK, Locals, Families
<1>3. CASE next' = next /\ Goto(p, "del") /\ loc' = loc
  <2>1. RequestFacts'  BY <1>1, <1>3, RequestStep DEF Goto, TypeOK
  <2>2. RecordFacts' /\ HistoryFacts'  BY <1>1, <1>3, StoreKept DEF ChainInv, HistoryFacts
  <2> QED  BY <2>1, <2>2 DEF ChainInv
<1>4. CASE InWindow(f, t) /\ next' = next /\ Goto(p, "client") /\ Set(p, [loc[p] EXCEPT !.out = f.succ])
  <2>1. [from |-> t, to |-> f.succ] \in link  BY <1>1, <1>2, <1>4 DEF InWindow, FromLink
  <2>2. /\ pc'[p] = "client" /\ loc'[p].tok = t /\ loc'[p].out = f.succ
        /\ \A q \in Procs \ {p} : pc'[q] = pc[q] /\ loc'[q] = loc[q]
    BY <1>2, <1>4 DEF Goto, Set, TypeOK, Locals
  <2>3. RequestFacts'  BY <1>1, <1>4, <2>1, <2>2, RequestStep
  <2>4. RecordFacts' /\ HistoryFacts'  BY <1>1, <1>4, StoreKept DEF ChainInv, HistoryFacts
  <2> QED  BY <2>3, <2>4 DEF ChainInv
<1>5. CASE /\ t = f.cur /\ next <= MaxToken /\ next' = next + 1
           /\ Goto(p, "cas") /\ Set(p, [loc[p] EXCEPT !.new = Rotated(f, next)])
  <2>1. /\ Rotated(f, next).cur = next /\ Rotated(f, next).prev = f.cur
        /\ Rotated(f, next).succ = next
    BY <1>2, RotatedTyped
  <2>2. /\ pc'[p] = "cas" /\ loc'[p].tok = t /\ loc'[p].fam = f
        /\ loc'[p].new = Rotated(f, next)
        /\ \A q \in Procs \ {p} : pc'[q] = pc[q] /\ loc'[q] = loc[q]
    BY <1>2, <1>5 DEF Goto, Set, TypeOK, Locals
  <2>3. RequestFacts'
    <3>1. /\ FromLink(loc'[p].fam) /\ loc'[p].fam.cur < next'
          /\ loc'[p].tok = loc'[p].fam.cur
          /\ loc'[p].fam.cur < loc'[p].new.cur /\ loc'[p].new.cur < next'
          /\ loc'[p].new.cur <= MaxToken
          /\ loc'[p].new.prev = loc'[p].fam.cur /\ loc'[p].new.succ = loc'[p].new.cur
      BY <1>1, <1>2, <1>5, <2>1, <2>2
    <3>2. pc'[p] \notin {"issue", "client", "check", "mint"}  BY <2>2
    <3> QED  BY <1>1, <1>5, <2>2, <3>1, <3>2, RequestStep
  <2>4. RecordFacts' /\ HistoryFacts'
    <3>1. next # 0  BY <1>1, <1>2
    <3> QED  BY <1>1, <1>5, <3>1, StoreKept DEF ChainInv, HistoryFacts
  <2> QED  BY <2>3, <2>4 DEF ChainInv
<1> QED  BY <1>3, <1>4, <1>5 DEF Classify

\* The compare ties the copy that was read to the record that is replaced: the
\* token exchanged is the current one, which no rotation exchanged before.
LEMMA CasFacts ==
    ASSUME TypeOK, ChainInv, NEW p \in Procs, Cas(p),
           Holds(kv, "family", loc[p].fam, clock)
    PROVE  /\ kv' \in [{"family"} -> Cells(Families)] /\ Alive /\ Alive' /\ born
           /\ Record' = loc[p].new
           /\ loc[p].tok = last /\ last' = loc[p].new.cur
           /\ last < last' /\ last' < next /\ last' <= MaxToken
           /\ link' = link \cup {[from |-> last, to |-> last']}
           /\ loc[p].new.prev = last /\ loc[p].new.succ = last'
           /\ pc'[p] = "client" /\ loc'[p].tok = loc[p].tok /\ loc'[p].out = last'
           /\ \A q \in Procs \ {p} : pc'[q] = pc[q] /\ loc'[q] = loc[q]
<1> DEFINE f == loc[p].fam
           n == loc[p].new
<1>1. f \in Families /\ n \in Families /\ loc[p] \in Locals  BY DEF TypeOK, Locals
<1>2. Alive /\ Record = f  BY DEF Holds, Alive, Record
<1>3. f.cur = last /\ born  BY <1>2 DEF ChainInv, RecordFacts
<1>4. /\ loc[p].tok = f.cur /\ f.cur < n.cur /\ n.cur < next /\ n.cur <= MaxToken
      /\ n.prev = f.cur /\ n.succ = n.cur
  BY DEF Cas, ChainInv, RequestFacts
<1>5. kv' = SetEx(kv, "family", n, KvTtl(f), clock) /\ clock' = clock
  BY DEF Cas, CompareAndSwap
<1>6. KvTtl(f) \in Nat \ {0}  BY <1>1, KvTtlPositive DEF TypeOK
<1>7. kv' \in [{"family"} -> Cells(Families)] /\ Alive' /\ Record' = n
  BY <1>1, <1>5, <1>6, PutFacts
<1>8. /\ pc'[p] = "client" /\ loc'[p].tok = loc[p].tok /\ loc'[p].out = n.cur
      /\ \A q \in Procs \ {p} : pc'[q] = pc[q] /\ loc'[q] = loc[q]
  BY <1>1 DEF Cas, Goto, Set, TypeOK, Locals
<1>9. last' = n.cur /\ link' = link \cup {[from |-> loc[p].tok, to |-> n.cur]}  BY DEF Cas
<1> QED  BY <1>2, <1>3, <1>4, <1>7, <1>8, <1>9

LEMMA CasChain ==
    ASSUME TypeOK, ChainInv, NEW p \in Procs, Cas(p)
    PROVE  ChainInv'
<1>1. CASE Holds(kv, "family", loc[p].fam, clock)
  <2>1. UNCHANGED <<next, given, born>> /\ next \in Nat /\ last \in Nat /\ last' \in Nat
    <3>1. loc[p].new.cur \in Nat  BY DEF TypeOK, Locals, Families
    <3> QED  BY <1>1, <3>1 DEF Cas, TypeOK
  <2>2. RecordFacts'
    BY <1>1, <2>1, CasFacts DEF RecordFacts, FromLink
  <2>3. HistoryFacts'
    <3>1. \A l \in link' : l.from < last'
      <4>1. \A l \in link : l.from < last /\ l.from \in Nat
        BY DEF ChainInv, HistoryFacts, TypeOK, Links
      <4> QED  BY <1>1, <2>1, <4>1, CasFacts
    <3>2. \A l \in link : l.from # last
      BY <2>1 DEF ChainInv, HistoryFacts, TypeOK, Links
    <3>3. \A l, m \in link' : l.from = m.from => l.to = m.to
      BY <1>1, <3>2, CasFacts DEF ChainInv, HistoryFacts
    <3>4. given' \subseteq link'  BY <1>1, <2>1, CasFacts DEF ChainInv, HistoryFacts
    <3>5. next' # 1  BY <1>1, <2>1, CasFacts
    <3>6. born'  BY <1>1, <2>1, CasFacts
    <3> QED  BY <3>1, <3>3, <3>4, <3>5, <3>6 DEF HistoryFacts
  <2>4. RequestFacts'
    <3>1. link \subseteq link' /\ pc'[p] = "client"
          /\ [from |-> loc'[p].tok, to |-> loc'[p].out] \in link'
      BY <1>1, CasFacts
    <3>2. \A q \in Procs : pc'[q] # "issue"
      <4>1. \A q \in Procs : pc[q] # "issue"
        BY <1>1, CasFacts DEF ChainInv, RequestFacts
      <4> QED  BY <1>1, <4>1, CasFacts
    <3>3. \A q \in Procs \ {p} : pc'[q] = pc[q] /\ loc'[q] = loc[q]  BY <1>1, CasFacts
    <3> QED  BY <2>1, <3>1, <3>2, <3>3 DEF ChainInv, RequestFacts, FromLink
  <2> QED  BY <2>2, <2>3, <2>4 DEF ChainInv
<1>2. CASE ~Holds(kv, "family", loc[p].fam, clock)
  <2>1. /\ UNCHANGED <<kv, clock, next, born, last, link, given, loc>>
        /\ pc'[p] = "reload" /\ \A q \in Procs \ {p} : pc'[q] = pc[q]
    BY <1>2 DEF Cas, CompareAndSwap, Goto, TypeOK
  <2>2. RequestFacts'  BY <2>1, RequestStep
  <2>3. RecordFacts' /\ HistoryFacts'  BY <2>1, StoreKept DEF ChainInv, HistoryFacts
  <2> QED  BY <2>2, <2>3 DEF ChainInv
<1> QED  BY <1>1, <1>2

\* The request that issued the family is the only one that writes it unconditionally.
LEMMA PutFamilyChain ==
    ASSUME TypeOK, ChainInv, NEW p \in Procs, PutFamily(p)
    PROVE  /\ ChainInv' /\ Alive' /\ ~born /\ link = {}
<1>1. /\ pc[p] = "issue" /\ ~born /\ 1 < next /\ loc[p].fam.cur = 1 /\ loc[p].fam.pvu = 0
      /\ \A q \in Procs \ {p} : pc[q] # "issue"
  BY DEF PutFamily, ChainInv, RequestFacts
<1>2. loc[p].fam \in Families  BY DEF TypeOK, Locals
<1>3. AbsoluteTTL \in Nat \ {0}  BY FamilyAssumption
<1>4. Alive' /\ Record' = loc[p].fam  BY <1>2, <1>3, PutFacts DEF PutFamily
<1>5. born' = TRUE /\ last' = 1 /\ UNCHANGED <<next, link, given>> /\ link = {}
  BY <1>1 DEF PutFamily, ChainInv, HistoryFacts
<1>6. RecordFacts'  BY <1>1, <1>4, <1>5 DEF RecordFacts, FromLink
<1>7. HistoryFacts'  BY <1>1, <1>5 DEF HistoryFacts, ChainInv
<1>8. \A q \in Procs : pc'[q] # "issue"  BY <1>1, FinishTyped DEF PutFamily
<1>9. RequestFacts'
  BY <1>5, <1>8, FinishTyped DEF PutFamily, ChainInv, RequestFacts, FromLink
<1> QED  BY <1>1, <1>4, <1>5, <1>6, <1>7, <1>9 DEF ChainInv

LEMMA ChainKept == TypeOK /\ ChainInv /\ [Next]_vars => ChainInv'
<1> SUFFICES ASSUME TypeOK, ChainInv, [Next]_vars PROVE ChainInv'  OBVIOUS
<1> USE DEF history
<1>1. ASSUME NEW p \in Procs, IssueRefresh(p) PROVE ChainInv'
  <2>1. /\ next = 1 /\ next' = 2 /\ ~born /\ link = {}
        /\ UNCHANGED <<kv, clock, born, last, link, given>>
    BY <1>1 DEF IssueRefresh, ChainInv, HistoryFacts
  <2>2. /\ pc'[p] = "issue" /\ loc'[p].fam.cur = 1 /\ loc'[p].fam.pvu = 0
        /\ \A q \in Procs \ {p} : pc'[q] = pc[q] /\ loc'[q] = loc[q]
    BY <1>1 DEF IssueRefresh, Goto, Set, TypeOK, Blank, NoFamily
  <2>3. \A q \in Procs : pc[q] # "issue"  BY <2>1 DEF ChainInv, RequestFacts
  <2>4. \A q \in Procs : loc[q].fam.cur \in Nat /\ loc[q].new.cur \in Nat
    BY DEF TypeOK, Locals, Families
  <2>5. RequestFacts'
    BY <2>1, <2>2, <2>3, <2>4 DEF ChainInv, RequestFacts, FromLink
  <2>6. RecordFacts' /\ HistoryFacts'
    BY <2>1, StoreKept DEF ChainInv, HistoryFacts
  <2> QED  BY <2>5, <2>6 DEF ChainInv
<1>2. ASSUME NEW p \in Procs, NEW t \in held, NEW c \in Clients, Present(p, t, c) PROVE ChainInv'
  <2>1. /\ pc'[p] = "classify" /\ loc'[p].fam = Record
        /\ \A q \in Procs \ {p} : pc'[q] = pc[q] /\ loc'[q] = loc[q]
    BY <1>2 DEF Present, Goto, Set, TypeOK, Blank
  <2>2. FromLink(Record) /\ Record.cur < next  BY <1>2 DEF Present, ChainInv, RecordFacts
  <2>3. RequestFacts'  BY <1>2, <2>1, <2>2, RequestStep DEF Present
  <2>4. RecordFacts' /\ HistoryFacts'
    BY <1>2, StoreKept DEF Present, ChainInv, HistoryFacts
  <2> QED  BY <2>3, <2>4 DEF ChainInv
<1>3. ASSUME NEW p \in Procs, Reload(p) PROVE ChainInv'
  <2>1. RecordFacts' /\ HistoryFacts'
    BY <1>3, StoreKept DEF Reload, ChainInv, HistoryFacts
  <2>2. CASE Alive /\ InWindow(Record, loc[p].tok)
    <3>1. [from |-> loc[p].tok, to |-> Record.succ] \in link
      <4>1. Record.pvu \in Nat /\ clock \in Nat  BY <2>2, AliveTyped DEF Families, TypeOK
      <4> QED  BY <2>2, <4>1 DEF InWindow, ChainInv, RecordFacts, FromLink
    <3>2. /\ pc'[p] = "client" /\ loc'[p].tok = loc[p].tok /\ loc'[p].out = Record.succ
          /\ \A q \in Procs \ {p} : pc'[q] = pc[q] /\ loc'[q] = loc[q]
      BY <1>3, <2>2 DEF Reload, Goto, Set, TypeOK, Locals
    <3>3. RequestFacts'  BY <1>3, <3>1, <3>2, RequestStep DEF Reload
    <3> QED  BY <2>1, <3>3 DEF ChainInv
  <2>3. CASE ~(Alive /\ InWindow(Record, loc[p].tok))
    <3>1. /\ pc'[p] \in {"idle", "del"}
          /\ \A q \in Procs \ {p} : pc'[q] = pc[q] /\ loc'[q] = loc[q]
      BY <1>3, <2>3 DEF Reload, Finish, Goto, Set, TypeOK
    <3>2. RequestFacts'  BY <1>3, <3>1, RequestStep DEF Reload
    <3> QED  BY <2>1, <3>2 DEF ChainInv
  <2> QED  BY <2>2, <2>3
<1>4. ASSUME NEW p \in Procs, CheckClient(p) \/ AccountReadFails(p) \/ MintFails(p) \/ CheckStanding(p)
      PROVE  ChainInv'
  <2>1. UNCHANGED <<kv, clock, next, born, last, link, given>>
    BY <1>4 DEF CheckClient, AccountReadFails, MintFails, CheckStanding
  <2>2. /\ pc'[p] \in {"check", "mint", "del"}
        /\ loc'[p].tok = loc[p].tok /\ loc'[p].out = loc[p].out
        /\ \A q \in Procs \ {p} : pc'[q] = pc[q] /\ loc'[q] = loc[q]
    BY <1>4 DEF CheckClient, AccountReadFails, MintFails, CheckStanding, Goto, Set, TypeOK, Locals
  <2>3. [from |-> loc[p].tok, to |-> loc[p].out] \in link
    BY <1>4 DEF CheckClient, AccountReadFails, MintFails, CheckStanding, ChainInv, RequestFacts
  <2>4. RequestFacts'  BY <2>1, <2>2, <2>3, RequestStep
  <2>5. RecordFacts' /\ HistoryFacts'  BY <2>1, StoreKept DEF ChainInv, HistoryFacts
  <2> QED  BY <2>4, <2>5 DEF ChainInv
<1>5. ASSUME NEW p \in Procs, Respond(p) PROVE ChainInv'
  <2>1. given' \subseteq link  BY <1>5 DEF Respond, ChainInv, HistoryFacts, RequestFacts
  <2>2. RecordFacts' /\ HistoryFacts'  BY <1>5, <2>1, StoreKept DEF Respond
  <2>3. RequestFacts'  BY <1>5, FinishTyped, RequestStep DEF Respond
  <2> QED  BY <2>2, <2>3 DEF ChainInv
<1>6. ASSUME NEW p \in Procs, Abort(p) PROVE ChainInv'
  <2>1. RecordFacts' /\ HistoryFacts'  BY <1>6, StoreKept DEF Abort, ChainInv, HistoryFacts
  <2>2. RequestFacts'  BY <1>6, FinishTyped, RequestStep DEF Abort
  <2> QED  BY <2>1, <2>2 DEF ChainInv
<1>7. ASSUME NEW p \in Procs, DelFamily(p) PROVE ChainInv'
  <2>1. RecordFacts'  BY <1>7, DelFacts DEF DelFamily, RecordFacts
  <2>2. HistoryFacts'  BY <1>7 DEF DelFamily, ChainInv, HistoryFacts
  <2>3. RequestFacts'  BY <1>7, FinishTyped, RequestStep DEF DelFamily
  <2> QED  BY <2>1, <2>2, <2>3 DEF ChainInv
<1>8. CASE RevokeFamily
  <2>1. RecordFacts'  BY <1>8, DelFacts DEF RevokeFamily, RecordFacts
  <2> QED  BY <1>8, <2>1 DEF RevokeFamily, ChainInv, HistoryFacts, RequestFacts, FromLink
<1>9. ASSUME NEW c \in Conditions, Lose(c) PROVE ChainInv'
  BY <1>9 DEF Lose, ChainInv, RecordFacts, HistoryFacts, RequestFacts, FromLink, Alive, Record
<1>10. ASSUME NEW c \in Conditions, Restore(c) PROVE ChainInv'
  <2>1. \A p \in Procs : /\ loc'[p].tok = loc[p].tok /\ loc'[p].out = loc[p].out
                         /\ loc'[p].fam = loc[p].fam /\ loc'[p].new = loc[p].new
    BY <1>10 DEF Restore, TypeOK, Locals
  <2>2. RequestFacts'  BY <1>10, <2>1 DEF Restore, ChainInv, RequestFacts, FromLink
  <2>3. RecordFacts' /\ HistoryFacts'  BY <1>10, StoreKept DEF Restore, ChainInv, HistoryFacts
  <2> QED  BY <2>2, <2>3 DEF ChainInv
<1>11. CASE Tick
  <2>1. Alive' => Alive /\ Record' = Record  BY <1>11, TickAlive DEF Tick, Record
  <2> QED  BY <1>11, <2>1 DEF Tick, ChainInv, RecordFacts, HistoryFacts, RequestFacts, FromLink
<1>12. CASE UNCHANGED vars
  BY <1>12 DEF vars, ChainInv, RecordFacts, HistoryFacts, RequestFacts, FromLink, Alive, Record
<1> QED
  BY <1>1, <1>2, <1>3, <1>4, <1>5, <1>6, <1>7, <1>8, <1>9, <1>10, <1>11, <1>12,
     PutFamilyChain, ClassifyChain, CasChain, FamilyAssumption DEF Next, Rotate, Grant

\* The chain invariant holds in every behaviour.
LEMMA ChainHolds == Spec => []ChainInv
<1>1. Init => ChainInv
  BY DEF Init, ChainInv, RecordFacts, HistoryFacts, RequestFacts, Alive, Found, NoEntry
<1> QED  BY <1>1, FamilyTypes, ChainKept, PTL DEF Spec

\* However requests race, a refresh token is exchanged for one successor:
\* rotateRefresh's compare-and-swap admits one rotation of the current token, and
\* the idempotent replay returns what that rotation made.
THEOREM RefreshOneSuccessor == Spec => []OneSuccessor
<1>1. ChainInv => OneSuccessor
  BY DEF ChainInv, HistoryFacts, OneSuccessor
<1> QED  BY <1>1, ChainHolds, PTL

-----------------------------------------------------------------------------
(* The refinement                                                            *)

\* The tokens of the chain that were exchanged.
Past == {l.from : l \in link}

\* Only the three writes of the family's key, and the clock, move the chain.
LEMMA ChainStutters ==
    ASSUME UNCHANGED <<kv, clock, born, last, link>>
    PROVE  UNCHANGED <<ChainState, last, Past>>
BY DEF ChainState, Alive, Past

\* A family that stops being found ends the chain, and one that was not there
\* does not appear.
LEMMA ChainEnds ==
    ASSUME ChainInv, UNCHANGED <<born, last, link>>, Alive' => Alive
    PROVE  Chain!End \/ UNCHANGED <<ChainState, last, Past>>
<1>1. Alive => born  BY DEF ChainInv, RecordFacts
<1>2. CASE Alive' \/ ~Alive  BY <1>1, <1>2 DEF ChainState, Past
<1>3. CASE Alive /\ ~Alive'
  BY <1>1, <1>3 DEF ChainState, Past, Chain!End
<1> QED  BY <1>2, <1>3

LEMMA ChainStep == TypeOK /\ ChainInv /\ [Next]_vars => [Chain!Next]_(Chain!chainVars)
<1> SUFFICES ASSUME TypeOK, ChainInv, [Next]_vars
             PROVE  Chain!Next \/ UNCHANGED <<ChainState, last, Past>>
  BY DEF Chain!chainVars, Past
<1> USE DEF history
<1>1. ASSUME NEW p \in Procs, PutFamily(p) PROVE Chain!Next
  <2>1. Alive' /\ ~born /\ link' = link /\ born' = TRUE /\ last' = 1
    BY <1>1, PutFamilyChain DEF PutFamily
  <2>2. 1 \in 0 .. (MaxToken + 1)  BY FamilyAssumption
  <2>3. Chain!Begin(1)  BY <2>1, <2>2 DEF Chain!Begin, ChainState
  <2> QED  BY <2>2, <2>3 DEF Chain!Next
<1>2. ASSUME NEW p \in Procs, Cas(p) PROVE Chain!Next \/ UNCHANGED <<ChainState, last, Past>>
  <2>1. CASE Holds(kv, "family", loc[p].fam, clock)
    <3>1. /\ Alive /\ Alive' /\ born /\ born' = born /\ last < last' /\ last' <= MaxToken
          /\ link' = link \cup {[from |-> last, to |-> last']} /\ last' \in Nat /\ last \in Nat
      <4>1. loc[p].new.cur \in Nat  BY DEF TypeOK, Locals, Families
      <4> QED  BY <1>2, <2>1, <4>1, CasFacts DEF Cas, TypeOK
    <3>2. last' \in 0 .. (MaxToken + 1)  BY <3>1, FamilyAssumption
    <3>3. Past' = Past \cup {last}
      <4> DEFINE e == [from |-> last, to |-> last']
      <4>1. link' = link \cup {e} /\ e.from = last  BY <3>1
      <4> HIDE DEF e
      <4>2. {l.from : l \in link'} = {l.from : l \in link} \cup {last}  BY <4>1
      <4> QED  BY <4>2 DEF Past
    <3>4. last' \notin Past \cup {last}
      <4>1. \A l \in link : l.from < last /\ l.from \in Nat
        BY DEF ChainInv, HistoryFacts, TypeOK, Links
      <4> QED  BY <3>1, <4>1 DEF Past
    <3>5. ChainState = "live" /\ ChainState' = "live"  BY <3>1 DEF ChainState
    <3>6. PICK t \in 0 .. (MaxToken + 1) : t = last'  BY <3>2
    <3>7. Chain!Exchange(t)  BY <3>3, <3>4, <3>5, <3>6 DEF Chain!Exchange, Past
    <3> QED  BY <3>7 DEF Chain!Next
  <2>2. CASE ~Holds(kv, "family", loc[p].fam, clock)
    BY <1>2, <2>2, ChainStutters DEF Cas, CompareAndSwap
  <2> QED  BY <2>1, <2>2
<1>3. ASSUME NEW p \in Procs, DelFamily(p) PROVE Chain!Next \/ UNCHANGED <<ChainState, last, Past>>
  BY <1>3, DelFacts, ChainEnds DEF DelFamily, Chain!Next
<1>4. CASE RevokeFamily
  BY <1>4, DelFacts, ChainEnds DEF RevokeFamily, Chain!Next
<1>5. CASE Tick
  BY <1>5, TickAlive, ChainEnds DEF Tick, Chain!Next
<1>6. ASSUME NEW p \in Procs,
             IssueRefresh(p) \/ (\E t \in held, c \in Clients : Present(p, t, c)) \/ Classify(p)
             \/ Reload(p) \/ CheckClient(p) \/ CheckStanding(p) \/ AccountReadFails(p)
             \/ Respond(p) \/ MintFails(p) \/ Abort(p)
      PROVE  UNCHANGED <<ChainState, last, Past>>
  <2>1. UNCHANGED <<kv, clock, born, last, link>>
    BY <1>6 DEF IssueRefresh, Present, Classify, Reload, CheckClient, CheckStanding,
                AccountReadFails, Respond, MintFails, Abort
  <2> QED  BY <2>1, ChainStutters
<1>7. ASSUME NEW c \in Conditions, Lose(c) \/ Restore(c) PROVE UNCHANGED <<ChainState, last, Past>>
  BY <1>7, ChainStutters DEF Lose, Restore
<1>8. CASE UNCHANGED vars  BY <1>8, ChainStutters DEF vars
<1> QED
  BY <1>1, <1>2, <1>3, <1>4, <1>5, <1>6, <1>7, <1>8, FamilyAssumption DEF Next, Rotate, Grant

\* The family implements the abstract chain: a rotation exchanges the current
\* token for one the chain never held, and a family that was deleted, revoked or
\* ran out is never live again, whatever the requests that loaded it still do.
THEOREM RefreshImplementsChain == Spec => ImplementsChain
<1>1. Init => Chain!Init
  BY FamilyAssumption DEF Init, Chain!Init, ChainState
<1> QED  BY <1>1, FamilyTypes, ChainHolds, ChainStep, PTL DEF Spec, ImplementsChain, Chain!Spec
=============================================================================
