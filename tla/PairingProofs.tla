---------------------------- MODULE PairingProofs ----------------------------
(***************************************************************************)
(* Pairing: one approval, one session, no resurrection and no extension,   *)
(* for any number of requests, pairings and accounts.                      *)
(***************************************************************************)
EXTENDS Pairing, KvProofs

\* The cell of x holds a record, expired or not.
Stored(x) == 0 < rec[x].exp

\* Requests that won the consumption of their pairing and have not answered yet.
Winning == {"coIndex", "coAccount", "coIssue"}

\* What a stored record says about the history of its pairing.
RecordFacts(x) ==
    /\ x \in started
    /\ rec[x].val \in Record
    /\ rec[x].exp = rec[x].val.exp
    /\ rec[x].val.st = "pending" => \A a \in approvals : a.pair # x
    /\ rec[x].val.st = "approved" => [pair |-> x, acct |-> rec[x].val.acct] \in approvals
    /\ rec[x].val.st # "consumed" => x \notin consumed

RecordInv == \A x \in Pairings : Stored(x) => RecordFacts(x)

\* Only generated pairings have a history.
HistoryInv ==
    /\ \A a \in approvals : a.pair \in started
    /\ consumed \subseteq started
    /\ \A x \in Pairings : issued[x] <= 1 /\ (issued[x] = 1 => x \in consumed)

\* What a request knows between its read and its write, and after it won.
RequestInv ==
    \A p \in Procs :
        /\ pc[p] = "apCas" => loc[p].rec.st = "pending"
        /\ pc[p] = "coCas" => loc[p].rec.st = "approved"
        /\ pc[p] \in Winning =>
            /\ loc[p].pair \in consumed /\ issued[loc[p].pair] = 0
            /\ [pair |-> loc[p].pair, acct |-> loc[p].rec.acct] \in approvals
            /\ \A q \in Procs \ {p} : pc[q] \in Winning => loc[q].pair # loc[p].pair

PairingInv ==
    /\ TypeOK
    /\ RecordInv
    /\ HistoryInv
    /\ RequestInv
    /\ OneApproval
    /\ owners \subseteq approvals

-----------------------------------------------------------------------------

LEMMA BlankTyped == \A x \in Pairings : Blank(x) \in Locals /\ Blank(AnyPairing) \in Locals
BY PairingAssumption DEF Blank, AnyPairing, Locals, Record, NoRecord

\* An approving swap leaves the record approved, with the deadline it had.
LEMMA SwapFacts ==
    ASSUME TypeOK, RecordInv, NEW x \in Pairings, NEW r \in Record, NEW v \in Record,
           v.exp = r.exp, Holds(rec, x, r, clock), WriteTtl(r) > 0,
           rec' = CompareAndSwap(rec, x, r, v, WriteTtl(r), clock)
    PROVE  /\ rec' \in [Pairings -> Cells(Record)]
           /\ rec'[x].val = v /\ rec'[x].exp = v.exp
           /\ \A y \in Pairings \ {x} : rec'[y] = rec[y]
           /\ Stored(x) /\ rec[x].val = r
<1>1. rec \in [Pairings -> Cells(Record)] /\ clock \in Nat  BY DEF TypeOK
<1>2. r.exp \in Nat  BY DEF Record
<1>3. WriteTtl(r) \in Nat /\ clock + WriteTtl(r) = r.exp  BY <1>1, <1>2 DEF WriteTtl
<1>4. Found(rec, x, clock) /\ rec[x].val = r  BY DEF Holds
<1>5. Stored(x)  BY <1>1, <1>4, FoundTyped DEF Stored
<1>6. CompareAndSwap(rec, x, r, v, WriteTtl(r), clock) = SetEx(rec, x, v, WriteTtl(r), clock)
  BY DEF CompareAndSwap
<1>7. /\ SetEx(rec, x, v, WriteTtl(r), clock) \in [Pairings -> Cells(Record)]
      /\ SetEx(rec, x, v, WriteTtl(r), clock)[x] = [val |-> v, exp |-> clock + WriteTtl(r)]
      /\ \A y \in Pairings \ {x} : SetEx(rec, x, v, WriteTtl(r), clock)[y] = rec[y]
  BY <1>1, <1>3, SetExTyped
<1> QED  BY <1>3, <1>4, <1>5, <1>6, <1>7

THEOREM InitPairing == Init => PairingInv
<1> SUFFICES ASSUME Init PROVE PairingInv  OBVIOUS
<1>1. \A x \in Pairings : rec[x] = NoEntry /\ ~Stored(x)
  BY DEF Init, NoEntry, Stored
<1>2. NoEntry \in Cells(Record) /\ NoEntry \in Cells(Pairings)  BY DEF Cells
<1>3. TypeOK
  <2>1. loc \in [Procs -> Locals]  BY BlankTyped, PairingAssumption DEF Init
  <2> QED  BY <1>2, <2>1 DEF Init, TypeOK, Pcs
<1> QED  BY <1>1, <1>3 DEF Init, PairingInv, RecordInv, HistoryInv, RequestInv, OneApproval, Winning

\* A request that returns to "idle" satisfies whatever is said of requests, and
\* takes nothing away from the others.
LEMMA FinishKeeps ==
    ASSUME PairingInv, NEW p \in Procs, Finish(p)
    PROVE  /\ pc' \in [Procs -> Pcs] /\ loc' \in [Procs -> Locals]
           /\ pc'[p] = "idle"
           /\ \A q \in Procs \ {p} : pc'[q] = pc[q] /\ loc'[q] = loc[q]
<1>1. Blank(AnyPairing) \in Locals  BY BlankTyped, PairingAssumption
<1>2. pc \in [Procs -> Pcs] /\ loc \in [Procs -> Locals]  BY DEF PairingInv, TypeOK
<1>3. pc' = [pc EXCEPT ![p] = "idle"] /\ loc' = [loc EXCEPT ![p] = Blank(AnyPairing)]
  BY DEF Finish, Goto, Set
<1> QED  BY <1>1, <1>2, <1>3 DEF Pcs

\* The requests' part of the invariant survives a step of p that leaves the
\* histories alone and takes p neither into a swap nor into winning.
LEMMA RequestKept ==
    ASSUME PairingInv, NEW p \in Procs,
           consumed' = consumed, issued' = issued, approvals \subseteq approvals',
           \A q \in Procs \ {p} : pc'[q] = pc[q] /\ loc'[q] = loc[q],
           pc'[p] \notin Winning \cup {"apCas", "coCas"}
    PROVE  RequestInv'
BY DEF PairingInv, RequestInv, Winning

\* The records' and the histories' parts survive a step that changes neither.
LEMMA StoreKept ==
    ASSUME PairingInv, UNCHANGED <<rec, started, approvals, consumed, issued, owners>>
    PROVE  RecordInv' /\ HistoryInv' /\ OneApproval' /\ (owners \subseteq approvals)'
BY DEF PairingInv, RecordInv, RecordFacts, HistoryInv, OneApproval, Stored

\* They survive a delete: an empty cell says nothing.
LEMMA DelKept ==
    ASSUME PairingInv, NEW x \in Pairings, rec' = Del(rec, x),
           UNCHANGED <<started, approvals, consumed, issued, owners>>
    PROVE  /\ rec' \in [Pairings -> Cells(Record)]
           /\ RecordInv' /\ HistoryInv' /\ OneApproval' /\ (owners \subseteq approvals)'
<1>1. /\ rec' \in [Pairings -> Cells(Record)]
      /\ rec'[x].exp = 0
      /\ \A y \in Pairings \ {x} : rec'[y] = rec[y]
  BY DelTyped DEF PairingInv, TypeOK
<1>2. RecordInv'  BY <1>1 DEF PairingInv, RecordInv, RecordFacts, Stored
<1> QED  BY <1>1, <1>2 DEF PairingInv, HistoryInv, OneApproval

-----------------------------------------------------------------------------
(* One lemma per action that writes a record or a history.                   *)

LEMMA NewKeeps ==
    ASSUME PairingInv, NEW p \in Procs, NEW x \in Pairings, New(p, x)
    PROVE  PairingInv'
<1> DEFINE r == [NoRecord EXCEPT !.exp = clock + PairingTTL]
<1>1. r \in Record /\ r.exp = clock + PairingTTL /\ r.st = "pending" /\ clock \in Nat
  BY PairingAssumption DEF PairingInv, TypeOK, Record, NoRecord
<1>0. rec' = SetEx(rec, x, r, PairingTTL, clock)  BY DEF New
<1> HIDE DEF r
<1>2. /\ rec' \in [Pairings -> Cells(Record)]
      /\ rec'[x] = [val |-> r, exp |-> clock + PairingTTL]
      /\ \A y \in Pairings \ {x} : rec'[y] = rec[y]
  <2>1. rec \in [Pairings -> Cells(Record)] /\ PairingTTL \in Nat
    BY PairingAssumption DEF PairingInv, TypeOK
  <2>2. /\ SetEx(rec, x, r, PairingTTL, clock) \in [Pairings -> Cells(Record)]
        /\ SetEx(rec, x, r, PairingTTL, clock)[x] = [val |-> r, exp |-> clock + PairingTTL]
        /\ \A y \in Pairings \ {x} : SetEx(rec, x, r, PairingTTL, clock)[y] = rec[y]
    BY <1>1, <2>1, SetExTyped
  <2> QED  BY <1>0, <2>2
<1>3. /\ pc' \in [Procs -> Pcs] /\ loc' \in [Procs -> Locals] /\ pc'[p] = "index"
      /\ \A q \in Procs \ {p} : pc'[q] = pc[q] /\ loc'[q] = loc[q]
  BY BlankTyped DEF New, Goto, Set, PairingInv, TypeOK, Pcs
<1>4. TypeOK'  BY <1>2, <1>3 DEF New, PairingInv, TypeOK, history
<1>5. RecordInv'
  <2>1. \A a \in approvals : a.pair # x  BY DEF New, PairingInv, HistoryInv
  <2>2. x \notin consumed  BY DEF New, PairingInv, HistoryInv
  <2>3. rec'[x].val = r /\ rec'[x].exp = r.exp  BY <1>1, <1>2
  <2>4. RecordFacts(x)'
    BY <1>1, <2>1, <2>2, <2>3 DEF New, RecordFacts, history
  <2>5. \A y \in Pairings \ {x} : Stored(y)' => RecordFacts(y)'
    BY <1>2 DEF New, PairingInv, RecordInv, RecordFacts, Stored, history
  <2> QED  BY <2>4, <2>5 DEF RecordInv
<1>6. HistoryInv' /\ OneApproval' /\ (owners \subseteq approvals)'
  BY DEF New, PairingInv, HistoryInv, OneApproval, history
<1>7. RequestInv'
  <2>1. pc'[p] \notin Winning \cup {"apCas", "coCas"}  BY <1>3 DEF Winning
  <2> QED  BY <1>3, <2>1, RequestKept DEF New, history
<1> QED  BY <1>4, <1>5, <1>6, <1>7 DEF PairingInv

LEMMA NewIndexKeeps ==
    ASSUME PairingInv, NEW p \in Procs, NewIndex(p)
    PROVE  PairingInv'
<1>1. loc[p].pair \in Pairings  BY DEF PairingInv, TypeOK, Locals
<1>2. Finish(p) /\ UNCHANGED <<clock, started, refused, approvals, consumed, issued, owners>>
  BY DEF NewIndex, history
<1>3. RequestInv'
  <2>1. pc'[p] \notin Winning \cup {"apCas", "coCas"}  BY <1>2, FinishKeeps DEF Winning
  <2> QED  BY <1>2, <2>1, FinishKeeps, RequestKept
<1>4. CASE /\ rec' = rec
           /\ index' = index \/ index' = SetEx(index, loc[p].pair, loc[p].pair, PairingTTL, clock)
  <2>1. index' \in [Pairings -> Cells(Pairings)]
    <3>1. index \in [Pairings -> Cells(Pairings)]  BY DEF PairingInv, TypeOK
    <3>2. SetEx(index, loc[p].pair, loc[p].pair, PairingTTL, clock) \in [Pairings -> Cells(Pairings)]
      BY <1>1, <3>1, SetExTyped, PairingAssumption DEF PairingInv, TypeOK
    <3> QED  BY <1>4, <3>1, <3>2
  <2>2. TypeOK'  BY <1>2, <1>4, <2>1, FinishKeeps DEF PairingInv, TypeOK
  <2> QED  BY <1>2, <1>3, <1>4, <2>2, StoreKept DEF PairingInv
<1>5. CASE rec' = Del(rec, loc[p].pair) /\ index' = index
  <2>1. /\ rec' \in [Pairings -> Cells(Record)]
        /\ RecordInv' /\ HistoryInv' /\ OneApproval' /\ (owners \subseteq approvals)'
    BY <1>1, <1>2, <1>5, DelKept
  <2>2. TypeOK'  BY <1>2, <1>5, <2>1, FinishKeeps DEF PairingInv, TypeOK
  <2> QED  BY <1>3, <2>1, <2>2 DEF PairingInv
<1> QED  BY <1>4, <1>5 DEF NewIndex

\* A pending record has no approval yet, so the one that is added is the only one.
LEMMA ApproveKeeps ==
    ASSUME PairingInv, NEW p \in Procs, Approve(p)
    PROVE  PairingInv'
<1> SUFFICES ASSUME NEW x, NEW r, NEW c, loc[p].pair = x, loc[p].rec = r, loc[p].acct = c
             PROVE  PairingInv'
  OBVIOUS
<1> DEFINE v == [r EXCEPT !.st = "approved", !.acct = c]
           a == [pair |-> x, acct |-> c]
<1>1. /\ pc[p] = "apCas" /\ Finish(p)
      /\ UNCHANGED <<clock, index, started, refused, consumed, issued, owners>>
  BY DEF Approve
<1>2. /\ x \in Pairings /\ r \in Record /\ r.st = "pending" /\ a \in Approvals
      /\ c \in Accounts \cup {None}
  BY <1>1 DEF PairingInv, TypeOK, RequestInv, Locals, Approvals
<1>3. v \in Record /\ v.exp = r.exp /\ v.st = "approved" /\ v.acct = c
  BY <1>2 DEF Record
<1>4. /\ pc' \in [Procs -> Pcs] /\ loc' \in [Procs -> Locals] /\ pc'[p] = "idle"
      /\ \A q \in Procs \ {p} : pc'[q] = pc[q] /\ loc'[q] = loc[q]
  BY <1>1, FinishKeeps
<1>5. pc'[p] \notin Winning \cup {"apCas", "coCas"}  BY <1>4 DEF Winning
<1>6. CASE WriteTtl(r) > 0 /\ Holds(rec, x, r, clock)
  <2>1. /\ rec' = CompareAndSwap(rec, x, r, v, WriteTtl(r), clock)
        /\ approvals' = approvals \cup {a}
    BY <1>6 DEF Approve
  <2> HIDE DEF v
  <2>2. /\ rec' \in [Pairings -> Cells(Record)]
        /\ rec'[x].val = v /\ rec'[x].exp = v.exp
        /\ \A y \in Pairings \ {x} : rec'[y] = rec[y]
        /\ Stored(x) /\ rec[x].val = r
    BY <1>2, <1>3, <1>6, <2>1, SwapFacts DEF PairingInv
  <2>3. /\ x \in started /\ x \notin consumed
        /\ \A b \in approvals : b.pair # x
    BY <1>2, <2>2 DEF PairingInv, RecordInv, RecordFacts
  <2>4. TypeOK'  BY <1>1, <1>2, <1>4, <2>1, <2>2 DEF PairingInv, TypeOK
  <2>5. RecordInv'
    <3>1. [pair |-> x, acct |-> rec'[x].val.acct] \in approvals'  BY <1>3, <2>1, <2>2
    <3>2. RecordFacts(x)'  BY <1>1, <1>3, <2>2, <2>3, <3>1 DEF RecordFacts
    <3>3. \A y \in Pairings \ {x} : Stored(y)' => RecordFacts(y)'
      BY <1>1, <2>1, <2>2 DEF PairingInv, RecordInv, RecordFacts, Stored
    <3> QED  BY <3>2, <3>3 DEF RecordInv
  <2>6. HistoryInv'  BY <1>1, <2>1, <2>3 DEF PairingInv, HistoryInv
  <2>7. OneApproval'  BY <2>1, <2>3 DEF PairingInv, OneApproval
  <2>8. RequestInv'  BY <1>1, <1>4, <1>5, <2>1, RequestKept
  <2>9. (owners \subseteq approvals)'  BY <1>1, <2>1 DEF PairingInv
  <2> QED  BY <2>4, <2>5, <2>6, <2>7, <2>8, <2>9 DEF PairingInv
<1>7. CASE ~(WriteTtl(r) > 0 /\ Holds(rec, x, r, clock))
  <2>1. UNCHANGED <<rec, approvals>>  BY <1>7 DEF Approve
  <2>2. TypeOK'  BY <1>1, <1>4, <2>1 DEF PairingInv, TypeOK
  <2>3. RequestInv'  BY <1>1, <1>4, <1>5, <2>1, RequestKept
  <2> QED  BY <1>1, <2>1, <2>2, <2>3, StoreKept DEF PairingInv
<1> QED  BY <1>6, <1>7

\* An approved record is not consumed yet, so nobody else is winning its pairing.
LEMMA ConsumeKeeps ==
    ASSUME PairingInv, NEW p \in Procs, Consume(p)
    PROVE  PairingInv'
<1> SUFFICES ASSUME NEW x, NEW r, loc[p].pair = x, loc[p].rec = r PROVE PairingInv'
  OBVIOUS
<1> DEFINE v == [r EXCEPT !.st = "consumed"]
<1>1. pc[p] = "coCas" /\ UNCHANGED <<clock, index, started, refused, approvals, issued, owners>>
  BY DEF Consume
<1>2. x \in Pairings /\ r \in Record /\ r.st = "approved"
  BY <1>1 DEF PairingInv, TypeOK, RequestInv, Locals
<1>3. v \in Record /\ v.exp = r.exp /\ v.st = "consumed"  BY <1>2 DEF Record
<1>4. CASE WriteTtl(r) > 0 /\ Holds(rec, x, r, clock)
  <2>1. /\ rec' = CompareAndSwap(rec, x, r, v, WriteTtl(r), clock)
        /\ consumed' = consumed \cup {x} /\ Goto(p, "coIndex") /\ loc' = loc
    BY <1>4 DEF Consume
  <2> HIDE DEF v
  <2>2. /\ rec' \in [Pairings -> Cells(Record)]
        /\ rec'[x].val = v /\ rec'[x].exp = v.exp
        /\ \A y \in Pairings \ {x} : rec'[y] = rec[y]
        /\ Stored(x) /\ rec[x].val = r
    BY <1>2, <1>3, <1>4, <2>1, SwapFacts DEF PairingInv
  <2>3. x \in started /\ x \notin consumed /\ [pair |-> x, acct |-> r.acct] \in approvals
    BY <1>2, <2>2 DEF PairingInv, RecordInv, RecordFacts
  <2>4. issued[x] = 0
    BY <1>2, <2>3 DEF PairingInv, TypeOK, HistoryInv
  <2>5. /\ pc' \in [Procs -> Pcs] /\ pc'[p] = "coIndex"
        /\ \A q \in Procs \ {p} : pc'[q] = pc[q]
    BY <2>1 DEF PairingInv, TypeOK, Goto, Pcs
  <2>6. TypeOK'  BY <1>1, <1>2, <2>1, <2>2, <2>5 DEF PairingInv, TypeOK
  <2>7. RecordInv'
    <3>1. RecordFacts(x)'  BY <1>1, <1>3, <2>2, <2>3 DEF RecordFacts
    <3>2. \A y \in Pairings \ {x} : Stored(y)' => RecordFacts(y)'
      BY <1>1, <2>1, <2>2 DEF PairingInv, RecordInv, RecordFacts, Stored
    <3> QED  BY <3>1, <3>2 DEF RecordInv
  <2>8. HistoryInv'  BY <1>1, <2>1, <2>3 DEF PairingInv, HistoryInv
  <2>9. RequestInv'
    <3>1. \A q \in Procs \ {p} : pc[q] \in Winning => loc[q].pair # x
      BY <2>3 DEF PairingInv, RequestInv
    <3> QED  BY <1>1, <2>1, <2>3, <2>4, <2>5, <3>1 DEF PairingInv, RequestInv, Winning
  <2> QED  BY <1>1, <2>6, <2>7, <2>8, <2>9 DEF PairingInv, OneApproval
<1>5. CASE ~(WriteTtl(r) > 0 /\ Holds(rec, x, r, clock))
  <2>1. Finish(p) /\ UNCHANGED <<rec, consumed>>  BY <1>5 DEF Consume
  <2>2. TypeOK'  BY <1>1, <2>1, FinishKeeps DEF PairingInv, TypeOK
  <2>3. RequestInv'
    <3>1. pc'[p] \notin Winning \cup {"apCas", "coCas"}  BY <2>1, FinishKeeps DEF Winning
    <3> QED  BY <1>1, <2>1, <3>1, FinishKeeps, RequestKept
  <2> QED  BY <1>1, <2>1, <2>2, <2>3, StoreKept DEF PairingInv
<1> QED  BY <1>4, <1>5

\* The winner of a pairing is its only winner, and no session was issued for it.
LEMMA CompleteIssueKeeps ==
    ASSUME PairingInv, NEW p \in Procs, CompleteIssue(p)
    PROVE  PairingInv'
<1> SUFFICES ASSUME NEW x, loc[p].pair = x PROVE PairingInv'
  OBVIOUS
<1> DEFINE o == [pair |-> x, acct |-> loc[p].rec.acct]
<1>1. /\ pc[p] = "coIssue" /\ Finish(p)
      /\ issued' = [issued EXCEPT ![x] = @ + 1] /\ owners' = owners \cup {o}
      /\ UNCHANGED <<clock, rec, index, started, refused, approvals, consumed>>
  BY DEF CompleteIssue
<1>2. /\ x \in Pairings /\ x \in consumed /\ issued[x] = 0 /\ o \in approvals
      /\ \A q \in Procs \ {p} : pc[q] \in Winning => loc[q].pair # x
  BY <1>1 DEF PairingInv, TypeOK, Locals, RequestInv, Winning
<1>3. /\ issued' \in [Pairings -> Nat] /\ issued'[x] = 1
      /\ \A y \in Pairings \ {x} : issued'[y] = issued[y]
  BY <1>1, <1>2 DEF PairingInv, TypeOK
<1>4. TypeOK'  BY <1>1, <1>2, <1>3, FinishKeeps DEF PairingInv, TypeOK
<1>5. RecordInv' /\ OneApproval' /\ (owners \subseteq approvals)'
  BY <1>1, <1>2 DEF PairingInv, RecordInv, RecordFacts, OneApproval, Stored
<1>6. HistoryInv'
  <2>1. \A y \in Pairings : issued'[y] <= 1 /\ (issued'[y] = 1 => y \in consumed')
    BY <1>1, <1>2, <1>3 DEF PairingInv, HistoryInv
  <2> QED  BY <1>1, <2>1 DEF PairingInv, HistoryInv
<1>7. RequestInv'
  <2>1. /\ pc'[p] = "idle"
        /\ \A q \in Procs \ {p} : pc'[q] = pc[q] /\ loc'[q] = loc[q]
    BY <1>1, FinishKeeps
  <2>2. \A q \in Procs \ {p} : loc[q].pair \in Pairings
    BY DEF PairingInv, TypeOK, Locals
  <2> QED  BY <1>1, <1>2, <1>3, <2>1, <2>2 DEF PairingInv, RequestInv, Winning
<1> QED  BY <1>4, <1>5, <1>6, <1>7 DEF PairingInv

LEMMA CancelRecordKeeps ==
    ASSUME PairingInv, NEW p \in Procs, CancelRecord(p)
    PROVE  PairingInv'
<1>1. /\ loc[p].pair \in Pairings
      /\ rec' = Del(rec, loc[p].pair) \/ rec' = rec
      /\ UNCHANGED <<clock, index, started, refused, loc, approvals, consumed, issued, owners>>
  BY DEF CancelRecord, history, PairingInv, TypeOK, Locals
<1>2. /\ rec' \in [Pairings -> Cells(Record)]
      /\ RecordInv' /\ HistoryInv' /\ OneApproval' /\ (owners \subseteq approvals)'
  <2>1. CASE rec' = Del(rec, loc[p].pair)  BY <1>1, <2>1, DelKept
  <2>2. CASE rec' = rec  BY <1>1, <2>2, StoreKept DEF PairingInv, TypeOK
  <2> QED  BY <1>1, <2>1, <2>2
<1>3. /\ pc' \in [Procs -> Pcs] /\ pc'[p] = "caIndex"
      /\ \A q \in Procs \ {p} : pc'[q] = pc[q]
  BY DEF CancelRecord, Goto, PairingInv, TypeOK, Pcs
<1>4. TypeOK'  BY <1>1, <1>2, <1>3 DEF PairingInv, TypeOK
<1>5. RequestInv'
  <2>1. pc'[p] \notin Winning \cup {"apCas", "coCas"}  BY <1>3 DEF Winning
  <2> QED  BY <1>1, <1>3, <2>1, RequestKept
<1> QED  BY <1>2, <1>4, <1>5 DEF PairingInv

-----------------------------------------------------------------------------
(* The actions that only read records, or only touch the code index.         *)

LEMMA IndexWritesKeep ==
    ASSUME PairingInv, NEW p \in Procs, ConsumeIndex(p) \/ CancelIndex(p)
    PROVE  PairingInv'
<1>1. loc[p].pair \in Pairings  BY DEF PairingInv, TypeOK, Locals
<1>2. index' \in [Pairings -> Cells(Pairings)]
  BY <1>1, DelTyped DEF ConsumeIndex, CancelIndex, PairingInv, TypeOK
<1>3. UNCHANGED <<clock, rec, started, refused, approvals, consumed, issued, owners>>
  BY DEF ConsumeIndex, CancelIndex, history
<1>4. RecordInv' /\ HistoryInv' /\ OneApproval' /\ (owners \subseteq approvals)'
  BY <1>3, StoreKept
<1>5. CASE ConsumeIndex(p)
  <2>1. /\ pc[p] = "coIndex" /\ pc'[p] = "coAccount" /\ pc' \in [Procs -> Pcs] /\ loc' = loc
        /\ \A q \in Procs \ {p} : pc'[q] = pc[q]
    BY <1>5 DEF ConsumeIndex, Goto, PairingInv, TypeOK, Pcs
  <2>2. TypeOK'  BY <1>2, <1>3, <2>1 DEF PairingInv, TypeOK
  <2>3. RequestInv'  BY <1>3, <2>1 DEF PairingInv, RequestInv, Winning
  <2> QED  BY <1>4, <2>2, <2>3 DEF PairingInv
<1>6. CASE CancelIndex(p)
  <2>1. Finish(p)  BY <1>6 DEF CancelIndex
  <2>2. TypeOK'  BY <1>2, <1>3, <2>1, FinishKeeps DEF PairingInv, TypeOK
  <2>3. pc'[p] \notin Winning \cup {"apCas", "coCas"}  BY <2>1, FinishKeeps DEF Winning
  <2>4. RequestInv'  BY <1>3, <2>1, <2>3, FinishKeeps, RequestKept
  <2> QED  BY <1>4, <2>2, <2>4 DEF PairingInv
<1> QED  BY <1>5, <1>6

LEMMA ReadsKeep ==
    ASSUME PairingInv, NEW p \in Procs, NEW x \in Pairings,
           \/ \E a \in Accounts : LookupByCode(p, x, a, "apGet") \/ LookupByCode(p, x, a, "caGet")
           \/ ConsumeGet(p, x) \/ ApproveGet(p) \/ CompleteAccount(p) \/ CancelGet(p) \/ Abort(p)
    PROVE  PairingInv'
<1>1. UNCHANGED <<clock, rec, index, started, refused, approvals, consumed, issued, owners>>
  BY DEF LookupByCode, ConsumeGet, ApproveGet, CompleteAccount, CancelGet, Abort, history
<1>2. RecordInv' /\ HistoryInv' /\ OneApproval' /\ (owners \subseteq approvals)'
  BY <1>1, StoreKept
<1>3. ASSUME pc' \in [Procs -> Pcs], loc' \in [Procs -> Locals], RequestInv'
      PROVE  PairingInv'
  <2>1. TypeOK'  BY <1>1, <1>3 DEF PairingInv, TypeOK
  <2> QED  BY <1>2, <1>3, <2>1 DEF PairingInv
<1>4. ASSUME Finish(p) PROVE PairingInv'
  <2>1. pc'[p] \notin Winning \cup {"apCas", "coCas"}  BY <1>4, FinishKeeps DEF Winning
  <2> QED  BY <1>1, <1>3, <1>4, <2>1, FinishKeeps, RequestKept
<1>5. pc \in [Procs -> Pcs] /\ loc \in [Procs -> Locals] /\ RequestInv
  BY DEF PairingInv, TypeOK
<1>6. ASSUME NEW a \in Accounts, LookupByCode(p, x, a, "apGet") \/ LookupByCode(p, x, a, "caGet")
      PROVE  PairingInv'
  <2>1. [Blank(x) EXCEPT !.acct = a] \in Locals  BY BlankTyped DEF Locals
  <2>2. /\ pc' \in [Procs -> Pcs] /\ loc' \in [Procs -> Locals]
        /\ pc'[p] \in {"apGet", "caGet"}
        /\ \A q \in Procs \ {p} : pc'[q] = pc[q] /\ loc'[q] = loc[q]
    BY <1>5, <1>6, <2>1 DEF LookupByCode, Goto, Set, Pcs
  <2>3. pc'[p] \notin Winning \cup {"apCas", "coCas"}  BY <2>2 DEF Winning
  <2> QED  BY <1>1, <1>3, <2>2, <2>3, RequestKept
<1>7. CASE ConsumeGet(p, x)
  <2>1. rec[x].val \in Record /\ rec[x].val.st = "approved"
    BY <1>7, FoundTyped DEF ConsumeGet, PairingInv, TypeOK
  <2> DEFINE l == [Blank(x) EXCEPT !.rec = rec[x].val]
  <2>2. l \in Locals /\ l.rec.st = "approved"  BY <2>1, BlankTyped DEF Locals
  <2>3. pc' = [pc EXCEPT ![p] = "coCas"] /\ loc' = [loc EXCEPT ![p] = l]
    BY <1>7 DEF ConsumeGet, Goto, Set
  <2> HIDE DEF l
  <2>4. /\ pc' \in [Procs -> Pcs] /\ loc' \in [Procs -> Locals]
        /\ pc'[p] = "coCas" /\ loc'[p].rec.st = "approved"
        /\ \A q \in Procs \ {p} : pc'[q] = pc[q] /\ loc'[q] = loc[q]
    BY <1>5, <2>2, <2>3 DEF Pcs
  <2>5. RequestInv'  BY <1>1, <1>5, <2>4 DEF RequestInv, Winning
  <2> QED  BY <1>3, <2>4, <2>5
<1>8. CASE ApproveGet(p)
  <2> DEFINE y == loc[p].pair
             l == [loc[p] EXCEPT !.rec = rec[y].val]
  <2>1. CASE Found(rec, y, clock) /\ rec[y].val.st = "pending"
    <3>1. y \in Pairings  BY <1>5 DEF Locals
    <3>2. rec[y].val \in Record  BY <2>1, <3>1, FoundTyped DEF PairingInv, TypeOK
    <3>3. l \in Locals /\ l.rec.st = "pending"  BY <1>5, <2>1, <3>2 DEF Locals
    <3>4. pc' = [pc EXCEPT ![p] = "apCas"] /\ loc' = [loc EXCEPT ![p] = l]
      BY <1>8, <2>1 DEF ApproveGet, Goto, Set
    <3> HIDE DEF l
    <3>5. /\ pc' \in [Procs -> Pcs] /\ loc' \in [Procs -> Locals]
          /\ pc'[p] = "apCas" /\ loc'[p].rec.st = "pending"
          /\ \A q \in Procs \ {p} : pc'[q] = pc[q] /\ loc'[q] = loc[q]
      BY <1>5, <3>3, <3>4 DEF Pcs
    <3>6. RequestInv'  BY <1>1, <1>5, <3>5 DEF RequestInv, Winning
    <3> QED  BY <1>3, <3>5, <3>6
  <2>2. CASE ~(Found(rec, y, clock) /\ rec[y].val.st = "pending")
    BY <1>4, <1>8, <2>2 DEF ApproveGet
  <2> QED  BY <2>1, <2>2
<1>9. CASE CompleteAccount(p)
  <2>1. CASE ~Finish(p)
    <3>1. /\ pc[p] = "coAccount" /\ pc' \in [Procs -> Pcs] /\ loc' = loc
          /\ pc'[p] = "coIssue" /\ \A q \in Procs \ {p} : pc'[q] = pc[q]
      BY <1>5, <1>9, <2>1 DEF CompleteAccount, Goto, Pcs
    <3>2. RequestInv'  BY <1>1, <1>5, <3>1 DEF RequestInv, Winning
    <3> QED  BY <1>3, <1>5, <3>1, <3>2
  <2> QED  BY <1>4, <2>1
<1>10. CASE CancelGet(p)
  <2>1. CASE ~Finish(p)
    <3>1. /\ pc' \in [Procs -> Pcs] /\ loc' = loc
          /\ pc'[p] = "caRecord" /\ \A q \in Procs \ {p} : pc'[q] = pc[q]
      BY <1>5, <1>10, <2>1 DEF CancelGet, Goto, Pcs
    <3>2. pc'[p] \notin Winning \cup {"apCas", "coCas"}  BY <3>1 DEF Winning
    <3> QED  BY <1>1, <1>3, <1>5, <3>1, <3>2, RequestKept
  <2> QED  BY <1>4, <2>1
<1>11. CASE Abort(p)  BY <1>4, <1>11 DEF Abort
<1> QED  BY <1>6, <1>7, <1>8, <1>9, <1>10, <1>11

-----------------------------------------------------------------------------

LEMMA EnvironmentKeeps ==
    ASSUME PairingInv, Tick \/ (\E a \in Accounts : Toggle(a)) \/ UNCHANGED vars
    PROVE  PairingInv'
<1>1. UNCHANGED <<rec, index, started, pc, loc, approvals, consumed, issued, owners>>
  BY DEF Tick, Toggle, vars, history
<1>2. clock' \in Nat /\ refused' \subseteq Accounts
  BY DEF Tick, Toggle, vars, history, PairingInv, TypeOK
<1>3. TypeOK'  BY <1>1, <1>2 DEF PairingInv, TypeOK
<1>4. RequestInv'  BY <1>1 DEF PairingInv, RequestInv
<1> QED  BY <1>1, <1>3, <1>4, StoreKept DEF PairingInv

\* Every step of every operation preserves the invariant.
THEOREM NextPairing == PairingInv /\ [Next]_vars => PairingInv'
<1> SUFFICES ASSUME PairingInv, [Next]_vars PROVE PairingInv'  OBVIOUS
<1>1. PICK w \in Pairings : TRUE  BY PairingAssumption
<1>2. ASSUME NEW p \in Procs, Device(p) PROVE PairingInv'
  <2>1. ASSUME NEW x \in Pairings, New(p, x) PROVE PairingInv'  BY <2>1, NewKeeps
  <2>2. ASSUME NEW x \in Pairings, ConsumeGet(p, x) PROVE PairingInv'  BY <2>2, ReadsKeep
  <2>3. CASE NewIndex(p)  BY <2>3, NewIndexKeeps
  <2>4. CASE Consume(p)  BY <2>4, ConsumeKeeps
  <2>5. CASE ConsumeIndex(p)  BY <2>5, IndexWritesKeep
  <2>6. CASE CompleteAccount(p)  BY <1>1, <2>6, ReadsKeep
  <2>7. CASE CompleteIssue(p)  BY <2>7, CompleteIssueKeeps
  <2> QED  BY <1>2, <2>1, <2>2, <2>3, <2>4, <2>5, <2>6, <2>7 DEF Device
<1>3. ASSUME NEW p \in Procs, User(p) PROVE PairingInv'
  <2>1. ASSUME NEW x \in Pairings, NEW a \in Accounts,
               LookupByCode(p, x, a, "apGet") \/ LookupByCode(p, x, a, "caGet")
        PROVE  PairingInv'
    BY <2>1, ReadsKeep
  <2>2. CASE ApproveGet(p) \/ CancelGet(p)  BY <1>1, <2>2, ReadsKeep
  <2>3. CASE Approve(p)  BY <2>3, ApproveKeeps
  <2>4. CASE CancelRecord(p)  BY <2>4, CancelRecordKeeps
  <2>5. CASE CancelIndex(p)  BY <2>5, IndexWritesKeep
  <2> QED  BY <1>3, <2>1, <2>2, <2>3, <2>4, <2>5 DEF User
<1>4. ASSUME NEW p \in Procs, Abort(p) PROVE PairingInv'  BY <1>1, <1>4, ReadsKeep
<1>5. CASE Tick \/ (\E a \in Accounts : Toggle(a)) \/ UNCHANGED vars  BY <1>5, EnvironmentKeeps
<1> QED  BY <1>2, <1>3, <1>4, <1>5 DEF Next

-----------------------------------------------------------------------------
(* The results.                                                              *)

\* The invariant holds throughout every behaviour of the pairing operations.
THEOREM AlwaysPairingInv == Spec => []PairingInv
BY InitPairing, NextPairing, PTL DEF Spec

\* Records, index and local variables keep their types (pairing.go).
THEOREM PairingTypes == Spec => []TypeOK
<1>1. PairingInv => TypeOK  BY DEF PairingInv
<1> QED  BY <1>1, AlwaysPairingInv, PTL

\* However many approvals race, one account gets the pairing (pairing.go, Approve).
THEOREM PairingOneApproval == Spec => []OneApproval
<1>1. PairingInv => OneApproval  BY DEF PairingInv
<1> QED  BY <1>1, AlwaysPairingInv, PTL

\* A pairing yields at most one session, of the account that approved it
\* (pairing.go, Consume; handle_pairing.go, handlePairCompleteHTTP).
THEOREM PairingOneSession == Spec => []OneSession
<1>1. PairingInv => OneSession  BY DEF PairingInv, HistoryInv, OneSession
<1> QED  BY <1>1, AlwaysPairingInv, PTL

\* A consumed pairing is never pending or approved again (pairing.go, Consume).
THEOREM PairingConsumedIsFinal == Spec => []ConsumedIsFinal
<1>1. PairingInv => ConsumedIsFinal
  <2> SUFFICES ASSUME PairingInv, NEW x \in consumed, Found(rec, x, clock)
               PROVE  rec[x].val.st = "consumed"
    BY DEF ConsumedIsFinal
  <2>1. x \in Pairings /\ Stored(x)
    BY FoundTyped DEF PairingInv, TypeOK, Stored
  <2> QED  BY <2>1 DEF PairingInv, RecordInv, RecordFacts
<1> QED  BY <1>1, AlwaysPairingInv, PTL

\* No operation keeps a pairing beyond the deadline it was created with
\* (pairing.go, put).
THEOREM PairingNeverExtended == Spec => []NeverExtended
<1>1. PairingInv => NeverExtended
  <2> SUFFICES ASSUME PairingInv, NEW x \in Pairings, Found(rec, x, clock)
               PROVE  rec[x].exp = rec[x].val.exp
    BY DEF NeverExtended
  <2>1. Stored(x)  BY FoundTyped DEF PairingInv, TypeOK, Stored
  <2> QED  BY <2>1 DEF PairingInv, RecordInv, RecordFacts
<1> QED  BY <1>1, AlwaysPairingInv, PTL
=============================================================================
