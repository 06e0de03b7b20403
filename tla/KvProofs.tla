------------------------------ MODULE KvProofs ------------------------------
(***************************************************************************)
(* What the operators of Kv return: the lemmas the proofs about the stores *)
(* built on them cite.  (And the least of a set of numbers, for names that *)
(* are handed out in order.)                                               *)
(***************************************************************************)
EXTENDS Kv, WellFoundedInduction, TLAPS

\* A cell that is found has a value of its type and a positive expiry.
LEMMA FoundTyped ==
    ASSUME NEW K, NEW V, NEW s \in [K -> Cells(V)], NEW k \in K, NEW now \in Nat,
           Found(s, k, now)
    PROVE  s[k].val \in V /\ s[k].exp \in Nat /\ now < s[k].exp
<1>1. s[k] # NoEntry  BY DEF Found, NoEntry
<1>2. s[k] \in [val : V, exp : Nat]  BY <1>1 DEF Cells
<1> QED  BY <1>2 DEF Found

\* SetEx writes one cell and keeps the store typed.
LEMMA SetExTyped ==
    ASSUME NEW K, NEW V, NEW s \in [K -> Cells(V)], NEW k \in K, NEW v \in V,
           NEW ttl \in Nat, NEW now \in Nat
    PROVE  /\ SetEx(s, k, v, ttl, now) \in [K -> Cells(V)]
           /\ SetEx(s, k, v, ttl, now)[k] = [val |-> v, exp |-> now + ttl]
           /\ \A j \in K \ {k} : SetEx(s, k, v, ttl, now)[j] = s[j]
<1>1. [val |-> v, exp |-> now + ttl] \in Cells(V)  BY DEF Cells
<1> QED  BY <1>1 DEF SetEx, Entry

\* Del empties one cell.
LEMMA DelTyped ==
    ASSUME NEW K, NEW V, NEW s \in [K -> Cells(V)], NEW k \in K
    PROVE  /\ Del(s, k) \in [K -> Cells(V)]
           /\ Del(s, k)[k] = NoEntry /\ NoEntry.exp = 0
           /\ \A j \in K \ {k} : Del(s, k)[j] = s[j]
<1>1. NoEntry \in Cells(V)  BY DEF Cells
<1>2. NoEntry.exp = 0  BY DEF NoEntry
<1> QED  BY <1>1, <1>2 DEF Del

\* The compare-and-swap, the fenced one and the compare-and-delete keep a store
\* typed, whether or not they take effect.
LEMMA CompareAndSwapTyped ==
    ASSUME NEW K, NEW V, NEW s \in [K -> Cells(V)], NEW k \in K, NEW old, NEW v \in V,
           NEW ttl \in Nat, NEW now \in Nat
    PROVE  CompareAndSwap(s, k, old, v, ttl, now) \in [K -> Cells(V)]
BY SetExTyped DEF CompareAndSwap

LEMMA FencedCompareAndSwapTyped ==
    ASSUME NEW K, NEW V, NEW s \in [K -> Cells(V)], NEW k \in K, NEW old, NEW v \in V,
           NEW ttl \in Nat, NEW now \in Nat, NEW fence, NEW f, NEW owner
    PROVE  FencedCompareAndSwap(fence, f, owner, s, k, old, v, ttl, now) \in [K -> Cells(V)]
BY SetExTyped DEF FencedCompareAndSwap

LEMMA CompareAndDeleteTyped ==
    ASSUME NEW K, NEW V, NEW s \in [K -> Cells(V)], NEW k \in K, NEW v, NEW now \in Nat
    PROVE  CompareAndDelete(s, k, v, now) \in [K -> Cells(V)]
BY DelTyped DEF CompareAndDelete

\* Numbers are well-founded: a set of them has a least one.
Below == {y \in Nat \X Nat : y[1] < y[2]}

LEMMA LeastNat ==
    ASSUME NEW S, S \subseteq Nat, S # {}
    PROVE  \E s \in S : \A t \in S : s <= t
<1>1. IsWellFoundedOn(Below, Nat)  BY NatLessThanWellFounded DEF OpToRel, Below
<1>2. \E s \in S : \A t \in S : <<t, s>> \notin Below
  <2> HIDE DEF Below
  <2> QED  BY <1>1, WFMin
<1>3. PICK s \in S : \A t \in S : <<t, s>> \notin Below  BY <1>2
<1>4. ASSUME NEW t \in S  PROVE s <= t
  <2>1. <<t, s>> \in Nat \X Nat /\ <<t, s>>[1] = t /\ <<t, s>>[2] = s  OBVIOUS
  <2>2. ~(t < s)  BY <1>3, <2>1, Zenon DEF Below
  <2> QED  BY <2>2
<1> QED  BY <1>4
=============================================================================
