-------------------------------- MODULE Kv --------------------------------
(***************************************************************************)
(* The key-value store of pkg/kv, as pure operators.  A store is a         *)
(* function from keys to cells; a cell holds a value and the instant at    *)
(* which it expires.  Both backends serialize every mutator (the mutex of  *)
(* MemoryStore, one Lua script of RedisStore), so each operator is one     *)
(* atomic step of whoever uses it.  An expired cell counts as absent.      *)
(***************************************************************************)
EXTENDS Naturals

\* A cell with nothing in it: no instant is before its expiry.
NoEntry == [exp |-> 0]

Entry(v, e) == [val |-> v, exp |-> e]

\* The cells that can hold a value of V.
Cells(V) == {NoEntry} \cup [val : V, exp : Nat]

\* Get finds a value exactly when the cell has not expired.
Found(s, k, now) == now < s[k].exp

\* The cell holds v, byte for byte, at instant now.
Holds(s, k, v, now) == Found(s, k, now) /\ s[k].val = v

SetEx(s, k, v, ttl, now) == [s EXCEPT ![k] = Entry(v, now + ttl)]

Del(s, k) == [s EXCEPT ![k] = NoEntry]

CompareAndDelete(s, k, v, now) == IF Holds(s, k, v, now) THEN Del(s, k) ELSE s

CompareAndSwap(s, k, old, new, ttl, now) ==
    IF Holds(s, k, old, now) THEN SetEx(s, k, new, ttl, now) ELSE s

\* Mutated forms of FencedCompareAndSwap: without the compare, without the fence.
FencedSetEx(fence, f, owner, s, k, old, new, ttl, now) ==
    IF Holds(fence, f, owner, now) THEN SetEx(s, k, new, ttl, now) ELSE s

\* Replace key k of s only while key f of store fence is owned by owner.
FencedCompareAndSwap(fence, f, owner, s, k, old, new, ttl, now) ==
    IF Holds(fence, f, owner, now) /\ Holds(s, k, old, now)
    THEN SetEx(s, k, new, ttl, now)
    ELSE s

\* The keys a scan returns: those of K that have not expired.
ScanKeys(s, K, now) == {k \in K : Found(s, k, now)}
===========================================================================
