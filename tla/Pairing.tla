------------------------------- MODULE Pairing -------------------------------
(***************************************************************************)
(* Device pairing (pkg/credential/pairing, pkg/server/handle_pairing.go).  *)
(* A new device starts a pairing and shows its code; a signed-in user      *)
(* approves the code; the device completes the pairing and gets a session  *)
(* of the approving account.  A pairing is a KV record under its id and an *)
(* index entry under its code; id and code belong together, so both are    *)
(* keyed by the pairing here.  Requests interleave at every KV call; the   *)
(* remaining lifetime a write passes is computed at the instant of the     *)
(* write.                                                                  *)
(***************************************************************************)
EXTENDS Integers, Kv

CONSTANTS
    Procs,        \* concurrently served requests
    Pairings,     \* pairings, each generated once
    Accounts,     \* accounts of the approving users
    None,         \* no account yet
    PairingTTL,
    Operations,   \* operations performed in this instance
    MaxClock      \* bound of the explored instance

ASSUME PairingAssumption ==
    /\ None \notin Accounts /\ Pairings # {}
    /\ PairingTTL \in Nat \ {0} /\ MaxClock \in Nat

VARIABLES
    clock,
    rec,        \* pairing:id:<id>, per pairing
    index,      \* pairing:code:<code>, per pairing; the value is the id
    started,    \* pairings generated so far
    refused,    \* accounts that cannot sign in: disabled or locked out
    pc, loc,    \* control state and local variables of each request
    approvals,  \* history: successful approvals, with the approving account
    consumed,   \* history: pairings whose consumption won its swap
    issued,     \* history: number of sessions issued, per pairing
    owners      \* history: the accounts those sessions belong to

vars == <<clock, rec, index, started, refused, pc, loc, approvals, consumed,
          issued, owners>>
history == <<approvals, consumed, issued, owners>>

\* Pairing: its status, the account it was approved for, its fixed deadline.
Record == [st : {"pending", "approved", "consumed"}, acct : Accounts \cup {None}, exp : Nat]
NoRecord == [st |-> "pending", acct |-> None, exp |-> 0]

Blank(x) == [pair |-> x, acct |-> None, rec |-> NoRecord]
AnyPairing == CHOOSE x \in Pairings : TRUE

Pcs == {"idle", "index", "apGet", "apCas", "coCas", "coIndex", "coAccount", "coIssue",
        "caGet", "caRecord", "caIndex"}

Goto(p, label) == pc' = [pc EXCEPT ![p] = label]
Set(p, l) == loc' = [loc EXCEPT ![p] = l]
Finish(p) == Goto(p, "idle") /\ Set(p, Blank(AnyPairing))

Init ==
    /\ clock = 0
    /\ rec = [x \in Pairings |-> NoEntry] /\ index = [x \in Pairings |-> NoEntry]
    /\ started = {} /\ refused = {}
    /\ pc = [p \in Procs |-> "idle"] /\ loc = [p \in Procs |-> Blank(AnyPairing)]
    /\ approvals = {} /\ consumed = {} /\ issued = [x \in Pairings |-> 0] /\ owners = {}

-----------------------------------------------------------------------------
(* New: the record, then the code index; when that fails the record goes,    *)
(* best effort.                                                              *)

New(p, x) ==
    /\ pc[p] = "idle" /\ x \notin started
    /\ started' = started \cup {x}
    /\ rec' = SetEx(rec, x, [NoRecord EXCEPT !.exp = clock + PairingTTL], PairingTTL, clock)
    /\ Goto(p, "index") /\ Set(p, Blank(x))
    /\ UNCHANGED <<clock, index, refused, history>>

NewIndex(p) ==
    /\ pc[p] = "index"
    /\ \/ /\ index' = SetEx(index, loc[p].pair, loc[p].pair, PairingTTL, clock)
          /\ rec' = rec
       \/ /\ "kvFail" \in Operations
          /\ rec' = Del(rec, loc[p].pair) \/ rec' = rec
          /\ index' = index
    /\ Finish(p)
    /\ UNCHANGED <<clock, started, refused, history>>

-----------------------------------------------------------------------------
(* handlePairApproveHTTP: LookupByCode, then Approve.                        *)

LookupByCode(p, x, a, label) ==
    /\ pc[p] = "idle" /\ Found(index, x, clock)
    /\ Set(p, [Blank(x) EXCEPT !.acct = a])
    /\ Goto(p, label)
    /\ UNCHANGED <<clock, rec, index, started, refused, history>>

\* GetByID; a pairing that is not pending is refused, or already ours.
ApproveGet(p) ==
    /\ pc[p] = "apGet"
    /\ LET x == loc[p].pair
       IN  IF Found(rec, x, clock) /\ rec[x].val.st = "pending"
           THEN Goto(p, "apCas") /\ Set(p, [loc[p] EXCEPT !.rec = rec[x].val])
           ELSE Finish(p)
    /\ UNCHANGED <<clock, rec, index, started, refused, history>>

\* The write of Approve and of Consume keeps the deadline of the record.
WriteTtl(r) == r.exp - clock

\* Approve without the compare.
ApproveBlind(p) ==
    /\ pc[p] = "apCas"
    /\ LET x == loc[p].pair
           r == loc[p].rec
       IN  IF WriteTtl(r) > 0
           THEN /\ rec' = SetEx(rec, x, [r EXCEPT !.st = "approved", !.acct = loc[p].acct],
                                WriteTtl(r), clock)
                /\ approvals' = approvals \cup {[pair |-> x, acct |-> loc[p].acct]}
           ELSE UNCHANGED <<rec, approvals>>
    /\ Finish(p)
    /\ UNCHANGED <<clock, index, started, refused, consumed, issued, owners>>

\* The pending bytes that were read are swapped for the approved ones.
Approve(p) ==
    /\ pc[p] = "apCas"
    /\ LET x == loc[p].pair
           r == loc[p].rec
       IN  IF WriteTtl(r) > 0 /\ Holds(rec, x, r, clock)
           THEN /\ rec' = CompareAndSwap(rec, x, r,
                                [r EXCEPT !.st = "approved", !.acct = loc[p].acct],
                                WriteTtl(r), clock)
                /\ approvals' = approvals \cup {[pair |-> x, acct |-> loc[p].acct]}
           ELSE UNCHANGED <<rec, approvals>>
    /\ Finish(p)
    /\ UNCHANGED <<clock, index, started, refused, consumed, issued, owners>>

-----------------------------------------------------------------------------
(* handlePairCompleteHTTP: Consume, then the account, then the session.      *)

ConsumeGet(p, x) ==
    /\ pc[p] = "idle" /\ Found(rec, x, clock) /\ rec[x].val.st = "approved"
    /\ Set(p, [Blank(x) EXCEPT !.rec = rec[x].val])
    /\ Goto(p, "coCas")
    /\ UNCHANGED <<clock, rec, index, started, refused, history>>

\* Consume without the compare: everybody who read "approved" wins.
ConsumeBlind(p) ==
    /\ pc[p] = "coCas"
    /\ LET x == loc[p].pair
           r == loc[p].rec
       IN  IF WriteTtl(r) > 0
           THEN /\ rec' = SetEx(rec, x, [r EXCEPT !.st = "consumed"], WriteTtl(r), clock)
                /\ consumed' = consumed \cup {x}
                /\ Goto(p, "coIndex") /\ loc' = loc
           ELSE Finish(p) /\ UNCHANGED <<rec, consumed>>
    /\ UNCHANGED <<clock, index, started, refused, approvals, issued, owners>>

\* The approved bytes that were read are swapped for the consumed marker.
Consume(p) ==
    /\ pc[p] = "coCas"
    /\ LET x == loc[p].pair
           r == loc[p].rec
       IN  IF WriteTtl(r) > 0 /\ Holds(rec, x, r, clock)
           THEN /\ rec' = CompareAndSwap(rec, x, r, [r EXCEPT !.st = "consumed"],
                                         WriteTtl(r), clock)
                /\ consumed' = consumed \cup {x}
                /\ Goto(p, "coIndex") /\ loc' = loc
           ELSE Finish(p) /\ UNCHANGED <<rec, consumed>>
    /\ UNCHANGED <<clock, index, started, refused, approvals, issued, owners>>

\* The winner drops the code index, best effort.
ConsumeIndex(p) ==
    /\ pc[p] = "coIndex"
    /\ \/ index' = Del(index, loc[p].pair)
       \/ "kvFail" \in Operations /\ index' = index
    /\ Goto(p, "coAccount")
    /\ UNCHANGED <<clock, rec, started, refused, loc, history>>

CompleteAccount(p) ==
    /\ pc[p] = "coAccount"
    /\ IF loc[p].rec.acct \in refused THEN Finish(p) ELSE Goto(p, "coIssue") /\ loc' = loc
    /\ UNCHANGED <<clock, rec, index, started, refused, history>>

CompleteIssue(p) ==
    /\ pc[p] = "coIssue"
    /\ issued' = [issued EXCEPT ![loc[p].pair] = @ + 1]
    /\ owners' = owners \cup {[pair |-> loc[p].pair, acct |-> loc[p].rec.acct]}
    /\ Finish(p)
    /\ UNCHANGED <<clock, rec, index, started, refused, approvals, consumed>>

-----------------------------------------------------------------------------
(* handlePairCancelHTTP: LookupByCode, then two unconditional deletes whose  *)
(* errors are dropped.                                                       *)

CancelGet(p) ==
    /\ pc[p] = "caGet"
    /\ LET x == loc[p].pair
           r == rec[x].val
       IN  IF Found(rec, x, clock) /\ (r.st = "approved" => r.acct = loc[p].acct)
           THEN Goto(p, "caRecord") /\ loc' = loc
           ELSE Finish(p)
    /\ UNCHANGED <<clock, rec, index, started, refused, history>>

CancelRecord(p) ==
    /\ pc[p] = "caRecord"
    /\ \/ rec' = Del(rec, loc[p].pair)
       \/ "kvFail" \in Operations /\ rec' = rec
    /\ Goto(p, "caIndex")
    /\ UNCHANGED <<clock, index, started, refused, loc, history>>

CancelIndex(p) ==
    /\ pc[p] = "caIndex"
    /\ \/ index' = Del(index, loc[p].pair)
       \/ "kvFail" \in Operations /\ index' = index
    /\ Finish(p)
    /\ UNCHANGED <<clock, rec, started, refused, history>>

-----------------------------------------------------------------------------
(* The environment                                                           *)

\* An account is disabled or enabled, maintenance begins or ends.
Toggle(a) ==
    /\ "toggle" \in Operations
    /\ refused' = IF a \in refused THEN refused \ {a} ELSE refused \cup {a}
    /\ UNCHANGED <<clock, rec, index, started, pc, loc, history>>

\* A backend error ends the request, or the process dies.
Abort(p) ==
    /\ pc[p] # "idle" /\ "abort" \in Operations
    /\ Finish(p)
    /\ UNCHANGED <<clock, rec, index, started, refused, history>>

Tick ==
    /\ clock < MaxClock
    /\ clock' = clock + 1
    /\ UNCHANGED <<rec, index, started, refused, pc, loc, history>>

Device(p) ==
    \/ \E x \in Pairings : New(p, x) \/ ConsumeGet(p, x)
    \/ NewIndex(p) \/ Consume(p) \/ ConsumeIndex(p) \/ CompleteAccount(p) \/ CompleteIssue(p)

User(p) ==
    \/ \E x \in Pairings, a \in Accounts :
        LookupByCode(p, x, a, "apGet") \/ LookupByCode(p, x, a, "caGet")
    \/ ApproveGet(p) \/ Approve(p)
    \/ CancelGet(p) \/ CancelRecord(p) \/ CancelIndex(p)

Next ==
    \/ \E p \in Procs : Device(p) \/ User(p) \/ Abort(p)
    \/ \E a \in Accounts : Toggle(a)
    \/ Tick

Spec == Init /\ [][Next]_vars

-----------------------------------------------------------------------------
(* Properties                                                                *)

Locals == [pair : Pairings, acct : Accounts \cup {None}, rec : Record]
Approvals == [pair : Pairings, acct : Accounts \cup {None}]

\* The values the pairing records, the code index and a request's local
\* variables range over.
TypeOK ==
    /\ clock \in Nat
    /\ rec \in [Pairings -> Cells(Record)] /\ index \in [Pairings -> Cells(Pairings)]
    /\ started \subseteq Pairings /\ refused \subseteq Accounts
    /\ pc \in [Procs -> Pcs] /\ loc \in [Procs -> Locals]
    /\ approvals \subseteq Approvals /\ consumed \subseteq Pairings
    /\ issued \in [Pairings -> Nat] /\ owners \subseteq Approvals

\* However approvals race, one account gets the pairing (pairing.go, Approve:
\* "exactly one caller's CAS matches the pending bytes and wins").
OneApproval ==
    \A a, b \in approvals : a.pair = b.pair => a = b

\* A pairing is redeemed by at most one request, for one session, and that
\* session belongs to the account that approved it (pairing.go, Consume;
\* handle_pairing.go, handlePairCompleteHTTP).
OneSession ==
    /\ \A x \in Pairings : issued[x] <= 1
    /\ owners \subseteq approvals

\* A consumed pairing is never pending or approved again, whoever approved,
\* cancelled or completed it at the same time (pairing.go, Consume: "prevent
\* resurrection").
ConsumedIsFinal ==
    \A x \in consumed : Found(rec, x, clock) => rec[x].val.st = "consumed"

\* No operation keeps a pairing beyond the deadline it was created with
\* (pairing.go, put: "never extend it on update").
NeverExtended ==
    \A x \in Pairings : Found(rec, x, clock) => rec[x].exp = rec[x].val.exp
=============================================================================
