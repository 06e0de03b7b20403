-------------------------------- MODULE Desk --------------------------------
(***************************************************************************)
(* The frame of the services beside the identity core: listings, the       *)
(* upstream operator session, pictures, settings, diagnostics.  A handler  *)
(* is a sequence of steps of a request (pc, loc), one SQL statement, KV    *)
(* call, mutex-protected section or call of a remote service each.  A      *)
(* behaviour performs the operations of one mix.                           *)
(***************************************************************************)
EXTENDS Integers, FiniteSets, Sequences, SequencesExt, Kv

CONSTANTS
    Procs,     \* concurrently served requests
    None,      \* no cursor, session, picture...
    Mixes,     \* sets of operations: a behaviour performs those of one mix
    MaxClock   \* bound of the explored instance

ASSUME DeskAssumption == None \notin Procs

VARIABLES
    clock,     \* wall clock
    ops,       \* the mix of operations of this behaviour
    pc, loc    \* control state and local variables of each request

frame == <<pc, loc>>
desk == <<clock, ops, pc, loc>>

Goto(p, label) == pc' = [pc EXCEPT ![p] = label]
Set(p, l) == loc' = [loc EXCEPT ![p] = l]

\* The request is answered.
Done(p) == Goto(p, "idle") /\ Set(p, None)

\* A request starts; in a mix called solo requests are served one after the other.
Idle(p, op) ==
    /\ pc[p] = "idle" /\ op \in ops
    /\ "solo" \in ops => \A q \in Procs : pc[q] = "idle"
=============================================================================
