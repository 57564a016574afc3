----------------------------- MODULE ParallelFor -----------------------------
(***************************************************************************)
(* What a caller of SpinPool::dispatch and dispatch_batch is promised: the *)
(* call blocks while each chunk of each item is run exactly once by some   *)
(* thread, one chunk at a time per thread, and the chunks of an item are   *)
(* over before the next item begins and before the call returns.           *)
(***************************************************************************)
EXTENDS Integers

CONSTANTS Threads, MaxChunks

VARIABLES
    phase,      \* "open", "busy" (a call is in progress) or "closed"
    pending,    \* chunks of the item nobody has started
    running     \* running[t]: the chunk thread t runs, a set of at most one

vars == <<phase, pending, running>>

AllIdle == \A t \in Threads : running[t] = {}
Item(n) == 0 .. n - 1

Init ==
    /\ phase = "open"
    /\ pending = {}
    /\ running = [t \in Threads |-> {}]

\* dispatch / dispatch_batch is called with a first item of n chunks.
Begin ==
    /\ phase = "open"
    /\ AllIdle
    /\ phase' = "busy"
    /\ \E n \in 0 .. MaxChunks : pending' = Item(n)
    /\ UNCHANGED running

Start(t) ==
    /\ phase = "busy"
    /\ running[t] = {}
    /\ \E c \in pending :
        /\ running' = [running EXCEPT ![t] = {c}]
        /\ pending' = pending \ {c}
    /\ UNCHANGED phase

Finish(t) ==
    /\ phase = "busy"
    /\ running[t] # {}
    /\ running' = [running EXCEPT ![t] = {}]
    /\ UNCHANGED <<phase, pending>>

\* The next item of a batch.
NextItem ==
    /\ phase = "busy"
    /\ pending = {}
    /\ AllIdle
    /\ \E n \in 0 .. MaxChunks : pending' = Item(n)
    /\ UNCHANGED <<phase, running>>

Return ==
    /\ phase = "busy"
    /\ pending = {}
    /\ AllIdle
    /\ phase' = "open"
    /\ UNCHANGED <<pending, running>>

Close ==
    /\ phase = "open"
    /\ phase' = "closed"
    /\ UNCHANGED <<pending, running>>

Next ==
    \/ Begin
    \/ \E t \in Threads : Start(t) \/ Finish(t)
    \/ NextItem
    \/ Return
    \/ Close

Spec == Init /\ [][Next]_vars
=============================================================================
