---------------------------- MODULE ChatSession ----------------------------
(***************************************************************************)
(* A chat session (session/chat/session.rs): one decode loop kept over the *)
(* turns of a conversation, and the accounting of its KV cache.  A session *)
(* is a record, and every method an operator that gives the session it     *)
(* leaves, or the set of sessions it may leave.  The front ends, ChatRepl  *)
(* and ChatServer, drive it.                                               *)
(*                                                                         *)
(* The mode tells the caches apart: "evicting" (a cache manager evicts     *)
(* between turns), "keepset" (a PrefillEnd stage prunes the cache in       *)
(* place) and "fixed" (quantised or offloaded caches, which never shrink). *)
(***************************************************************************)
EXTENDS Naturals, FiniteSets

CONSTANTS Modes,         \* the kinds of cache to check
          MaxSeq         \* max_seq_len

ASSUME SessionAssumption ==
    /\ Modes \subseteq {"evicting", "keepset", "fixed"}
    /\ MaxSeq \in Nat \ {0}

\* mode: kv_mode, kv: positions in the cache, peak: the most the last call put
\* there, loopPos: DecodeLoop.pos, pos: the session's mirror of it, evicted:
\* evicted_total, flag: the decode loop's stop flag.
Session == [mode : Modes, kv : Nat, peak : Nat, loopPos : Nat, pos : Nat,
            evicted : Nat, flag : BOOLEAN]

NewSession(m) == [mode |-> m, kv |-> 0, peak |-> 0, loopPos |-> 0, pos |-> 0,
                  evicted |-> 0, flag |-> FALSE]

Less(a, b) == IF a > b THEN a - b ELSE 0        \* saturating_sub

occupancy(s) ==
    CASE s.mode = "evicting" -> Less(s.loopPos, s.evicted)
      [] s.mode = "keepset"  -> s.kv
      [] s.mode = "fixed"    -> s.loopPos

\* Mutant: the mirror is advanced, not read back from the decode loop.
PrefillUnmirrored(s, n) ==
    {[s EXCEPT !.kv = k, !.peak = s.kv + n, !.loopPos = @ + n, !.pos = @ + n] :
        k \in IF s.mode = "keepset" THEN 1 .. s.kv + n ELSE {s.kv + n}}

\* The keep-set stage, where there is one, prunes at PrefillEnd.
prefill(s, n) ==
    {[s EXCEPT !.kv = k, !.peak = s.kv + n, !.loopPos = @ + n,
               !.pos = s.loopPos + n] :
        k \in IF s.mode = "keepset" THEN 1 .. s.kv + n ELSE {s.kv + n}}

\* One decode step: the previous token enters the cache.
Decoded(s) == [s EXCEPT !.kv = @ + 1, !.peak = s.kv + 1, !.loopPos = @ + 1]

\* run_turn's last line.
Mirrored(s) == [s EXCEPT !.pos = s.loopPos]

\* Mutant: evicted_total is not counted when the cache shrinks.
TryEvictUncounted(s) ==
    {s} \cup {[s EXCEPT !.kv = k, !.pos = k] : k \in 1 .. Less(s.kv, 1)}

\* try_evict and what its two callers do with the answer: a policy may
\* decline, or keep any number of positions.
try_evict(s) ==
    {s} \cup {[s EXCEPT !.kv = k, !.pos = k, !.evicted = @ + (s.kv - k)] :
                 k \in 1 .. Less(s.kv, 1)}

Room(s, additional) ==
    (IF s.mode = "fixed" THEN s.pos ELSE occupancy(s)) + additional <= MaxSeq

\* Mutant: after the eviction the room is not checked again.
EnsureCapacityOnce(s, additional) ==
    IF Room(s, additional) THEN {[ok |-> TRUE, s |-> s]}
    ELSE IF s.mode = "evicting"
    THEN {[ok |-> TRUE, s |-> t] : t \in try_evict(s)}
    ELSE {[ok |-> FALSE, s |-> s]}

ensure_capacity(s, additional) ==
    IF Room(s, additional) THEN {[ok |-> TRUE, s |-> s]}
    ELSE IF s.mode = "evicting"
    THEN {[ok |-> Room(t, additional), s |-> t] : t \in try_evict(s)}
    ELSE {[ok |-> FALSE, s |-> s]}

\* The force at nine tenths of the capacity only makes declining rarer.
on_turn_end(s) == IF s.mode = "evicting" THEN try_evict(s) ELSE {s}

\* Mutant: the decode loop keeps its position.
ResetCacheOnly(s) == [s EXCEPT !.kv = 0, !.peak = 0, !.pos = 0, !.evicted = 0]

\* Everything but the stop flag.
reset(s) ==
    [s EXCEPT !.kv = 0, !.peak = 0, !.loopPos = 0, !.pos = 0, !.evicted = 0]

\* Mutant: the bound is passed by one.
ShouldStopLate(s, stopToken, maxPos) == s.loopPos > maxPos \/ stopToken

\* Mutant: the bound is met one position early.
ShouldStopEarly(s, stopToken, maxPos) == s.loopPos + 1 >= maxPos \/ stopToken

\* ChatStopCondition: the position bound, or a stop token was sampled.
should_stop(s, stopToken, maxPos) == s.loopPos >= maxPos \/ stopToken
=============================================================================
