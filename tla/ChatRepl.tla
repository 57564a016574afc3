------------------------------ MODULE ChatRepl ------------------------------
(***************************************************************************)
(* The interactive chat (session/chat/repl.rs): the system prompt, then    *)
(* for each line of input a capacity check, the prefill of the turn, the   *)
(* decode steps, the end-of-turn marker and an opportunistic eviction.     *)
(* The lines come from stdin and sockets through one channel, so that the  *)
(* loop is sequential.                                                     *)
(***************************************************************************)
EXTENDS ChatSession

CONSTANTS SysLens,      \* token counts of a system prompt, 0 for none
          Bos,          \* 1 if the template wants a BOS token, 0 if not
          Eot,          \* tokens of the end-of-turn marker
          MaxNew,       \* max_new_tokens
          TurnLens,     \* token counts of a user's line
          MaxTurns      \* bound on the turns of the conversation

VARIABLES s,            \* the session
          pc,
          turns,        \* user turns so far
          maxPos,       \* the turn's position bound
          steps,        \* decode steps of the turn
          ended         \* why the turn's decode ended

turn == <<maxPos, steps, ended>>
vars == <<s, pc, turns, turn>>

ASSUME ReplAssumption ==
    /\ {Eot, MaxTurns} \subseteq Nat /\ Bos \in {0, 1}
    /\ \A n \in SysLens : n \in Nat /\ n + Bos <= MaxSeq
    /\ MaxNew \in Nat \ {0} /\ TurnLens \subseteq Nat \ {0}

Init ==
    /\ s \in {NewSession(m) : m \in Modes}
    /\ pc = "start" /\ turns = 0
    /\ maxPos = 0 /\ steps = 0 /\ ended = "none"

\* A system prompt longer than the cache is refused at once.
SystemPrompt ==
    /\ pc = "start"
    /\ pc' = "input"
    /\ \E n \in SysLens :
          \/ n = 0 /\ UNCHANGED s
          \/ n > 0 /\ s' \in prefill(s, n + Bos)
    /\ UNCHANGED <<turns, turn>>

TurnTokens(n) == n + (IF s.pos = 0 THEN Bos ELSE 0)

Reserve(n) == TurnTokens(n) + MaxNew

\* A line that does not fit ends the program.
Line ==
    /\ pc = "input" /\ turns < MaxTurns
    /\ \E n \in TurnLens : \E r \in ensure_capacity(s, Reserve(n)) :
          IF r.ok
          THEN /\ s' \in prefill(r.s, TurnTokens(n))
               /\ maxPos' = s'.pos + MaxNew
               /\ pc' = "turn"
          ELSE /\ s' = r.s /\ pc' = "exited" /\ UNCHANGED maxPos
    /\ turns' = turns + 1
    /\ steps' = 0 /\ ended' = "none"

Reset ==
    /\ pc = "input"
    /\ s' = reset(s)
    /\ UNCHANGED <<pc, turns, turn>>

Quit ==
    /\ pc = "input"
    /\ pc' = "exited"
    /\ UNCHANGED <<s, turns, turn>>

\* An error of the forward pass or of an eviction ends the program.
Fails ==
    /\ pc \in {"start", "turn", "bake"}
    /\ pc' = "exited"
    /\ UNCHANGED <<s, turns, turn>>

\* Mutant: a compaction during the turn takes the position back with it.
StepRewinds ==
    /\ pc = "turn"
    /\ IF s.loopPos > s.pos
       THEN s' = [s EXCEPT !.kv = Less(@, 1), !.loopPos = @ - 1] /\ steps' = steps - 1
       ELSE s' = Decoded(s) /\ steps' = steps + 1
    /\ UNCHANGED <<pc, turns, maxPos, ended>>

\* The first token is decoded even if it is a stop token; the sampled token
\* that stops the turn never is.
Step ==
    /\ pc = "turn"
    /\ LET t == Decoded(s) IN
       \E stop \in BOOLEAN :
          IF should_stop(t, stop, maxPos)
          THEN /\ s' = Mirrored(t) /\ pc' = "bake"
               /\ ended' = IF stop THEN "stop" ELSE "limit"
          ELSE s' = t /\ UNCHANGED <<pc, ended>>
    /\ steps' = steps + 1
    /\ UNCHANGED <<turns, maxPos>>

\* A command of the manager suspends the turn before its next step.
Suspended ==
    /\ pc = "turn"
    /\ s' = Mirrored(s) /\ pc' = "bake" /\ ended' = "command"
    /\ UNCHANGED <<turns, maxPos, steps>>

Bakes == Eot > 0 /\ s.pos + Eot <= MaxSeq

\* The end-of-turn marker, then on_turn_end.
Bake ==
    /\ pc = "bake"
    /\ \E t \in IF Bakes THEN prefill(s, Eot) ELSE {s} : s' \in on_turn_end(t)
    /\ pc' = "input"
    /\ UNCHANGED <<turns, maxPos, steps, ended>>

Finished == pc = "exited" /\ UNCHANGED vars

Next == \/ SystemPrompt \/ Line \/ Reset \/ Quit \/ Fails
        \/ Step \/ Suspended \/ Bake \/ Finished

Spec == Init /\ [][Next]_vars

\* The decode loop runs: nothing blocks a step.
FairSpec == Spec /\ WF_vars(Step) /\ WF_vars(Bake)
-----------------------------------------------------------------------------
(* Type invariant of the loop and its session. *)
TypeOK ==
    /\ s \in Session
    /\ pc \in {"start", "input", "turn", "bake", "exited"}
    /\ turns \in 0 .. MaxTurns /\ maxPos \in Nat /\ steps \in 0 .. MaxNew
    /\ ended \in {"none", "stop", "limit", "command"}

(* The cache never holds more than max_seq_len positions, at any point of  *)
(* a turn: the room ensure_capacity found covers the line, the answer and  *)
(* the marker.                                                             *)
Fits == s.peak <= MaxSeq /\ s.kv <= MaxSeq

(* The occupancy the capacity checks use is the cache's own, through       *)
(* turns, evictions, prunes and resets (occupancy's identity).             *)
OccupancyTrue == occupancy(s) = s.kv

(* A turn that its position bound ended ran exactly max_new_tokens steps,  *)
(* whatever was evicted before it.                                         *)
BudgetExact == ended = "limit" => steps = MaxNew

(* Every turn ends: the bound stops it if no stop token does               *)
(* (run_until_stop has no budget of its own).                              *)
TurnsEnd == pc = "turn" ~> pc = "input" \/ pc = "exited"
=============================================================================
