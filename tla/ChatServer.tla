----------------------------- MODULE ChatServer -----------------------------
(***************************************************************************)
(* The OpenAI-compatible server (session/chat/server.rs): requests are     *)
(* served one at a time on one session, which is reset for each.  Requests *)
(* that are refused before the reset (bad JSON, unknown routes) change     *)
(* nothing and are left out.                                               *)
(***************************************************************************)
EXTENDS ChatSession

CONSTANTS PromptLens,   \* token counts of a rendered conversation, with BOS
          MaxTokens,    \* values of a request's max_tokens
          MaxRequests   \* bound on the requests served

VARIABLES s,            \* the session
          pc,
          served,       \* requests accepted so far
          req,          \* the current request: [n, max, stream]
          client,       \* is the client still connected
          maxPos,       \* the turn's position bound
          tokens,       \* completion tokens of the current response
          ended         \* how the last response ended

vars == <<s, pc, served, req, client, maxPos, tokens, ended>>

ASSUME ServerAssumption ==
    /\ PromptLens \subseteq Nat \ {0} /\ MaxTokens \subseteq Nat \ {0}
    /\ MaxRequests \in Nat

Requests == [n : PromptLens, max : MaxTokens, stream : BOOLEAN]

Init ==
    /\ s \in {NewSession(m) : m \in Modes} /\ pc = "idle" /\ served = 0
    /\ req \in Requests /\ client = TRUE
    /\ maxPos = 0 /\ tokens = 0 /\ ended = "none"

\* The response is over; run_turn has mirrored the position.
End(t, reason) == s' = t /\ pc' = "idle" /\ ended' = reason

\* handle_chat up to the capacity check: reset, encode, ensure_capacity.
Accept ==
    /\ pc = "idle" /\ served < MaxRequests
    /\ served' = served + 1
    /\ req' \in Requests
    /\ client' = TRUE /\ tokens' = 0
    /\ \E r \in ensure_capacity(reset(s), req'.n + req'.max) :
          IF r.ok THEN s' = r.s /\ pc' = "prefill" /\ ended' = "none"
                  ELSE End(r.s, "refused")
    /\ UNCHANGED maxPos

\* Prefill and the first token.  A streaming response writes its header and
\* first chunks before the turn, and is given up if that fails, as it may
\* once the client has gone.
Prefill ==
    /\ pc = "prefill"
    /\ \E t \in prefill(s, req.n), firstIsStop, lost \in BOOLEAN :
          /\ lost => req.stream /\ ~client
          /\ maxPos' = t.pos + req.max
          /\ IF lost THEN End(t, "error") /\ UNCHANGED tokens
             ELSE IF firstIsStop THEN End(t, "stop") /\ UNCHANGED tokens
             ELSE /\ s' = t /\ pc' = "turn" /\ tokens' = 1
                  /\ UNCHANGED ended
    /\ UNCHANGED <<served, req, client>>

\* The forward pass fails: part of the prompt may be in the cache, and the
\* positions are not advanced.  The server goes on with the next request.
PrefillFails ==
    /\ pc = "prefill"
    /\ \E k \in 0 .. req.n :
          End([s EXCEPT !.kv = @ + k, !.peak = s.kv + k], "error")
    /\ UNCHANGED <<served, req, client, maxPos, tokens>>

\* One step of the turn.  The callback of a streaming response writes the
\* token; a failed write raises the stop flag.
Step ==
    /\ pc = "turn" /\ ~s.flag
    /\ LET t == Decoded(s) IN
       \E stopToken \in BOOLEAN :
          IF should_stop(t, stopToken, maxPos)
          THEN /\ End(Mirrored(t), IF stopToken THEN "stop" ELSE "limit")
               /\ UNCHANGED tokens
          ELSE /\ s' \in {t} \cup IF req.stream /\ ~client
                                   THEN {[t EXCEPT !.flag = TRUE]} ELSE {}
               /\ tokens' = tokens + 1
               /\ UNCHANGED <<pc, ended>>
    /\ UNCHANGED <<served, req, client, maxPos>>

\* Mutant: the flag is seen but does not end the loop.
StopFlagIgnored == pc = "turn" /\ s.flag /\ UNCHANGED vars

StopFlag ==
    /\ pc = "turn" /\ s.flag
    /\ End(Mirrored(s), "flag")
    /\ UNCHANGED <<served, req, client, maxPos, tokens>>

Suspended ==
    /\ pc = "turn" /\ ~s.flag
    /\ End(Mirrored(s), "command")
    /\ UNCHANGED <<served, req, client, maxPos, tokens>>

StepFails ==
    /\ pc = "turn" /\ ~s.flag
    /\ \E k \in {0, 1} : End([s EXCEPT !.kv = @ + k, !.peak = s.kv + k], "error")
    /\ UNCHANGED <<served, req, client, maxPos, tokens>>

ClientLeaves ==
    /\ pc # "idle" /\ client
    /\ client' = FALSE
    /\ UNCHANGED <<s, pc, served, req, maxPos, tokens, ended>>

Finished == pc = "idle" /\ served = MaxRequests /\ UNCHANGED vars

Handler == Prefill \/ PrefillFails \/ Step \/ StopFlag \/ Suspended \/ StepFails

Next == Accept \/ Handler \/ ClientLeaves \/ Finished

Spec == Init /\ [][Next]_vars

\* The one thread of the server goes on with the request it has.
FairSpec == Spec /\ WF_vars(Handler)
-----------------------------------------------------------------------------
(* Type invariant of the server and its session. *)
TypeOK ==
    /\ s \in Session /\ pc \in {"idle", "prefill", "turn"}
    /\ served \in 0 .. MaxRequests /\ req \in Requests /\ client \in BOOLEAN
    /\ maxPos \in Nat /\ tokens \in 0 .. req.max
    /\ ended \in {"none", "refused", "error", "stop", "limit", "flag", "command"}

(* The cache never holds more than max_seq_len positions. *)
Fits == s.peak <= MaxSeq

(* A request starts from its own prompt: during its prefill and its turn   *)
(* the positions in the cache are those of this request, whatever way the  *)
(* requests before it ended (the reset in handle_chat).                    *)
OwnContext ==
    /\ pc = "prefill" => s.kv = 0 /\ s.pos = 0 /\ occupancy(s) = 0
    /\ pc = "turn" /\ s.mode # "keepset" =>
          s.kv = req.n + (tokens - 1) /\ s.loopPos = s.kv

(* A response that the position bound ended has exactly max_tokens         *)
(* tokens, the first token, sampled from the prefill, included.            *)
TokensExact == ended = "limit" => tokens = req.max

(* Every accepted request is answered, with the client there or not. *)
RequestsEnd == pc # "idle" ~> pc = "idle"

(* A response is cut short by the stop flag only if its own client has     *)
(* gone: requests are independent of each other.                           *)
CutOnlyIfGone == ended = "flag" => ~client
=============================================================================
