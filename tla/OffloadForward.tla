--------------------------- MODULE OffloadForward ---------------------------
(***************************************************************************)
(* forward_into_offload (engine/src/models/offload_forward.rs) with its    *)
(* caller OffloadForward (session/forward/offload_forward.rs), the preload *)
(* workers (kv/offload/preload_pool.rs) and the adaptive prefetch depth    *)
(* (kv/offload/prefetch.rs): the calling thread walks the layers while     *)
(* workers preload the caches of the layers ahead through raw pointers.    *)
(*                                                                         *)
(* A preload runs under the cache's mutex, so it is one step. The row a    *)
(* token writes is a number that tells session and position apart.         *)
(***************************************************************************)
EXTENDS OffloadCache, FiniteSets

CONSTANTS
    NLayers,        \* transformer layers
    MaxDepth,       \* PrefetchController.max_depth, also the size of the pool
    InitialDepth,   \* initial_depth, already clamped
    AdjustStep,     \* adjust_step
    MaxSessions,    \* bound: reset_kv calls
    MaxTurns,       \* bound: multi-token calls of a session, its first call included
    MaxFaults       \* bound: store reads and layer forwards that fail

ASSUME OffloadAssumption ==
    /\ {NLayers, MaxDepth, InitialDepth, AdjustStep} \subseteq Nat \ {0}
    /\ InitialDepth <= MaxDepth
    /\ {MaxSessions, MaxTurns, MaxFaults} \subseteq Nat

Layers == 0 .. NLayers - 1
PoolWorkers == 1 .. MaxDepth
DecreasePatience == 3

VARIABLES
    caches,         \* caches[i]: layer i's OffloadKVCache
    depth,          \* PrefetchController.depth
    slack_streak,   \* PrefetchController.slack_streak
    pc,             \* where the calling thread is
    layer,          \* the layer loop's i
    new,            \* tokens of this call
    depth_now,      \* the depth this call read
    ok,             \* FALSE: an error is unwinding through the DrainGuard
    view,           \* the rows the layer's attention was handed
    pending,        \* pending[i]: "none", "queued", "running" or "sent"
    queue,          \* the pool's task channel, of layers
    busy,           \* busy[w]: the layer worker w preloads, -1 for none
    context,        \* tokens this session's calls have processed
    session,        \* history: reset_kv calls so far
    turns,          \* history: calls counted against MaxTurns
    kept,           \* history: layers the session's last call kept loaded
    overtaken,      \* history: layers whose deferred rows a multi-token update passed
    calm,           \* history: calls since depth last grew
    faults          \* history: faults so far

controller == <<depth, slack_streak, calm>>
call == <<pc, layer, new, depth_now, ok, view>>
pool == <<pending, queue, busy>>
history == <<context, session, turns, kept, overtaken>>
vars == <<caches, controller, call, pool, history, faults>>

Row(p) == session * MaxSeq + p
Context(n) == [p \in 1 .. n |-> Row(p)]
NewRows == [p \in 1 .. new |-> Row(context + p)]
Running == {"recv", "write", "attend", "viewed", "drain"}

TypeOK ==
    /\ \A i \in Layers :
          /\ caches[i].pos \in 0 .. MaxSeq
          /\ caches[i].behind \in 0 .. caches[i].pos
          /\ caches[i].preloaded \in BOOLEAN
          /\ Len(caches[i].attn) \in {0, MaxSeq}
    /\ depth \in 1 .. MaxDepth
    /\ slack_streak \in Nat
    /\ pc \in Running \cup {"idle", "failed"}
    /\ layer \in 0 .. NLayers
    /\ depth_now \in 1 .. MaxDepth
    /\ pending \in [Layers -> {"none", "queued", "running", "sent"}]
    /\ busy \in [PoolWorkers -> Layers \cup {-1}]
    /\ ok \in BOOLEAN
    /\ Len(view) \in 0 .. MaxSeq
    /\ overtaken \subseteq Layers

Init ==
    /\ caches = [i \in Layers |-> EmptyCache]
    /\ depth = InitialDepth
    /\ slack_streak = 0
    /\ calm = 0
    /\ pc = "idle"
    /\ layer = 0
    /\ new = 1
    /\ depth_now = InitialDepth
    /\ ok = TRUE
    /\ view = <<>>
    /\ pending = [i \in Layers |-> "none"]
    /\ queue = <<>>
    /\ busy = [w \in PoolWorkers |-> -1]
    /\ context = 0
    /\ session = 0
    /\ turns = 0
    /\ kept = 0
    /\ overtaken = {}
    /\ faults = 0

Fault == faults < MaxFaults /\ faults' = faults + 1

(***************************************************************************)
(* The calling thread. The caches sit behind Arcs only between wrap_caches *)
(* and unwrap_caches, that is while pc is in Running.                      *)
(***************************************************************************)
CallTokens(n) ==
    /\ pc = "idle"
    /\ n > 1 => turns < MaxTurns
    /\ context + n <= MaxSeq + 1        \* one too many is an error of update
    /\ turns' = IF n > 1 \/ context = 0 THEN turns + 1 ELSE turns
    /\ new' = n
    /\ depth_now' = depth

\* Layers [0 .. depth) are loaded on the calling thread, [depth .. 2 * depth)
\* handed to the pool.
Begin(n) ==
    /\ CallTokens(n)
    /\ caches' = [i \in Layers |-> IF i < depth THEN Preload(caches[i]) ELSE caches[i]]
    /\ pending' = [i \in Layers |->
                      IF depth <= i /\ i < 2 * depth THEN "queued" ELSE "none"]
    /\ queue' = [k \in 1 .. Cardinality({i \in Layers : pending'[i] = "queued"})
                    |-> depth + k - 1]
    /\ layer' = 0
    /\ ok' = TRUE
    /\ pc' = "recv"
    /\ UNCHANGED <<controller, view, busy, context, session, kept, overtaken, faults>>

\* Mutant: the mark is set although the load failed.
PreloadFailedMarked(c) == [Alloc(FlushDeferred(c)) EXCEPT !.preloaded = TRUE]

\* preload with a load_into that fails: what was deferred has reached the store.
PreloadFailed(c) == Alloc(FlushDeferred(c))
MayFail(c) == ~c.preloaded /\ c.pos > 0

\* A synchronous preload fails, before there is anything to drain.
BeginFails(n) ==
    /\ CallTokens(n)
    /\ \E j \in Layers :
          /\ j < depth
          /\ MayFail(caches[j])
          /\ caches' = [i \in Layers |-> CASE i < j -> Preload(caches[i])
                                            [] i = j -> PreloadFailed(caches[i])
                                            [] OTHER -> caches[i]]
    /\ Fault
    /\ pc' = "failed"
    /\ UNCHANGED <<controller, layer, ok, view, pool, context, session, kept, overtaken>>

\* Mutant: the window's far edge is submitted whether or not it is pending.
RecvResubmits ==
    LET far == layer + depth_now
        submit == far < NLayers
    IN  /\ pc = "recv"
        /\ pending[layer] \in {"none", "sent"}
        /\ pending' = [i \in Layers |-> CASE i = layer -> "none"
                                          [] i = far /\ submit -> "queued"
                                          [] OTHER -> pending[i]]
        /\ queue' = IF submit THEN Append(queue, far) ELSE queue
        /\ pc' = "write"
        /\ UNCHANGED <<caches, controller, layer, new, depth_now, ok, view, busy, history, faults>>

\* The result of layer's preload, Ok or Err, and the next preload of the window.
Recv ==
    LET far == layer + depth_now
        submit == far < NLayers /\ pending[far] = "none"
    IN  /\ pc = "recv"
        /\ pending[layer] \in {"none", "sent"}
        /\ pending' = [i \in Layers |-> CASE i = layer -> "none"
                                          [] i = far /\ submit -> "queued"
                                          [] OTHER -> pending[i]]
        /\ queue' = IF submit THEN Append(queue, far) ELSE queue
        /\ pc' = "write"
        /\ UNCHANGED <<caches, controller, layer, new, depth_now, ok, view, busy, history, faults>>

Write ==
    /\ pc = "write"
    /\ caches[layer].pos + new <= MaxSeq
    /\ caches' = [caches EXCEPT ![layer] = Update(@, NewRows)]
    /\ overtaken' = IF new > 1 /\ caches[layer].behind > 0
                    THEN overtaken \cup {layer} ELSE overtaken
    /\ pc' = "attend"
    /\ UNCHANGED <<controller, layer, new, depth_now, ok, view, pool, context, session,
                   turns, kept, faults>>

\* get_view for the attention, which goes on with an empty view when the load fails.
Attend ==
    /\ pc = "attend"
    /\ \E loaded \in BOOLEAN :
          /\ IF Unread(caches[layer], loaded) THEN Fault ELSE loaded /\ UNCHANGED faults
          /\ view' = View(caches[layer], loaded)
          /\ caches' = [caches EXCEPT ![layer] = AfterView(@, loaded)]
    /\ pc' = "viewed"
    /\ UNCHANGED <<controller, layer, new, depth_now, ok, pool, history>>

\* The layer is through: it is kept, or the one before it released.
LayerDone ==
    /\ pc = "viewed"
    /\ caches' = [i \in Layers |->
          CASE i = layer /\ i < depth_now -> RetainPreload(caches[i])
            [] i = layer - 1 /\ i >= depth_now -> ReleaseBuffers(caches[i])
            [] OTHER -> caches[i]]
    /\ view' = <<>>
    /\ layer' = layer + 1
    /\ pc' = IF layer + 1 < NLayers THEN "recv" ELSE "drain"
    /\ UNCHANGED <<controller, new, depth_now, ok, pool, history, faults>>

\* The layer's forward returns an error, an overflowing update's included. The
\* caches it leaves are only ever reset.
LayerFails ==
    /\ pc \in {"write", "viewed"}
    /\ IF pc = "write" /\ caches[layer].pos + new > MaxSeq THEN UNCHANGED faults ELSE Fault
    /\ ok' = FALSE
    /\ view' = <<>>
    /\ pc' = "drain"
    /\ UNCHANGED <<caches, controller, layer, new, depth_now, pool, history>>

\* Mutant: a stall leaves the slack seen before it counted.
AdjustKeepsStreak ==
    \/ UNCHANGED <<depth, slack_streak>>
    \/ /\ depth' = IF depth + AdjustStep <= MaxDepth THEN depth + AdjustStep ELSE MaxDepth
       /\ UNCHANGED slack_streak
    \/ IF slack_streak + 1 >= DecreasePatience /\ depth > AdjustStep
       THEN /\ depth' = IF depth - AdjustStep >= AdjustStep THEN depth - AdjustStep
                                                            ELSE AdjustStep
            /\ slack_streak' = 0
       ELSE slack_streak' = slack_streak + 1 /\ UNCHANGED depth
    \/ slack_streak' = 0 /\ UNCHANGED depth

\* Mutant: an increase is not capped.
AdjustUncapped ==
    \/ UNCHANGED <<depth, slack_streak>>
    \/ depth' = depth + AdjustStep /\ slack_streak' = 0

\* adjust, for any timings: too few samples, a stall, slack, or balance.
Adjust ==
    \/ UNCHANGED <<depth, slack_streak>>
    \/ /\ depth' = IF depth + AdjustStep <= MaxDepth THEN depth + AdjustStep ELSE MaxDepth
       /\ slack_streak' = 0
    \/ IF slack_streak + 1 >= DecreasePatience /\ depth > AdjustStep
       THEN /\ depth' = IF depth - AdjustStep >= AdjustStep THEN depth - AdjustStep
                                                            ELSE AdjustStep
            /\ slack_streak' = 0
       ELSE slack_streak' = slack_streak + 1 /\ UNCHANGED depth
    \/ slack_streak' = 0 /\ UNCHANGED depth

Drained == \A i \in Layers : pending[i] \in {"none", "sent"}

\* All layers done and the guard dropped: the last layer is released and the
\* depth adjusted. The output head may still fail.
Return ==
    /\ pc = "drain" /\ ok
    /\ Drained
    /\ pending' = [i \in Layers |-> "none"]
    /\ caches' = [i \in Layers |-> IF i = NLayers - 1 /\ i >= depth_now
                                    THEN ReleaseBuffers(caches[i]) ELSE caches[i]]
    /\ Adjust
    /\ calm' = IF depth' > depth THEN 0 ELSE calm + 1
    /\ \/ /\ pc' = "idle"
          /\ context' = context + new
          /\ kept' = depth_now
          /\ UNCHANGED faults
       \/ /\ pc' = "failed"
          /\ Fault
          /\ UNCHANGED <<context, kept>>
    /\ UNCHANGED <<layer, new, depth_now, ok, view, queue, busy, session, turns, overtaken>>

\* Mutant: without the DrainGuard an error returns at once.
UnwindUndrained ==
    /\ pc = "drain" /\ ~ok
    /\ pending' = [i \in Layers |-> "none"]
    /\ pc' = "failed"
    /\ UNCHANGED <<caches, controller, layer, new, depth_now, ok, view, queue, busy, history, faults>>

\* DrainGuard::drop on the error path.
Unwind ==
    /\ pc = "drain" /\ ~ok
    /\ Drained
    /\ pending' = [i \in Layers |-> "none"]
    /\ pc' = "failed"
    /\ UNCHANGED <<caches, controller, layer, new, depth_now, ok, view, queue, busy, history, faults>>

\* reset_kv. A failed call ends the REPL, and the server resets before each
\* request, so it is the only way on after one.
Reset ==
    /\ pc \in {"idle", "failed"}
    /\ session < MaxSessions
    /\ caches' = [i \in Layers |-> ResetSession(caches[i])]
    /\ pc' = "idle"
    /\ context' = 0
    /\ session' = session + 1
    /\ turns' = 0
    /\ kept' = 0
    /\ overtaken' = {}
    /\ UNCHANGED <<controller, layer, new, depth_now, ok, view, pool, faults>>

\* The chat may end between calls.
Finished == pc \in {"idle", "failed"} /\ UNCHANGED vars

(***************************************************************************)
(* A worker of the pool: rx.recv() under the receiver's mutex, then the    *)
(* preload under the cache's, then the result.                             *)
(***************************************************************************)
Take(w) ==
    /\ busy[w] = -1
    /\ queue # <<>>
    /\ busy' = [busy EXCEPT ![w] = Head(queue)]
    /\ pending' = [pending EXCEPT ![Head(queue)] = "running"]
    /\ queue' = Tail(queue)
    /\ UNCHANGED <<caches, controller, call, history, faults>>

\* Mutant: a failed preload goes back to the queue, without a limit.
RunPreloadRetries(w) ==
    /\ busy[w] # -1
    /\ \/ /\ caches' = [caches EXCEPT ![busy[w]] = Preload(@)]
          /\ pending' = [pending EXCEPT ![busy[w]] = "sent"]
          /\ UNCHANGED queue
       \/ /\ MayFail(caches[busy[w]])
          /\ pending' = [pending EXCEPT ![busy[w]] = "queued"]
          /\ queue' = Append(queue, busy[w])
          /\ UNCHANGED caches
    /\ busy' = [busy EXCEPT ![w] = -1]
    /\ UNCHANGED <<controller, call, history, faults>>

RunPreload(w) ==
    /\ busy[w] # -1
    /\ \/ /\ caches' = [caches EXCEPT ![busy[w]] = Preload(@)]
          /\ UNCHANGED faults
       \/ /\ MayFail(caches[busy[w]])
          /\ caches' = [caches EXCEPT ![busy[w]] = PreloadFailed(@)]
          /\ Fault
    /\ pending' = [pending EXCEPT ![busy[w]] = "sent"]
    /\ busy' = [busy EXCEPT ![w] = -1]
    /\ UNCHANGED <<controller, call, queue, history>>

Caller == Recv \/ Write \/ Attend \/ LayerDone \/ LayerFails \/ Return \/ Unwind
Worker(w) == Take(w) \/ RunPreload(w)

Next ==
    \/ \E n \in 1 .. 2 : Begin(n) \/ BeginFails(n)
    \/ Caller
    \/ Reset
    \/ \E w \in PoolWorkers : Worker(w)
    \/ Finished

Spec == Init /\ [][Next]_vars

\* Once called, the thread runs on, and so does each worker: recv blocks on a
\* channel only while it is empty.
FairSpec ==
    /\ Spec
    /\ WF_vars(Caller)
    /\ \A w \in PoolWorkers : WF_vars(Worker(w))
-----------------------------------------------------------------------------
Tasks(i) ==
    Cardinality({k \in 1 .. Len(queue) : queue[k] = i})
  + Cardinality({w \in PoolWorkers : busy[w] = i})

\* A preload task holds its cache by raw pointer: no two tasks share one (the
\* contract of PreloadPool::submit), and none is queued or running for the layer
\* whose KV the calling thread is writing or reading.
ExclusiveAccess ==
    \A i \in Layers :
        /\ Tasks(i) <= 1
        /\ pc \in {"write", "attend", "viewed"} /\ i <= layer => Tasks(i) = 0

\* On every return path of forward_into_offload, error paths included, no task is
\* left that could touch a cache: unwrap_caches moves them out of their Arcs.
WorkersGoneOnReturn ==
    pc \notin Running => \A i \in Layers : Tasks(i) = 0

\* Deferring the store's writes costs no token: at every moment the store followed
\* by the rows it lacks are the session's tokens in order, for as many as the layer
\* has seen, through depth changes, failed preloads and further turns.  Left out are
\* the layers where a multi-token update (update's seq_len > 1 branch) came while
\* rows were deferred: of those see UpdatesAppend.
DeferredNotLost ==
    \A i \in Layers \ overtaken : Contents(caches[i]) = Context(caches[i].pos)

\* A layer the previous call did not keep loaded is decoded over exactly the
\* session's tokens, whatever the depth did in between.  A preload that failed is
\* made good by get_view's own load; only when that fails as well is the layer
\* handed nothing, and never a part of the context or zeroed rows.
StreamedLayersSeeContext ==
    pc = "viewed" /\ layer >= kept /\ layer \notin overtaken /\ context > 0 /\ new = 1 =>
        /\ view \in {Context(context + 1), <<>>}
        /\ view = <<>> => faults > 1

\* get_view covers the session's tokens [0 .. current_pos) on every layer and call.
AttentionSeesContext ==
    pc = "viewed" => view = Context(context + new)

\* update appends, a second multi-token call of a session included ("Append token by
\* token (slower but correct)"): what a layer holds are the session's tokens in order.
UpdatesAppend ==
    \A i \in Layers : Contents(caches[i]) = Context(caches[i].pos)

\* The depth does not oscillate: it shrinks only when patience has passed since it
\* last grew, and never below one step.
NoOscillation ==
    [][depth' < depth => calm' >= DecreasePatience /\ depth' >= AdjustStep]_vars

\* A call returns: neither the receive loop nor the DrainGuard waits for ever, also
\* when preloads fail.
CallReturns == pc \in Running ~> pc \notin Running
=============================================================================
