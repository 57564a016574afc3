------------------------------ MODULE SpinPool ------------------------------
(***************************************************************************)
(* The work-stealing pool of engine/src/thread_pool.rs.                    *)
(*                                                                         *)
(* One dispatching thread ("main") publishes a work item as a new value of *)
(* `generation`, unparks the active workers, steals chunks itself and      *)
(* spins until every active worker has counted itself into `done_count`.   *)
(* Every atomic access of the source is one step; the relaxed stores that  *)
(* set a work item up before the release-store of `generation` are one     *)
(* step, because no thread reads them before that store.                   *)
(***************************************************************************)
EXTENDS Integers, FiniteSets

CONSTANTS
    NWorkers,       \* background threads (SpinPool::new's n_workers)
    MaxChunks,      \* bound: chunks of one work item
    MaxItems,       \* bound: work items of one dispatch_batch
    MaxWork         \* bound: work items published in a behaviour

ASSUME ConstantsAssumption ==
    /\ NWorkers \in Nat
    /\ MaxChunks \in Nat
    /\ MaxItems \in Nat
    /\ MaxWork \in Nat

Workers == 0 .. NWorkers - 1
Chunks == 0 .. MaxChunks - 1
Generations == [seq : Nat, active : 0 .. NWorkers]

VARIABLES
    \* SharedState
    generation,     \* the 48-bit sequence number and the 16 active bits
    next_chunk,     \* the steal counter
    done_count,     \* active workers that finished the current item
    total_chunks,   \* chunks of the current item
    work,           \* identity of work_fn/work_ctx; 0 is the null pointer
    shutdown,
    batch_mode,
    active_workers,
    token,          \* token[w]: the unpark token of worker w
    \* the dispatching thread
    mpc,            \* where the dispatching thread is
    active,         \* its local `active`
    cursor,         \* next worker to unpark
    items_left,     \* batch items still to publish
    mchunk,         \* the chunk it runs
    \* the workers
    wpc, last_gen, wwork, wtotal, wchunk,
    \* history of the current item
    claims,         \* claims[c]: how often chunk c was taken
    finished        \* chunks whose work_fn call returned

item == <<work, total_chunks, next_chunk, done_count>>
settings == <<shutdown, batch_mode, active_workers>>
shared == <<generation, item, settings, token>>
caller == <<active, cursor, items_left, mchunk>>
main == <<mpc, caller>>
locals == <<last_gen, wwork, wtotal, wchunk>>
worker == <<wpc, locals>>
history == <<claims, finished>>
vars == <<shared, main, worker, history>>

InDispatch == {"publish", "republish", "unpark", "steal", "run", "wait"}
InDrop == {"bump", "unpark_all", "join", "dropped"}
AtWork == {"load", "steal", "run", "done"}

TypeOK ==
    /\ generation \in Generations
    /\ next_chunk \in Nat
    /\ done_count \in Nat
    /\ total_chunks \in 0 .. MaxChunks
    /\ work \in Nat
    /\ shutdown \in BOOLEAN
    /\ batch_mode \in BOOLEAN
    /\ active_workers \in 0 .. NWorkers
    /\ token \in [Workers -> BOOLEAN]
    /\ mpc \in InDispatch \cup InDrop \cup {"idle"}
    /\ active \in 0 .. NWorkers
    /\ cursor \in 0 .. NWorkers
    /\ items_left \in Nat
    /\ mchunk \in Nat
    /\ wpc \in [Workers -> AtWork \cup {"shutdown", "generation", "active",
                                        "batch", "parked", "exit"}]
    /\ last_gen \in [Workers -> Generations]
    /\ wwork \in [Workers -> Nat]
    /\ wtotal \in [Workers -> 0 .. MaxChunks]
    /\ wchunk \in [Workers -> Nat]
    /\ claims \in [Chunks -> Nat]
    /\ finished \in SUBSET Chunks

Init ==
    /\ generation = [seq |-> 0, active |-> 0]
    /\ next_chunk = 0
    /\ done_count = 0
    /\ total_chunks = 0
    /\ work = 0
    /\ shutdown = FALSE
    /\ batch_mode = FALSE
    /\ active_workers = NWorkers
    /\ token = [w \in Workers |-> FALSE]
    /\ mpc = "idle"
    /\ active = 0
    /\ cursor = 0
    /\ items_left = 0
    /\ mchunk = 0
    /\ wpc = [w \in Workers |-> "shutdown"]
    /\ last_gen = [w \in Workers |-> [seq |-> 0, active |-> 0]]
    /\ wwork = [w \in Workers |-> 0]
    /\ wtotal = [w \in Workers |-> 0]
    /\ wchunk = [w \in Workers |-> 0]
    /\ claims = [c \in Chunks |-> 0]
    /\ finished = {}

-----------------------------------------------------------------------------
(* The dispatching thread.                                                 *)

\* Mutant: the steal counter is not reset.
SetUpItemKeepsCounter(n) ==
    /\ work' = work + 1
    /\ total_chunks' = n
    /\ done_count' = 0
    /\ claims' = [c \in Chunks |-> 0]
    /\ finished' = {}
    /\ UNCHANGED next_chunk

\* The relaxed stores before publish(): a new item of n chunks.
SetUpItem(n) ==
    /\ work' = work + 1
    /\ total_chunks' = n
    /\ next_chunk' = 0
    /\ done_count' = 0
    /\ claims' = [c \in Chunks |-> 0]
    /\ finished' = {}

\* dispatch(n_chunks, ..): returns at once for zero chunks.
Dispatch ==
    /\ mpc = "idle"
    /\ work < MaxWork
    /\ \E n \in 1 .. MaxChunks : SetUpItem(n)
    /\ mpc' = "publish"
    /\ items_left' = 0
    /\ UNCHANGED <<generation, settings, token, active, cursor, mchunk, worker>>

\* dispatch_batch(items): items may have zero chunks.
DispatchBatch ==
    /\ mpc = "idle"
    /\ \E n \in 0 .. MaxChunks : SetUpItem(n)
    /\ mpc' = "publish"
    /\ \E k \in 1 .. MaxItems : work + k <= MaxWork /\ items_left' = k - 1
    /\ UNCHANGED <<generation, settings, token, active, cursor, mchunk, worker>>

\* Mutant: later batch items rely on the workers' spin window and unpark nobody.
PublishWithoutRewake ==
    /\ mpc \in {"publish", "republish"}
    /\ generation' = [seq |-> generation.seq + 1, active |-> active_workers]
    /\ active' = IF mpc = "publish" THEN active_workers ELSE active
    /\ cursor' = 0
    /\ mpc' = IF mpc = "publish" THEN "unpark" ELSE "steal"
    /\ UNCHANGED <<item, settings, token, items_left, mchunk, worker, history>>

\* publish(): the release-store of generation. A later item of a batch keeps the
\* `active` of the first one and ignores the count publish() returns.
Publish ==
    /\ mpc \in {"publish", "republish"}
    /\ generation' = [seq |-> generation.seq + 1, active |-> active_workers]
    /\ active' = IF mpc = "publish" THEN active_workers ELSE active
    /\ cursor' = 0
    /\ mpc' = "unpark"
    /\ UNCHANGED <<item, settings, token, items_left, mchunk, worker, history>>

\* One unpark of worker_threads[..active], or the end of that loop.
Unpark ==
    /\ mpc = "unpark"
    /\ \/ /\ cursor < active
          /\ token' = [token EXCEPT ![cursor] = TRUE]
          /\ cursor' = cursor + 1
          /\ mpc' = mpc
       \/ /\ cursor >= active
          /\ mpc' = "steal"
          /\ UNCHANGED <<token, cursor>>
    /\ UNCHANGED <<generation, item, settings, active, items_left, mchunk, worker,
                   history>>

\* One fetch_add of steal_work on the dispatching thread.
MainSteal ==
    /\ mpc = "steal"
    /\ next_chunk' = next_chunk + 1
    /\ \/ /\ next_chunk >= total_chunks
          /\ mpc' = "wait"
          /\ UNCHANGED <<mchunk, claims>>
       \/ /\ next_chunk < total_chunks
          /\ mpc' = "run"
          /\ mchunk' = next_chunk
          /\ claims' = [claims EXCEPT ![next_chunk] = @ + 1]
    /\ UNCHANGED <<generation, work, total_chunks, done_count, settings, token, active,
                   cursor, items_left, worker, finished>>

\* work_fn(ctx, chunk) returns on the dispatching thread; its `chunk` is dead.
MainRun ==
    /\ mpc = "run"
    /\ finished' = finished \cup {mchunk}
    /\ mchunk' = 0
    /\ mpc' = "steal"
    /\ UNCHANGED <<shared, active, cursor, items_left, worker, claims>>

\* Mutant: the caller does not wait for the workers.
WaitForNobody ==
    /\ mpc = "wait"
    /\ items_left = 0
    /\ mpc' = "idle"
    /\ UNCHANGED <<shared, caller, worker, history>>

\* Mutant: the caller waits for one worker too few.
WaitOffByOne ==
    /\ mpc = "wait"
    /\ done_count + 1 >= active
    /\ items_left = 0
    /\ mpc' = "idle"
    /\ UNCHANGED <<shared, caller, worker, history>>

\* The spin on done_count ends: next batch item, or return to the caller.
Wait ==
    /\ mpc = "wait"
    /\ done_count >= active
    /\ \/ /\ items_left > 0
          /\ \E n \in 0 .. MaxChunks : SetUpItem(n)
          /\ mpc' = "republish"
          /\ items_left' = items_left - 1
       \/ /\ items_left = 0
          /\ mpc' = "idle"
          /\ UNCHANGED <<item, items_left, history>>
    /\ UNCHANGED <<generation, settings, token, active, cursor, mchunk, worker>>

\* Mutant: the count is not clamped to the pool.
SetActiveWorkersUnclamped ==
    /\ mpc = "idle"
    /\ active_workers' \in 0 .. NWorkers + 1
    /\ UNCHANGED <<generation, item, shutdown, batch_mode, token, main, worker, history>>

\* set_active_workers(n), clamped to the pool size; between dispatches only.
SetActiveWorkers ==
    /\ mpc = "idle"
    /\ active_workers' \in 0 .. NWorkers
    /\ UNCHANGED <<generation, item, shutdown, batch_mode, token, main, worker, history>>

\* begin_batch / end_batch.
SetBatchMode ==
    /\ mpc = "idle"
    /\ batch_mode' = ~batch_mode
    /\ UNCHANGED <<generation, item, shutdown, active_workers, token, main, worker,
                   history>>

\* Drop: shutdown, bump the sequence number, unpark everyone, join.
DropShutdown ==
    /\ mpc = "idle"
    /\ shutdown' = TRUE
    /\ mpc' = "bump"
    /\ UNCHANGED <<generation, item, batch_mode, active_workers, token, caller, worker,
                   history>>

\* Mutant: Drop publishes like a dispatch, stamped with the current active count.
DropBumpStamped ==
    /\ mpc = "bump"
    /\ generation' = [seq |-> generation.seq + 1, active |-> active_workers]
    /\ cursor' = 0
    /\ mpc' = "unpark_all"
    /\ UNCHANGED <<item, settings, token, active, items_left, mchunk, worker, history>>

DropBump ==
    /\ mpc = "bump"
    /\ generation' = [seq |-> generation.seq + 1, active |-> generation.active]
    /\ cursor' = 0
    /\ mpc' = "unpark_all"
    /\ UNCHANGED <<item, settings, token, active, items_left, mchunk, worker, history>>

\* Mutant: only the workers of the last dispatch are unparked.
DropUnparkActive ==
    /\ mpc = "unpark_all"
    /\ \/ /\ cursor < generation.active
          /\ token' = [token EXCEPT ![cursor] = TRUE]
          /\ cursor' = cursor + 1
          /\ mpc' = mpc
       \/ /\ cursor >= generation.active
          /\ mpc' = "join"
          /\ UNCHANGED <<token, cursor>>
    /\ UNCHANGED <<generation, item, settings, active, items_left, mchunk, worker, history>>

DropUnpark ==
    /\ mpc = "unpark_all"
    /\ \/ /\ cursor < NWorkers
          /\ token' = [token EXCEPT ![cursor] = TRUE]
          /\ cursor' = cursor + 1
          /\ mpc' = mpc
       \/ /\ cursor >= NWorkers
          /\ mpc' = "join"
          /\ UNCHANGED <<token, cursor>>
    /\ UNCHANGED <<generation, item, settings, active, items_left, mchunk, worker,
                   history>>

DropJoin ==
    /\ mpc = "join"
    /\ \A w \in Workers : wpc[w] = "exit"
    /\ mpc' = "dropped"
    /\ UNCHANGED <<shared, caller, worker, history>>

-----------------------------------------------------------------------------
(* worker_loop of worker w.                                                *)

\* The hybrid wait reads shutdown ..
CheckShutdown(w) ==
    /\ wpc[w] = "shutdown"
    /\ wpc' = [wpc EXCEPT ![w] = IF shutdown THEN "exit" ELSE "generation"]
    /\ UNCHANGED <<shared, main, locals, history>>

\* Mutant: every worker joins a new generation, counted in it or not.
CheckGenerationAll(w) ==
    /\ wpc[w] = "generation"
    /\ wpc' = [wpc EXCEPT ![w] = IF generation = last_gen[w] THEN "active" ELSE "load"]
    /\ last_gen' = [last_gen EXCEPT ![w] = generation]
    /\ UNCHANGED <<shared, main, wwork, wtotal, wchunk, history>>

\* Mutant: the active count is read apart from the generation.
CheckGenerationApart(w) ==
    /\ wpc[w] = "generation"
    /\ wpc' = [wpc EXCEPT ![w] = IF generation = last_gen[w] THEN "active"
                                 ELSE IF w < active_workers THEN "load" ELSE "shutdown"]
    /\ last_gen' = [last_gen EXCEPT ![w] = generation]
    /\ UNCHANGED <<shared, main, wwork, wtotal, wchunk, history>>

\* .. then generation: a new one is joined only by the workers it counts.
CheckGeneration(w) ==
    /\ wpc[w] = "generation"
    /\ \/ /\ generation = last_gen[w]
          /\ wpc' = [wpc EXCEPT ![w] = "active"]
       \/ /\ generation # last_gen[w]
          /\ wpc' = [wpc EXCEPT ![w] = IF w < generation.active THEN "load"
                                                              ELSE "shutdown"]
    /\ last_gen' = [last_gen EXCEPT ![w] = generation]
    /\ UNCHANGED <<shared, main, wwork, wtotal, wchunk, history>>

\* The spin counter is abstracted: a worker parks after any number of rounds,
\* unless it is active and sees batch mode.
CheckActive(w) ==
    /\ wpc[w] = "active"
    /\ \/ wpc' = [wpc EXCEPT ![w] = "shutdown"]
       \/ w < active_workers /\ wpc' = [wpc EXCEPT ![w] = "batch"]
       \/ w >= active_workers /\ wpc' = [wpc EXCEPT ![w] = "parked"]
    /\ UNCHANGED <<shared, main, locals, history>>

CheckBatch(w) ==
    /\ wpc[w] = "batch"
    /\ wpc' = [wpc EXCEPT ![w] = IF batch_mode THEN "shutdown" ELSE "parked"]
    /\ UNCHANGED <<shared, main, locals, history>>

\* park() returns when the token is there, and takes it.
Unparked(w) ==
    /\ wpc[w] = "parked"
    /\ token[w]
    /\ token' = [token EXCEPT ![w] = FALSE]
    /\ wpc' = [wpc EXCEPT ![w] = "shutdown"]
    /\ UNCHANGED <<generation, item, settings, main, locals, history>>

\* std::thread::park may also return without a token.
SpuriousWakeup(w) ==
    /\ wpc[w] = "parked"
    /\ wpc' = [wpc EXCEPT ![w] = "shutdown"]
    /\ UNCHANGED <<shared, main, locals, history>>

\* steal_work loads the function, its context and the chunk count ..
LoadWork(w) ==
    /\ wpc[w] = "load"
    /\ wwork' = [wwork EXCEPT ![w] = work]
    /\ wtotal' = [wtotal EXCEPT ![w] = total_chunks]
    /\ wpc' = [wpc EXCEPT ![w] = "steal"]
    /\ UNCHANGED <<shared, main, last_gen, wchunk, history>>

\* .. and takes chunks until the counter passes the count it loaded.
StealWork(w) ==
    /\ wpc[w] = "steal"
    /\ next_chunk' = next_chunk + 1
    /\ \/ /\ next_chunk >= wtotal[w]
          /\ wpc' = [wpc EXCEPT ![w] = "done"]
          /\ UNCHANGED <<wchunk, claims>>
       \/ /\ next_chunk < wtotal[w]
          /\ wpc' = [wpc EXCEPT ![w] = "run"]
          /\ wchunk' = [wchunk EXCEPT ![w] = next_chunk]
          /\ claims' = [claims EXCEPT ![next_chunk] = @ + 1]
    /\ UNCHANGED <<generation, work, total_chunks, done_count, settings, token, main,
                   last_gen, wwork, wtotal, finished>>

\* work_fn(ctx, chunk) returns on worker w; its `chunk` is dead.
RunChunk(w) ==
    /\ wpc[w] = "run"
    /\ finished' = finished \cup {wchunk[w]}
    /\ wchunk' = [wchunk EXCEPT ![w] = 0]
    /\ wpc' = [wpc EXCEPT ![w] = "steal"]
    /\ UNCHANGED <<shared, main, last_gen, wwork, wtotal, claims>>

\* steal_work has returned, its locals are dead, and the worker counts itself.
CountDone(w) ==
    /\ wpc[w] = "done"
    /\ done_count' = done_count + 1
    /\ wwork' = [wwork EXCEPT ![w] = 0]
    /\ wtotal' = [wtotal EXCEPT ![w] = 0]
    /\ wpc' = [wpc EXCEPT ![w] = "shutdown"]
    /\ UNCHANGED <<generation, work, total_chunks, next_chunk, settings, token, main,
                   last_gen, wchunk, history>>

WorkerStep(w) ==
    \/ CheckShutdown(w)
    \/ CheckGeneration(w)
    \/ CheckActive(w)
    \/ CheckBatch(w)
    \/ Unparked(w)
    \/ LoadWork(w)
    \/ StealWork(w)
    \/ RunChunk(w)
    \/ CountDone(w)

\* What the dispatching thread does on its own once a call has begun.
MainStep ==
    \/ Publish
    \/ Unpark
    \/ MainSteal
    \/ MainRun
    \/ Wait
    \/ DropBump
    \/ DropUnpark
    \/ DropJoin

\* The calls of the pool's owner.
Call ==
    \/ Dispatch
    \/ DispatchBatch
    \/ SetActiveWorkers
    \/ SetBatchMode
    \/ DropShutdown

\* The pool is gone: nothing is left to happen.
Terminated ==
    /\ mpc = "dropped"
    /\ UNCHANGED vars

Next ==
    \/ Call
    \/ MainStep
    \/ \E w \in Workers : WorkerStep(w) \/ SpuriousWakeup(w)
    \/ Terminated

Spec == Init /\ [][Next]_vars

\* The operating system runs every thread that can run, and work_fn returns. A
\* spurious wakeup is never owed.
Fairness ==
    /\ WF_vars(MainStep)
    /\ \A w \in Workers : WF_vars(WorkerStep(w))

FairSpec == Spec /\ Fairness

-----------------------------------------------------------------------------
(* What the pool promises.                                                 *)

\* Work stealing hands out every chunk at most once per item, and only chunks
\* that exist: no interleaving of the fetch_adds of steal_work, of the counter's
\* reset in dispatch and of a late worker runs a chunk twice.
ExactlyOnce ==
    /\ \A c \in Chunks : claims[c] <= 1
    /\ \A c \in Chunks : claims[c] > 0 => c < total_chunks

\* "Blocks until all are processed": whenever dispatch or dispatch_batch has
\* returned, every chunk of the item has run and its call has come back.
CompleteOnReturn ==
    mpc \notin InDispatch => finished = {c \in Chunks : c < total_chunks}

\* "ctx must remain valid until dispatch returns", and no longer: a worker looks at
\* the item only between its publication and the return, never while the next one
\* is set up, and the function it calls is the current item's.
ContextLive ==
    \A w \in Workers :
        /\ wpc[w] \in AtWork => mpc \notin {"idle", "publish", "republish"}
        /\ wpc[w] = "run" => mpc \notin InDrop /\ wwork[w] = work

\* No lost wakeup: a dispatch that has begun returns, whatever the workers were
\* doing (spinning, about to park, parked, sitting the item out).
DispatchReturns == (mpc = "publish") ~> (mpc = "idle")

\* Drop's join returns: every worker sees the shutdown flag and leaves.
DropJoins == (mpc = "bump") ~> (mpc = "dropped")

\* The pool as its caller sees it, a parallel for: thread -1 is the caller's.
Threads == -1 .. NWorkers - 1
AbsPhase ==
    IF mpc \in InDispatch THEN "busy" ELSE IF mpc \in InDrop THEN "closed" ELSE "open"
AbsPending == {c \in Chunks : c < total_chunks /\ claims[c] = 0}
AbsRunning ==
    [t \in Threads |-> IF t = -1 THEN IF mpc = "run" THEN {mchunk} ELSE {}
                                 ELSE IF wpc[t] = "run" THEN {wchunk[t]} ELSE {}]
Abstract ==
    INSTANCE ParallelFor WITH phase <- AbsPhase, pending <- AbsPending, running <- AbsRunning

\* Every behaviour of the pool is one of the parallel for: chunks start once, while
\* the caller is blocked, and the caller is released when none is left or running.
ImplementsParallelFor == Abstract!Spec

\* A worker that takes a bump of `generation` for a dispatch finds a function some
\* dispatch stored, never the initial null: Drop bumps it too, and a worker that read
\* `shutdown` just before can follow that bump into steal_work.
StoredFunction == \A w \in Workers : wpc[w] = "steal" => wwork[w] # 0

-----------------------------------------------------------------------------
(* The inductive invariant behind the safety properties.                   *)

\* An item has been published and the call has not returned.
Published == {"unpark", "steal", "run", "wait"}

\* The workers that have finished with the current generation.
DoneSet == {w \in Workers : /\ w < generation.active
                            /\ last_gen[w] = generation
                            /\ wpc[w] \notin AtWork}

\* The active count the caller waits for is the one the generation carries.
ActiveAgrees ==
    /\ mpc \in Published \cup {"republish"} => active = active_workers
    /\ mpc \in Published => generation.active = active

\* A worker has never seen a generation newer than the current one; a worker at work
\* has seen the current one, is counted in it, and the call is in progress (or the
\* pool is being dropped).
GenerationsSeen ==
    \A w \in Workers :
        /\ last_gen[w].seq <= generation.seq
        /\ wpc[w] \in AtWork =>
              /\ last_gen[w] = generation
              /\ w < generation.active
              /\ mpc \in Published \cup (InDrop \ {"bump"})

\* Outside a call every worker the last generation counts has seen it.
Quiescent ==
    mpc \in {"idle", "publish", "republish", "bump"} =>
        \A w \in Workers : w < generation.active => last_gen[w] = generation

\* done_count counts exactly the workers that are done with the item.
DoneCounted ==
    /\ mpc \in {"publish", "republish"} => done_count = 0
    /\ mpc \in Published => done_count = Cardinality(DoneSet)

\* What a worker has loaded is the current item.
Loaded ==
    \A w \in Workers :
        wpc[w] \in {"steal", "run", "done"} =>
            wwork[w] = work /\ wtotal[w] = total_chunks

\* The steal counter says which chunks are taken, and each was taken once.
ClaimsCounted ==
    \A c \in Chunks :
        claims[c] = IF c < next_chunk /\ c < total_chunks THEN 1 ELSE 0

\* A running chunk has been taken; a worker runs none while the pool is dropped.
RunningTaken ==
    /\ mpc = "run" => mchunk < next_chunk /\ mchunk < total_chunks
    /\ \A w \in Workers :
          wpc[w] = "run" => /\ mpc \notin InDrop
                            /\ wchunk[w] < next_chunk
                            /\ wchunk[w] < total_chunks

\* A chunk that was taken has finished or is running, and nothing else has finished.
TakenAccounted ==
    /\ \A c \in finished : c < next_chunk /\ c < total_chunks
    /\ \A c \in Chunks :
          c < next_chunk /\ c < total_chunks =>
              \/ c \in finished
              \/ mpc = "run" /\ mchunk = c
              \/ \E w \in Workers : wpc[w] = "run" /\ wchunk[w] = c

\* The caller leaves its own stealing loop only when no chunk is left.
Exhausted ==
    mpc \in InDrop \cup {"wait", "idle"} => next_chunk >= total_chunks

\* The conjunction is preserved by every step of every thread.
Inductive ==
    /\ TypeOK
    /\ ActiveAgrees
    /\ GenerationsSeen
    /\ Quiescent
    /\ DoneCounted
    /\ Loaded
    /\ ClaimsCounted
    /\ RunningTaken
    /\ TakenAccounted
    /\ Exhausted

\* A generation that counts workers was published by a dispatch.
StampedIsStored ==
    mpc \in InDispatch \/ generation.active > 0 => work > 0
=============================================================================
