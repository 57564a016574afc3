--------------------------- MODULE SpinPoolProofs ---------------------------
(***************************************************************************)
(* Proofs about SpinPool, for every number of workers, chunks, batch items *)
(* and work items: the inductive invariant, the safety properties that     *)
(* follow from it, and that the pool implements ParallelFor.               *)
(*                                                                         *)
(* The heart is WaitDone: done_count is the cardinality of the set of      *)
(* counted workers that are through with the generation, so the caller     *)
(* leaves its spin only when that set is all of them.                      *)
(***************************************************************************)
EXTENDS SpinPool, FiniteSetTheorems, TLAPS

\* The workers that are done are among the counted ones, and as many only if all are.
LEMMA DoneSetFinite ==
    ASSUME TypeOK
    PROVE  /\ DoneSet \subseteq 0 .. generation.active - 1
           /\ IsFiniteSet(DoneSet)
           /\ Cardinality(DoneSet) \in Nat
           /\ Cardinality(DoneSet) >= generation.active =>
                 DoneSet = 0 .. generation.active - 1
<1>1. DoneSet \subseteq 0 .. generation.active - 1
  BY ConstantsAssumption DEF DoneSet, TypeOK, Workers, Generations
<1>2. generation.active \in Nat
  BY ConstantsAssumption DEF TypeOK, Generations
<1>3. IsFiniteSet(0 .. generation.active - 1)
      /\ Cardinality(0 .. generation.active - 1) = generation.active
  <2>1. 0 \in Int /\ generation.active - 1 \in Int
    BY <1>2
  <2>2. /\ IsFiniteSet(0 .. generation.active - 1)
        /\ Cardinality(0 .. generation.active - 1) =
              IF 0 > generation.active - 1 THEN 0 ELSE generation.active - 1 - 0 + 1
    BY <2>1, FS_Interval
  <2> QED BY <1>2, <2>2
<1>4. IsFiniteSet(DoneSet) /\ Cardinality(DoneSet) <= generation.active
      /\ (Cardinality(DoneSet) = generation.active => DoneSet = 0 .. generation.active - 1)
  BY <1>1, <1>3, FS_Subset
<1>5. Cardinality(DoneSet) \in Nat
  BY <1>4, FS_CardinalityType
<1> QED
  BY <1>1, <1>2, <1>4, <1>5

\* The caller that leaves the wait finds every counted worker done.
LEMMA WaitDone ==
    ASSUME Inductive, mpc = "wait", done_count >= active
    PROVE  \A w \in Workers :
              /\ wpc[w] \notin AtWork
              /\ w < generation.active => last_gen[w] = generation
<1>1. DoneSet = 0 .. generation.active - 1
  BY DoneSetFinite DEF Inductive, DoneCounted, ActiveAgrees, Published
<1>2. \A w \in Workers : w < generation.active => w \in DoneSet
  BY <1>1, ConstantsAssumption DEF Workers, Inductive, TypeOK, Generations
<1>3. \A w \in Workers : w < generation.active => wpc[w] \notin AtWork /\ last_gen[w] = generation
  BY <1>2 DEF DoneSet
<1> QED
  BY <1>3 DEF Inductive, GenerationsSeen

\* dispatch returns, or dispatch_batch sets up its next item: nobody is at work.
LEMMA WaitStep == ASSUME Inductive, Wait PROVE Inductive'
<1> USE DEF shared, main, item, settings, caller, locals, worker, history, Wait, SetUpItem
<1>0. \A w \in Workers :
              /\ wpc[w] \notin AtWork
              /\ w < generation.active => last_gen[w] = generation
  BY WaitDone
<1>1. TypeOK'
  <2>1. finished' \in SUBSET Chunks /\ claims' \in [Chunks -> Nat]
    BY DEF Inductive, TypeOK
  <2>2. total_chunks' \in 0 .. MaxChunks /\ items_left' \in Nat /\ work' \in Nat /\ next_chunk' \in Nat /\ done_count' \in Nat
    BY ConstantsAssumption DEF Inductive, TypeOK
  <2>3. mpc' \in InDispatch \cup InDrop \cup {"idle"}
    BY DEF InDispatch
  <2> QED BY <2>1, <2>2, <2>3 DEF Inductive, TypeOK
<1>2. GenerationsSeen'
  BY <1>0 DEF Inductive, GenerationsSeen
<1>3. Quiescent'
  BY <1>0 DEF Inductive, Quiescent
<1>4. Loaded' /\ RunningTaken'
  BY <1>0 DEF Loaded, RunningTaken, AtWork
<1>5. TakenAccounted'
  <2>1. CASE items_left > 0
    BY <2>1, ConstantsAssumption DEF Inductive, TakenAccounted, TypeOK, Chunks
  <2>2. CASE items_left = 0
    BY <1>0, <2>2 DEF Inductive, TakenAccounted, AtWork
  <2> QED BY <2>1, <2>2
<1>6. ActiveAgrees' /\ DoneCounted' /\ Exhausted'
  BY DEF Inductive, ActiveAgrees, DoneCounted, Exhausted, Published, InDrop
<1>7. ClaimsCounted'
  BY ConstantsAssumption DEF Inductive, ClaimsCounted, TypeOK, Chunks
<1> QED BY <1>1, <1>2, <1>3, <1>4, <1>5, <1>6, <1>7 DEF Inductive

\* publish(): no worker has seen the new generation, so none is done with it.
LEMMA PublishStep == ASSUME Inductive, Publish PROVE Inductive'
<1> USE DEF shared, main, item, settings, caller, locals, worker, history, Publish
<1>0. TypeOK BY DEF Inductive
<1>1. /\ generation' \in Generations /\ generation'.active = active_workers
      /\ generation'.seq = generation.seq + 1 /\ generation.seq \in Nat
  BY <1>0 DEF TypeOK, Generations
<1>2. TypeOK'
  <2>1. active' \in 0 .. NWorkers /\ cursor' \in 0 .. NWorkers
    BY <1>0, ConstantsAssumption DEF TypeOK
  <2>2. mpc' \in InDispatch \cup InDrop \cup {"idle"}
    BY DEF InDispatch
  <2> QED BY <1>0, <1>1, <2>1, <2>2 DEF TypeOK
<1>3. \A w \in Workers : last_gen[w] \in Generations /\ last_gen[w].seq \in Nat /\ last_gen[w].seq < generation'.seq
  BY <1>0, <1>1 DEF Inductive, GenerationsSeen, TypeOK, Generations
<1>4. \A w \in Workers : wpc[w] \notin AtWork
  BY DEF Inductive, GenerationsSeen, Published, InDrop
<1>5. GenerationsSeen'
  BY <1>1, <1>3, <1>4 DEF GenerationsSeen
<1>6. DoneCounted'
  <2>1. \A w \in Workers : last_gen'[w] # generation'
    BY <1>1, <1>3
  <2>2. DoneSet' = {}
    BY <2>1 DEF DoneSet
  <2> QED BY <2>2, FS_EmptySet DEF Inductive, DoneCounted
<1>7. ActiveAgrees' /\ Quiescent' /\ Exhausted'
  BY <1>1 DEF Inductive, ActiveAgrees, Quiescent, Exhausted, Published, InDrop
<1>8. Loaded' /\ ClaimsCounted' /\ RunningTaken'
  BY <1>4 DEF Inductive, Loaded, ClaimsCounted, RunningTaken, AtWork
<1>9. TakenAccounted'
  BY <1>4 DEF Inductive, TakenAccounted, AtWork
<1> QED BY <1>2, <1>5, <1>6, <1>7, <1>8, <1>9 DEF Inductive

\* A call begins: the stores that set the item up meet no worker at work.
LEMMA DispatchStep == ASSUME Inductive, Dispatch \/ DispatchBatch PROVE Inductive'
<1> USE DEF shared, main, item, settings, caller, locals, worker, history, Dispatch, DispatchBatch, SetUpItem
<1>0. \A w \in Workers : wpc[w] \notin AtWork
  BY DEF Inductive, GenerationsSeen, Published, InDrop
<1>1. TypeOK'
  <2>1. finished' \in SUBSET Chunks /\ claims' \in [Chunks -> Nat]
    BY DEF Inductive, TypeOK
  <2>2. /\ total_chunks' \in 0 .. MaxChunks /\ items_left' \in Nat /\ work' \in Nat
        /\ next_chunk' \in Nat /\ done_count' \in Nat
    BY ConstantsAssumption DEF Inductive, TypeOK
  <2>3. mpc' \in InDispatch \cup InDrop \cup {"idle"}
    BY DEF InDispatch
  <2> QED BY <2>1, <2>2, <2>3 DEF Inductive, TypeOK
<1>2. GenerationsSeen' /\ Quiescent'
  BY <1>0 DEF Inductive, GenerationsSeen, Quiescent
<1>3. Loaded' /\ RunningTaken'
  BY <1>0 DEF Loaded, RunningTaken, AtWork
<1>4. TakenAccounted' /\ ClaimsCounted'
  BY ConstantsAssumption DEF Inductive, TakenAccounted, ClaimsCounted, TypeOK, Chunks
<1>5. ActiveAgrees' /\ DoneCounted' /\ Exhausted'
  BY DEF Inductive, ActiveAgrees, DoneCounted, Exhausted, Published, InDrop
<1> QED BY <1>1, <1>2, <1>3, <1>4, <1>5 DEF Inductive

\* set_active_workers, begin_batch, end_batch and the start of Drop happen between calls.
LEMMA SettingsStep ==
    ASSUME Inductive, SetActiveWorkers \/ SetBatchMode \/ DropShutdown
    PROVE  Inductive'
<1> USE DEF shared, main, item, settings, caller, locals, worker, history, SetActiveWorkers, SetBatchMode, DropShutdown
<1>1. TypeOK'
  BY DEF Inductive, TypeOK, InDrop
<1>2. \A w \in Workers : wpc[w] \notin AtWork
  BY DEF Inductive, GenerationsSeen, Published, InDrop
<1>3. ActiveAgrees' /\ DoneCounted'
  BY DEF ActiveAgrees, DoneCounted, Published
<1>4. GenerationsSeen' /\ Quiescent' /\ ClaimsCounted'
  BY <1>2 DEF Inductive, GenerationsSeen, Quiescent, ClaimsCounted
<1>5. Loaded' /\ RunningTaken'
  BY <1>2 DEF Loaded, RunningTaken, AtWork
<1>6. TakenAccounted' /\ Exhausted'
  BY DEF Inductive, TakenAccounted, Exhausted, InDrop
<1> QED BY <1>1, <1>3, <1>4, <1>5, <1>6 DEF Inductive

\* The unpark loop only hands out tokens.
LEMMA UnparkStep == ASSUME Inductive, Unpark PROVE Inductive'
<1> USE DEF shared, main, item, settings, caller, locals, worker, history, Unpark
<1>1. TypeOK'
  <2>1. cursor' \in 0 .. NWorkers
    BY ConstantsAssumption DEF Inductive, TypeOK
  <2>2. token' \in [Workers -> BOOLEAN]
    BY Zenon DEF Inductive, TypeOK
  <2> QED BY <2>1, <2>2 DEF Inductive, TypeOK, InDispatch
<1>2. ActiveAgrees' /\ Quiescent' /\ Exhausted'
  BY DEF Inductive, ActiveAgrees, Quiescent, Exhausted, Published, InDrop
<1>3. GenerationsSeen'
  BY DEF Inductive, GenerationsSeen, Published
<1>4. DoneCounted'
  BY DEF Inductive, DoneCounted, DoneSet, Published
<1>5. Loaded' /\ ClaimsCounted' /\ RunningTaken' /\ TakenAccounted'
  BY DEF Inductive, Loaded, ClaimsCounted, RunningTaken, TakenAccounted, InDrop
<1> QED BY <1>1, <1>2, <1>3, <1>4, <1>5 DEF Inductive

\* A fetch_add of the caller takes the next chunk, or finds none left.
LEMMA MainStealStep == ASSUME Inductive, MainSteal PROVE Inductive'
<1> USE DEF shared, main, item, settings, caller, locals, worker, history, MainSteal
<1>1. TypeOK'
  <2>1. next_chunk' \in Nat /\ mchunk' \in Nat /\ claims' \in [Chunks -> Nat]
    BY ConstantsAssumption DEF Inductive, TypeOK
  <2> QED BY <2>1 DEF Inductive, TypeOK, InDispatch
<1>2. ActiveAgrees' /\ Quiescent' /\ Exhausted'
  BY DEF Inductive, TypeOK, ActiveAgrees, Quiescent, Exhausted, Published, InDrop
<1>3. GenerationsSeen'
  BY DEF Inductive, GenerationsSeen, Published
<1>4. DoneCounted'
  BY DEF Inductive, DoneCounted, DoneSet, Published
<1>5. Loaded'
  BY DEF Inductive, Loaded
<1>6. ClaimsCounted'
  <2>1. CASE next_chunk >= total_chunks
    <3>1. UNCHANGED <<claims, total_chunks>> /\ next_chunk' = next_chunk + 1
      BY <2>1 DEF Inductive, TypeOK
    <3> QED BY <2>1, <3>1, ConstantsAssumption DEF Inductive, TypeOK, ClaimsCounted, Chunks
  <2>2. CASE next_chunk < total_chunks
    <3>1. next_chunk \in Chunks /\ next_chunk' = next_chunk + 1
      BY <2>2, ConstantsAssumption DEF Inductive, TypeOK, Chunks
    <3>2. claims' = [claims EXCEPT ![next_chunk] = claims[next_chunk] + 1]
      BY <2>2 DEF Inductive, TypeOK
    <3>3. claims[next_chunk] = 0
      BY <3>1 DEF Inductive, ClaimsCounted, TypeOK
    <3> QED BY <2>2, <3>1, <3>2, <3>3 DEF Inductive, TypeOK, ClaimsCounted, Chunks
  <2> QED BY <2>1, <2>2 DEF Inductive, TypeOK
<1>7. RunningTaken'
  BY DEF Inductive, TypeOK, RunningTaken, InDrop
<1>8. TakenAccounted'
  BY ConstantsAssumption DEF Inductive, TypeOK, TakenAccounted, Chunks
<1> QED BY <1>1, <1>2, <1>3, <1>4, <1>5, <1>6, <1>7, <1>8 DEF Inductive

\* The caller's chunk ends.
LEMMA MainRunStep == ASSUME Inductive, MainRun PROVE Inductive'
<1> USE DEF shared, main, item, settings, caller, locals, worker, history, MainRun
<1>1. mchunk \in Chunks
  BY ConstantsAssumption DEF Inductive, TypeOK, RunningTaken, Chunks
<1>2. TypeOK'
  BY <1>1 DEF Inductive, TypeOK, InDispatch
<1>3. ActiveAgrees' /\ Quiescent' /\ Exhausted'
  BY DEF Inductive, ActiveAgrees, Quiescent, Exhausted, Published, InDrop
<1>4. GenerationsSeen'
  BY DEF Inductive, GenerationsSeen, Published
<1>5. DoneCounted'
  BY DEF Inductive, DoneCounted, DoneSet, Published
<1>6. Loaded' /\ ClaimsCounted' /\ RunningTaken' /\ TakenAccounted'
  BY DEF Inductive, Loaded, ClaimsCounted, RunningTaken, TakenAccounted, InDrop
<1> QED BY <1>2, <1>3, <1>4, <1>5, <1>6 DEF Inductive

\* Drop's bump publishes a generation no item belongs to.
LEMMA DropBumpStep == ASSUME Inductive, DropBump PROVE Inductive'
<1> USE DEF shared, main, item, settings, caller, locals, worker, history, DropBump
<1>1. /\ generation' \in Generations
      /\ generation'.seq = generation.seq + 1 /\ generation.seq \in Nat
  BY DEF Inductive, TypeOK, Generations
<1>2. TypeOK'
  BY <1>1, ConstantsAssumption DEF Inductive, TypeOK, InDrop
<1>3. \A w \in Workers : wpc[w] \notin AtWork
  BY DEF Inductive, GenerationsSeen, Published, InDrop
<1>4. GenerationsSeen'
  BY <1>1, <1>3 DEF Inductive, GenerationsSeen, TypeOK, Generations
<1>5. ActiveAgrees' /\ Quiescent' /\ DoneCounted' /\ Exhausted'
  BY DEF Inductive, ActiveAgrees, Quiescent, DoneCounted, Exhausted, Published, InDrop
<1>6. Loaded' /\ ClaimsCounted' /\ RunningTaken' /\ TakenAccounted'
  BY <1>3 DEF Inductive, Loaded, ClaimsCounted, RunningTaken, TakenAccounted, AtWork
<1> QED BY <1>2, <1>4, <1>5, <1>6 DEF Inductive

\* Drop's unparks and join.
LEMMA DropEndStep == ASSUME Inductive, DropUnpark \/ DropJoin PROVE Inductive'
<1> USE DEF shared, main, item, settings, caller, locals, worker, history, DropUnpark, DropJoin
<1>1. TypeOK'
  <2>1. cursor' \in 0 .. NWorkers
    BY ConstantsAssumption DEF Inductive, TypeOK
  <2>2. token' \in [Workers -> BOOLEAN]
    BY Zenon DEF Inductive, TypeOK
  <2> QED BY <2>1, <2>2 DEF Inductive, TypeOK, InDrop
<1>2. ActiveAgrees' /\ Quiescent' /\ DoneCounted' /\ Exhausted'
  BY DEF Inductive, ActiveAgrees, Quiescent, DoneCounted, Exhausted, Published, InDrop
<1>3. GenerationsSeen'
  BY DEF Inductive, GenerationsSeen, Published, InDrop
<1>4. Loaded' /\ ClaimsCounted' /\ RunningTaken' /\ TakenAccounted'
  BY DEF Inductive, Loaded, ClaimsCounted, RunningTaken, TakenAccounted, InDrop
<1> QED BY <1>1, <1>2, <1>3, <1>4 DEF Inductive

\* A worker that moves between states of the hybrid wait disturbs nothing.
LEMMA WaitingStep ==
    ASSUME Inductive,
           NEW w \in Workers,
           NEW s \in {"shutdown", "generation", "active", "batch", "parked", "exit"},
           wpc[w] \notin AtWork,
           wpc' = [wpc EXCEPT ![w] = s],
           token' \in [Workers -> BOOLEAN],
           UNCHANGED <<generation, next_chunk, done_count, total_chunks, work, shutdown,
                       batch_mode, active_workers, main, last_gen, wwork, wtotal, wchunk,
                       history>>
    PROVE  Inductive'
<1> USE DEF item, settings, caller, locals, main, history
<1>1. s \notin AtWork
  BY DEF AtWork
<1>2. TypeOK'
  BY DEF Inductive, TypeOK
<1>3. \A v \in Workers : (wpc'[v] \in AtWork \/ wpc[v] \in AtWork) => wpc'[v] = wpc[v]
  BY <1>1 DEF Inductive, TypeOK
<1>4. DoneSet' = DoneSet
  BY <1>3, Zenon DEF DoneSet
<1>5. ActiveAgrees' /\ Quiescent' /\ ClaimsCounted' /\ Exhausted'
  BY DEF Inductive, ActiveAgrees, Quiescent, ClaimsCounted, Exhausted
<1>6. GenerationsSeen'
  BY <1>3 DEF Inductive, GenerationsSeen
<1>7. DoneCounted'
  BY <1>4 DEF Inductive, DoneCounted
<1>8. Loaded' /\ RunningTaken' /\ TakenAccounted'
  BY <1>3 DEF Inductive, Loaded, RunningTaken, TakenAccounted, AtWork
<1> QED BY <1>2, <1>5, <1>6, <1>7, <1>8 DEF Inductive

\* shutdown, active_workers and batch_mode checks, park and its two ways back.
LEMMA HybridWaitStep ==
    ASSUME Inductive, NEW w \in Workers,
           \/ CheckShutdown(w) \/ CheckActive(w) \/ CheckBatch(w)
           \/ Unparked(w) \/ SpuriousWakeup(w)
    PROVE  Inductive'
<1>1. wpc[w] \notin AtWork
  BY DEF AtWork, CheckShutdown, CheckActive, CheckBatch, Unparked, SpuriousWakeup
<1>2. PICK s \in {"shutdown", "generation", "active", "batch", "parked", "exit"} :
         wpc' = [wpc EXCEPT ![w] = s]
  BY Zenon DEF CheckShutdown, CheckActive, CheckBatch, Unparked, SpuriousWakeup
<1>3. token' \in [Workers -> BOOLEAN]
  BY Zenon DEF Inductive, TypeOK, item, settings, caller, locals, shared,
               CheckShutdown, CheckActive, CheckBatch, Unparked, SpuriousWakeup
<1>4. UNCHANGED <<generation, next_chunk, done_count, total_chunks, work, shutdown,
                  batch_mode, active_workers, main, last_gen, wwork, wtotal, wchunk,
                  history>>
  BY DEF item, settings, caller, locals, shared, CheckShutdown, CheckActive, CheckBatch, Unparked, SpuriousWakeup
<1> QED BY <1>1, <1>2, <1>3, <1>4, WaitingStep

\* A worker sees a generation, and joins it if it is counted in it.
LEMMA CheckGenerationStep ==
    ASSUME Inductive, NEW w \in Workers, CheckGeneration(w)
    PROVE  Inductive'
<1> USE DEF shared, item, settings, caller, locals, main, history, CheckGeneration
<1>0. TypeOK
  BY DEF Inductive
<1>1. TypeOK'
  BY <1>0 DEF TypeOK, AtWork
<1>2. /\ wpc[w] \notin AtWork
      /\ last_gen'[w] = generation
      /\ \A v \in Workers \ {w} : wpc'[v] = wpc[v] /\ last_gen'[v] = last_gen[v]
  BY <1>0 DEF TypeOK, AtWork
<1>3. wpc'[w] \in {"active", "shutdown", "load"}
  BY <1>0 DEF TypeOK
<1>4. wpc'[w] = "load" => generation # last_gen[w] /\ w < generation.active
  BY <1>0 DEF TypeOK
<1>5. ActiveAgrees' /\ ClaimsCounted' /\ Exhausted'
  BY DEF Inductive, ActiveAgrees, ClaimsCounted, Exhausted
<1>6. Quiescent'
  BY <1>2 DEF Inductive, Quiescent
<1>7. GenerationsSeen'
  <2>1. generation.seq \in Nat
    BY <1>0 DEF TypeOK, Generations
  <2>2. wpc'[w] = "load" => mpc \in Published \cup (InDrop \ {"bump"})
    BY <1>4 DEF Inductive, TypeOK, Quiescent, Published, InDispatch, InDrop
  <2> QED BY <1>2, <1>3, <1>4, <2>1, <2>2 DEF Inductive, GenerationsSeen, AtWork
<1>8. DoneCounted'
  <2>1. DoneSet' = DoneSet
    <3>1. \A v \in Workers \ {w} : v \in DoneSet' <=> v \in DoneSet
      BY <1>2 DEF DoneSet
    <3>2. w \in DoneSet' <=> w \in DoneSet
      BY <1>0, <1>2 DEF DoneSet, TypeOK, AtWork
    <3> QED BY <3>1, <3>2 DEF DoneSet
  <2> QED BY <2>1 DEF Inductive, DoneCounted
<1>9. Loaded' /\ RunningTaken' /\ TakenAccounted'
  BY <1>2, <1>3 DEF Inductive, Loaded, RunningTaken, TakenAccounted, AtWork
<1> QED BY <1>1, <1>5, <1>6, <1>7, <1>8, <1>9 DEF Inductive

\* A worker loads the current item.
LEMMA LoadWorkStep ==
    ASSUME Inductive, NEW w \in Workers, LoadWork(w)
    PROVE  Inductive'
<1> USE DEF shared, item, settings, caller, locals, main, history, LoadWork
<1>1. TypeOK'
  BY DEF Inductive, TypeOK, AtWork
<1>2. /\ wpc[w] = "load" /\ wpc'[w] = "steal"
      /\ wwork'[w] = work /\ wtotal'[w] = total_chunks
      /\ \A v \in Workers \ {w} : /\ wpc'[v] = wpc[v]
                                  /\ wwork'[v] = wwork[v] /\ wtotal'[v] = wtotal[v]
  BY DEF Inductive, TypeOK
<1>3. DoneSet' = DoneSet
  BY <1>2 DEF DoneSet, AtWork
<1>4. ActiveAgrees' /\ Quiescent' /\ ClaimsCounted' /\ Exhausted'
  BY DEF Inductive, ActiveAgrees, Quiescent, ClaimsCounted, Exhausted
<1>5. GenerationsSeen'
  BY <1>2 DEF Inductive, GenerationsSeen, AtWork
<1>6. DoneCounted'
  BY <1>3 DEF Inductive, DoneCounted
<1>7. Loaded' /\ RunningTaken' /\ TakenAccounted'
  BY <1>2 DEF Inductive, Loaded, RunningTaken, TakenAccounted
<1> QED BY <1>1, <1>4, <1>5, <1>6, <1>7 DEF Inductive

\* A fetch_add of a worker takes the next chunk, or finds none left.
LEMMA StealWorkStep ==
    ASSUME Inductive, NEW w \in Workers, StealWork(w)
    PROVE  Inductive'
<1> USE DEF shared, item, settings, caller, locals, main, StealWork
<1>0. /\ wtotal[w] = total_chunks
      /\ next_chunk \in Nat /\ total_chunks \in Nat /\ total_chunks <= MaxChunks
  BY ConstantsAssumption DEF Inductive, TypeOK, Loaded
<1>1. /\ wpc[w] = "steal" /\ wpc'[w] \in {"done", "run"}
      /\ \A v \in Workers \ {w} : wpc'[v] = wpc[v] /\ wchunk'[v] = wchunk[v]
  BY DEF Inductive, TypeOK
<1>2. TypeOK'
  <2>1. next_chunk' \in Nat /\ wchunk' \in [Workers -> Nat] /\ claims' \in [Chunks -> Nat]
    BY <1>0 DEF Inductive, TypeOK
  <2> QED BY <2>1 DEF Inductive, TypeOK, AtWork
<1>3. DoneSet' = DoneSet
  BY <1>1 DEF DoneSet, AtWork
<1>4. ActiveAgrees' /\ Quiescent' /\ Exhausted'
  BY <1>0 DEF Inductive, ActiveAgrees, Quiescent, Exhausted
<1>5. GenerationsSeen' /\ Loaded'
  BY <1>1 DEF Inductive, GenerationsSeen, Loaded, AtWork
<1>6. DoneCounted'
  BY <1>3 DEF Inductive, DoneCounted
<1>7. ClaimsCounted' /\ RunningTaken' /\ TakenAccounted'
  <2>1. CASE next_chunk >= total_chunks
    <3>1. /\ UNCHANGED <<claims, finished, total_chunks, mpc, mchunk, wchunk>>
          /\ next_chunk' = next_chunk + 1 /\ wpc'[w] = "done"
      BY <1>0, <2>1 DEF Inductive, TypeOK
    <3>2. ClaimsCounted'
      BY <1>0, <2>1, <3>1, ConstantsAssumption DEF Inductive, ClaimsCounted, Chunks
    <3>3. RunningTaken'
      BY <1>0, <1>1, <3>1 DEF Inductive, TypeOK, RunningTaken
    <3>4. TakenAccounted'
      <4>1. \A v \in Workers : wpc[v] = "run" => wpc'[v] = "run" /\ wchunk'[v] = wchunk[v]
        BY <1>1, <3>1
      <4>2. \A c \in finished' : c < next_chunk' /\ c < total_chunks'
        BY <1>0, <3>1, ConstantsAssumption DEF Inductive, TypeOK, TakenAccounted, Chunks
      <4>3. \A c \in Chunks : c < total_chunks' => c < next_chunk
        BY <1>0, <2>1, <3>1, ConstantsAssumption DEF Chunks
      <4> QED BY <3>1, <4>1, <4>2, <4>3 DEF Inductive, TakenAccounted
    <3> QED BY <3>2, <3>3, <3>4
  <2>2. CASE next_chunk < total_chunks
    <3>1. /\ UNCHANGED <<finished, total_chunks, mpc, mchunk>>
          /\ next_chunk' = next_chunk + 1 /\ wpc'[w] = "run"
          /\ wchunk'[w] = next_chunk
          /\ claims' = [claims EXCEPT ![next_chunk] = claims[next_chunk] + 1]
      BY <1>0, <2>2 DEF Inductive, TypeOK
    <3>2. next_chunk \in Chunks /\ claims[next_chunk] = 0
      BY <1>0, <2>2, ConstantsAssumption DEF Inductive, ClaimsCounted, Chunks
    <3>3. ClaimsCounted'
      BY <1>0, <2>2, <3>1, <3>2, ConstantsAssumption
         DEF Inductive, TypeOK, ClaimsCounted, Chunks
    <3>4. RunningTaken'
      <4>1. mpc \notin InDrop
        BY <1>0, <2>2 DEF Inductive, Exhausted
      <4> QED BY <1>0, <1>1, <2>2, <3>1, <4>1 DEF Inductive, TypeOK, RunningTaken
    <3>5. TakenAccounted'
      <4>1. \A v \in Workers : wpc[v] = "run" => wpc'[v] = "run" /\ wchunk'[v] = wchunk[v]
        BY <1>1
      <4>2. \A c \in finished' : c < next_chunk' /\ c < total_chunks'
        BY <1>0, <3>1, ConstantsAssumption DEF Inductive, TypeOK, TakenAccounted, Chunks
      <4>3. ASSUME NEW c \in Chunks, c < next_chunk', c < total_chunks'
            PROVE  \/ c \in finished'
                   \/ mpc' = "run" /\ mchunk' = c
                   \/ \E v \in Workers : wpc'[v] = "run" /\ wchunk'[v] = c
        <5>1. CASE c = next_chunk
          BY <3>1, <5>1
        <5>2. CASE c < next_chunk
          BY <3>1, <4>1, <4>3, <5>2 DEF Inductive, TakenAccounted
        <5> QED BY <1>0, <3>1, <4>3, <5>1, <5>2, ConstantsAssumption DEF Chunks
      <4> QED BY <4>2, <4>3 DEF TakenAccounted
    <3> QED BY <3>3, <3>4, <3>5
  <2> QED BY <1>0, <2>1, <2>2
<1> QED BY <1>2, <1>4, <1>5, <1>6, <1>7 DEF Inductive

\* A worker's chunk ends.
LEMMA RunChunkStep ==
    ASSUME Inductive, NEW w \in Workers, RunChunk(w)
    PROVE  Inductive'
<1> USE DEF shared, item, settings, caller, locals, main, RunChunk
<1>0. wchunk[w] \in Chunks /\ wchunk[w] < next_chunk /\ wchunk[w] < total_chunks
  BY ConstantsAssumption DEF Inductive, TypeOK, RunningTaken, Chunks
<1>1. /\ wpc[w] = "run" /\ wpc'[w] = "steal"
      /\ \A v \in Workers \ {w} : wpc'[v] = wpc[v] /\ wchunk'[v] = wchunk[v]
  BY DEF Inductive, TypeOK
<1>2. TypeOK'
  BY <1>0 DEF Inductive, TypeOK, AtWork
<1>3. DoneSet' = DoneSet
  BY <1>1 DEF DoneSet, AtWork
<1>4. ActiveAgrees' /\ Quiescent' /\ ClaimsCounted' /\ Exhausted'
  BY DEF Inductive, ActiveAgrees, Quiescent, ClaimsCounted, Exhausted
<1>5. GenerationsSeen' /\ Loaded'
  BY <1>1 DEF Inductive, GenerationsSeen, Loaded, AtWork
<1>6. DoneCounted'
  BY <1>3 DEF Inductive, DoneCounted
<1>7. RunningTaken' /\ TakenAccounted'
  BY <1>0, <1>1 DEF Inductive, RunningTaken, TakenAccounted
<1> QED BY <1>2, <1>4, <1>5, <1>6, <1>7 DEF Inductive

\* A worker counts itself into done_count, once per generation.
LEMMA CountDoneStep ==
    ASSUME Inductive, NEW w \in Workers, CountDone(w)
    PROVE  Inductive'
<1> USE DEF shared, item, settings, caller, locals, main, history, CountDone
<1>1. TypeOK'
  <2>1. done_count' \in Nat /\ wwork' \in [Workers -> Nat]
        /\ wtotal' \in [Workers -> 0 .. MaxChunks]
    BY ConstantsAssumption DEF Inductive, TypeOK
  <2> QED BY <2>1 DEF Inductive, TypeOK
<1>2. /\ wpc[w] = "done" /\ wpc'[w] = "shutdown"
      /\ \A v \in Workers \ {w} : /\ wpc'[v] = wpc[v]
                                  /\ wwork'[v] = wwork[v] /\ wtotal'[v] = wtotal[v]
  BY DEF Inductive, TypeOK
<1>3. ActiveAgrees' /\ Quiescent' /\ ClaimsCounted' /\ Exhausted'
  BY DEF Inductive, ActiveAgrees, Quiescent, ClaimsCounted, Exhausted
<1>4. GenerationsSeen' /\ Loaded'
  BY <1>2 DEF Inductive, GenerationsSeen, Loaded, AtWork
<1>5. DoneCounted'
  <2>1. w \notin DoneSet /\ DoneSet' = DoneSet \cup {w}
    BY <1>2 DEF Inductive, GenerationsSeen, DoneSet, AtWork
  <2>2. IsFiniteSet(DoneSet) /\ Cardinality(DoneSet) \in Nat
    BY DoneSetFinite DEF Inductive
  <2>3. Cardinality(DoneSet') = Cardinality(DoneSet) + 1
    BY <2>1, <2>2, FS_AddElement
  <2>4. mpc \notin {"publish", "republish"}
    BY <1>2 DEF Inductive, GenerationsSeen, Published, InDrop, AtWork
  <2> QED BY <2>3, <2>4 DEF Inductive, DoneCounted
<1>6. RunningTaken' /\ TakenAccounted'
  BY <1>2 DEF Inductive, RunningTaken, TakenAccounted
<1> QED BY <1>1, <1>3, <1>4, <1>5, <1>6 DEF Inductive

\* SpinPool::new establishes the invariant.
LEMMA InitInductive == Init => Inductive
<1> SUFFICES ASSUME Init PROVE Inductive
  OBVIOUS
<1> USE ConstantsAssumption DEF Init
<1>1. generation \in Generations /\ generation.active = 0 /\ generation.seq = 0
  BY DEF Generations
<1>2. TypeOK
  <2>1. /\ last_gen \in [Workers -> Generations] /\ wwork \in [Workers -> Nat]
        /\ wtotal \in [Workers -> 0 .. MaxChunks] /\ wchunk \in [Workers -> Nat]
    BY DEF Generations
  <2>2. token \in [Workers -> BOOLEAN] /\ claims \in [Chunks -> Nat] /\ finished \in SUBSET Chunks
    OBVIOUS
  <2>3. wpc \in [Workers -> AtWork \cup {"shutdown", "generation", "active",
                                        "batch", "parked", "exit"}]
    OBVIOUS
  <2>4. /\ total_chunks \in 0 .. MaxChunks /\ active_workers \in 0 .. NWorkers
        /\ active \in 0 .. NWorkers /\ cursor \in 0 .. NWorkers
    OBVIOUS
  <2> QED BY <1>1, <2>1, <2>2, <2>3, <2>4 DEF TypeOK
<1>3. \A w \in Workers : wpc[w] \notin AtWork /\ last_gen[w] = generation
  BY DEF AtWork
<1>4. ActiveAgrees /\ GenerationsSeen /\ Quiescent /\ DoneCounted /\ Exhausted
  BY <1>1, <1>3 DEF ActiveAgrees, GenerationsSeen, Quiescent, DoneCounted, Exhausted,
                    Published, InDrop
<1>5. Loaded /\ RunningTaken
  BY <1>3 DEF Loaded, RunningTaken, AtWork
<1>6. ClaimsCounted /\ TakenAccounted
  BY DEF ClaimsCounted, TakenAccounted, Chunks
<1> QED BY <1>2, <1>4, <1>5, <1>6 DEF Inductive

\* A step that changes nothing preserves it.
LEMMA StutterStep == ASSUME Inductive, UNCHANGED vars PROVE Inductive'
<1> USE DEF vars, shared, main, item, settings, caller, locals, worker, history
<1>1. TypeOK' /\ ActiveAgrees' /\ GenerationsSeen' /\ Quiescent'
  BY DEF Inductive, TypeOK, ActiveAgrees, GenerationsSeen, Quiescent
<1>2. DoneCounted' /\ Loaded'
  BY DEF Inductive, DoneCounted, DoneSet, Loaded
<1>3. ClaimsCounted' /\ RunningTaken' /\ TakenAccounted' /\ Exhausted'
  BY DEF Inductive, ClaimsCounted, RunningTaken, TakenAccounted, Exhausted
<1> QED BY <1>1, <1>2, <1>3 DEF Inductive

\* Every step preserves it.
LEMMA NextInductive == Inductive /\ [Next]_vars => Inductive'
<1> SUFFICES ASSUME Inductive, [Next]_vars PROVE Inductive'
  OBVIOUS
<1>1. CASE Call
  BY <1>1, DispatchStep, SettingsStep DEF Call
<1>2. CASE MainStep
  BY <1>2, PublishStep, UnparkStep, MainStealStep, MainRunStep, WaitStep, DropBumpStep,
     DropEndStep DEF MainStep
<1>3. CASE \E w \in Workers : WorkerStep(w) \/ SpuriousWakeup(w)
  BY <1>3, HybridWaitStep, CheckGenerationStep, LoadWorkStep, StealWorkStep, RunChunkStep,
     CountDoneStep DEF WorkerStep
<1>4. CASE Terminated \/ UNCHANGED vars
  BY <1>4, StutterStep DEF Terminated
<1> QED BY <1>1, <1>2, <1>3, <1>4 DEF Next

\* Every reachable state of the pool, for any number of workers, chunks, batch items
\* and dispatches, satisfies the inductive invariant (thread_pool.rs as a whole).
THEOREM AlwaysInductive == Spec => []Inductive
<1> QED BY InitInductive, NextInductive, PTL DEF Spec

\* The pool's state is always well-typed; in particular the active count never
\* exceeds the pool and every finished chunk is a chunk.
THEOREM AlwaysTypeOK == Spec => []TypeOK
<1>1. Inductive => TypeOK
  BY DEF Inductive
<1> QED BY <1>1, AlwaysInductive, PTL

\* steal_work never hands a chunk out twice within an item, and never one beyond it.
THEOREM AlwaysExactlyOnce == Spec => []ExactlyOnce
<1>1. Inductive => ExactlyOnce
  BY ConstantsAssumption DEF Inductive, ClaimsCounted, ExactlyOnce, Chunks
<1> QED BY <1>1, AlwaysInductive, PTL

\* dispatch and dispatch_batch return only when every chunk of the item has returned.
THEOREM AlwaysCompleteOnReturn == Spec => []CompleteOnReturn
<1>1. Inductive => CompleteOnReturn
  <2> SUFFICES ASSUME Inductive, mpc \notin InDispatch
               PROVE  finished = {c \in Chunks : c < total_chunks}
    BY DEF CompleteOnReturn
  <2>1. mpc # "run" /\ mpc \in InDrop \cup {"idle"}
    BY DEF Inductive, TypeOK, InDispatch
  <2>2. \A w \in Workers : wpc[w] # "run"
    BY <2>1 DEF Inductive, GenerationsSeen, RunningTaken, Published, InDispatch, InDrop, AtWork
  <2>3. next_chunk >= total_chunks
    BY <2>1 DEF Inductive, Exhausted
  <2>4. \A c \in Chunks : c < total_chunks => c \in finished
    BY <2>1, <2>2, <2>3, ConstantsAssumption DEF Inductive, TypeOK, TakenAccounted, Chunks
  <2> QED BY <2>4 DEF Inductive, TypeOK, TakenAccounted
<1> QED BY <1>1, AlwaysInductive, PTL

\* No worker touches an item's function or context outside the call that published it.
THEOREM AlwaysContextLive == Spec => []ContextLive
<1>1. Inductive => ContextLive
  <2> SUFFICES ASSUME Inductive, NEW w \in Workers
               PROVE  /\ wpc[w] \in AtWork => mpc \notin {"idle", "publish", "republish"}
                      /\ wpc[w] = "run" => mpc \notin InDrop /\ wwork[w] = work
    BY DEF ContextLive
  <2>1. wpc[w] \in AtWork => mpc \notin {"idle", "publish", "republish"}
    BY DEF Inductive, GenerationsSeen, Published, InDrop
  <2>2. wpc[w] = "run" => mpc \notin InDrop /\ wwork[w] = work
    BY DEF Inductive, RunningTaken, Loaded
  <2> QED BY <2>1, <2>2
<1> QED BY <1>1, AlwaysInductive, PTL

\* A worker never calls the initial null function, not even when it takes Drop's bump of
\* the generation for a dispatch: that bump keeps the count of the last dispatch.
THEOREM AlwaysStoredFunction == Spec => []StoredFunction
<1>1. Init => StampedIsStored
  BY DEF Init, StampedIsStored, InDispatch
<1>2. Inductive /\ StampedIsStored /\ [Next]_vars => StampedIsStored'
  <2> SUFFICES ASSUME Inductive, StampedIsStored, [Next]_vars
               PROVE  StampedIsStored'
    OBVIOUS
  <2> USE DEF item, settings, caller, locals, shared, main, worker, history, vars
  <2>1. CASE Dispatch \/ DispatchBatch \/ Wait
    BY <2>1 DEF Dispatch, DispatchBatch, Wait, SetUpItem, Inductive, TypeOK,
                StampedIsStored, InDispatch
  <2>2. CASE Publish
    BY <2>2 DEF Publish, StampedIsStored, InDispatch
  <2>3. CASE DropBump
    BY <2>3 DEF DropBump, StampedIsStored, InDispatch
  <2>4. CASE \/ SetActiveWorkers \/ SetBatchMode \/ DropShutdown \/ Unpark \/ MainSteal
             \/ MainRun \/ DropUnpark \/ DropJoin \/ Terminated \/ UNCHANGED vars
    BY <2>4 DEF SetActiveWorkers, SetBatchMode, DropShutdown, Unpark, MainSteal, MainRun,
                DropUnpark, DropJoin, Terminated, StampedIsStored, InDispatch
  <2>5. CASE \E w \in Workers : WorkerStep(w) \/ SpuriousWakeup(w)
    BY <2>5 DEF WorkerStep, SpuriousWakeup, CheckShutdown, CheckGeneration, CheckActive,
                CheckBatch, Unparked, LoadWork, StealWork, RunChunk, CountDone,
                StampedIsStored
  <2> QED BY <2>1, <2>2, <2>3, <2>4, <2>5 DEF Next, Call, MainStep
<1>3. Inductive /\ StampedIsStored => StoredFunction
  BY ConstantsAssumption DEF Inductive, TypeOK, Generations, GenerationsSeen, Loaded,
     StampedIsStored, StoredFunction, AtWork, Workers
<1> QED BY <1>1, <1>2, <1>3, AlwaysInductive, PTL DEF Spec

-----------------------------------------------------------------------------
(* The pool implements the parallel for.                                   *)

\* The chunks of an item of n chunks, in the two modules' words.
LEMMA ItemChunks ==
    ASSUME NEW n \in 0 .. MaxChunks
    PROVE  {c \in Chunks : c < n} = Abstract!Item(n)
BY ConstantsAssumption DEF Chunks, Abstract!Item

\* The threads of the parallel for are the caller and the workers.
LEMMA ThreadSet ==
    /\ -1 \in Threads
    /\ \A t \in Threads : t # -1 => t \in Workers
    /\ \A w \in Workers : w \in Threads /\ w # -1
BY ConstantsAssumption DEF Threads, Workers

\* A step that moves no program counter from or to "run" changes nothing that runs.
LEMMA SameRunning ==
    ASSUME UNCHANGED <<mchunk, wchunk>>,
           (mpc = "run") <=> (mpc' = "run"),
           \A w \in Workers : (wpc[w] = "run") <=> (wpc'[w] = "run")
    PROVE  UNCHANGED AbsRunning
BY ThreadSet DEF AbsRunning

\* If it also keeps the phase and the claims, the caller cannot see it.
LEMMA Invisible ==
    ASSUME UNCHANGED <<AbsPhase, total_chunks, claims, mchunk, wchunk>>,
           (mpc = "run") <=> (mpc' = "run"),
           \A w \in Workers : (wpc[w] = "run") <=> (wpc'[w] = "run")
    PROVE  UNCHANGED Abstract!vars
<1>1. AbsPending' = AbsPending
  BY DEF AbsPending
<1> QED BY <1>1, SameRunning DEF Abstract!vars

\* A call of dispatch or dispatch_batch begins a parallel for.
LEMMA BeginRefines ==
    ASSUME Inductive, Dispatch \/ DispatchBatch
    PROVE  Abstract!Begin
<1> USE DEF Dispatch, DispatchBatch, SetUpItem, item, settings, caller, locals, worker
<1>1. \A w \in Workers : wpc[w] # "run"
  BY DEF Inductive, GenerationsSeen, AtWork, Published, InDrop
<1>2. Abstract!AllIdle
  BY <1>1, ThreadSet DEF Abstract!AllIdle, AbsRunning
<1>3. UNCHANGED AbsRunning
  BY <1>1, SameRunning
<1>4. AbsPhase = "open" /\ AbsPhase' = "busy"
  BY DEF AbsPhase, InDispatch, InDrop
<1>5. PICK n \in 0 .. MaxChunks : SetUpItem(n)
  BY ConstantsAssumption
<1>6. AbsPending' = Abstract!Item(n)
  BY <1>5, ItemChunks DEF AbsPending
<1> QED BY <1>2, <1>3, <1>4, <1>6 DEF Abstract!Begin

\* The end of the spin on done_count is the next item or the return.
LEMMA WaitRefines ==
    ASSUME Inductive, Wait
    PROVE  Abstract!NextItem \/ Abstract!Return
<1> USE DEF Wait, item, settings, caller, locals, worker, history
<1>1. \A w \in Workers : wpc[w] # "run"
  BY WaitDone DEF AtWork
<1>2. Abstract!AllIdle
  BY <1>1, ThreadSet DEF Abstract!AllIdle, AbsRunning
<1>3. UNCHANGED AbsRunning
  BY <1>1, SameRunning DEF SetUpItem
<1>4. AbsPending = {}
  BY ConstantsAssumption
     DEF Inductive, TypeOK, Exhausted, ClaimsCounted, AbsPending, Chunks
<1>5. AbsPhase = "busy"
  BY DEF AbsPhase, InDispatch
<1>6. CASE items_left > 0
  <2>1. PICK n \in 0 .. MaxChunks : SetUpItem(n)
    BY <1>6
  <2>2. AbsPending' = Abstract!Item(n)
    BY <2>1, ItemChunks DEF AbsPending, SetUpItem
  <2>3. AbsPhase' = "busy"
    BY <1>6 DEF AbsPhase, InDispatch
  <2> QED BY <1>2, <1>3, <1>4, <1>5, <2>2, <2>3 DEF Abstract!NextItem
<1>7. CASE items_left = 0
  <2>1. AbsPending' = AbsPending
    BY <1>7 DEF AbsPending
  <2>2. AbsPhase' = "open"
    BY <1>7 DEF AbsPhase, InDispatch, InDrop
  <2> QED BY <1>2, <1>3, <1>4, <1>5, <2>1, <2>2 DEF Abstract!Return
<1> QED BY <1>6, <1>7 DEF Inductive, TypeOK

\* A fetch_add of the caller starts a chunk or is invisible.
LEMMA MainStealRefines ==
    ASSUME Inductive, MainSteal
    PROVE  Abstract!Start(-1) \/ UNCHANGED Abstract!vars
<1> USE DEF MainSteal, item, settings, caller, locals, worker
<1>1. AbsPhase = "busy" /\ AbsPhase' = "busy"
  BY DEF AbsPhase, InDispatch
<1>2. CASE next_chunk >= total_chunks
  BY <1>1, <1>2, Invisible DEF Inductive, TypeOK
<1>3. CASE next_chunk < total_chunks
  <2>1. next_chunk \in AbsPending
    BY <1>3, ConstantsAssumption
       DEF Inductive, TypeOK, ClaimsCounted, AbsPending, Chunks
  <2>2. /\ mpc' = "run" /\ mchunk' = next_chunk
        /\ claims' = [claims EXCEPT ![next_chunk] = claims[next_chunk] + 1]
    BY <1>3 DEF Inductive, TypeOK
  <2>3. AbsPending' = AbsPending \ {next_chunk}
    BY <2>2 DEF Inductive, TypeOK, AbsPending, Chunks
  <2>4. AbsRunning[-1] = {} /\ AbsRunning' = [AbsRunning EXCEPT ![-1] = {next_chunk}]
    BY <2>2, ThreadSet DEF AbsRunning
  <2> QED BY <1>1, <2>1, <2>3, <2>4 DEF Abstract!Start
<1> QED BY <1>2, <1>3 DEF Inductive, TypeOK

\* The end of the caller's chunk.
LEMMA MainRunRefines ==
    ASSUME Inductive, MainRun
    PROVE  Abstract!Finish(-1)
<1> USE DEF MainRun, worker, item, settings, caller, locals, shared
<1>1. AbsPhase = "busy" /\ AbsPhase' = "busy"
  BY DEF AbsPhase, InDispatch
<1>2. AbsRunning[-1] # {} /\ AbsRunning' = [AbsRunning EXCEPT ![-1] = {}]
  BY ThreadSet DEF AbsRunning
<1>3. AbsPending' = AbsPending
  BY DEF AbsPending
<1> QED BY <1>1, <1>2, <1>3 DEF Abstract!Finish

\* A fetch_add of a worker starts a chunk or is invisible.
LEMMA StealWorkRefines ==
    ASSUME Inductive, NEW w \in Workers, StealWork(w)
    PROVE  Abstract!Start(w) \/ UNCHANGED Abstract!vars
<1> USE DEF StealWork, item, settings, caller, locals, main
<1>1. wtotal[w] = total_chunks
  BY DEF Inductive, Loaded
<1>2. CASE next_chunk >= total_chunks
  <2>1. UNCHANGED <<AbsPhase, total_chunks, claims, mpc, mchunk, wchunk>>
    BY <1>1, <1>2 DEF AbsPhase, Inductive, TypeOK
  <2>2. \A v \in Workers : (wpc[v] = "run") <=> (wpc'[v] = "run")
    BY <1>1, <1>2 DEF Inductive, TypeOK
  <2> QED BY <2>1, <2>2, Invisible
<1>3. CASE next_chunk < total_chunks
  <2>1. next_chunk \in AbsPending
    BY <1>3, ConstantsAssumption
       DEF Inductive, TypeOK, ClaimsCounted, AbsPending, Chunks
  <2>2. /\ wpc' = [wpc EXCEPT ![w] = "run"]
        /\ wchunk' = [wchunk EXCEPT ![w] = next_chunk]
        /\ claims' = [claims EXCEPT ![next_chunk] = claims[next_chunk] + 1]
    BY <1>1, <1>3 DEF Inductive, TypeOK
  <2>3. AbsPending' = AbsPending \ {next_chunk}
    BY <2>2 DEF Inductive, TypeOK, AbsPending, Chunks
  <2>4. AbsRunning[w] = {} /\ AbsRunning' = [AbsRunning EXCEPT ![w] = {next_chunk}]
    BY <2>2, ThreadSet DEF AbsRunning, Inductive, TypeOK
  <2>5. AbsPhase = "busy" /\ AbsPhase' = "busy"
    <3>1. mpc \in Published
      BY <1>3 DEF Inductive, TypeOK, GenerationsSeen, Exhausted, AtWork, InDrop
    <3> QED BY <3>1 DEF AbsPhase, Published, InDispatch
  <2> QED BY <2>1, <2>3, <2>4, <2>5 DEF Abstract!Start
<1> QED BY <1>2, <1>3 DEF Inductive, TypeOK

\* The end of a worker's chunk.
LEMMA RunChunkRefines ==
    ASSUME Inductive, NEW w \in Workers, RunChunk(w)
    PROVE  Abstract!Finish(w)
<1> USE DEF RunChunk, main, item, settings, caller, locals, shared
<1>1. AbsPhase = "busy" /\ AbsPhase' = "busy"
  <2>1. mpc \in Published
    BY DEF Inductive, GenerationsSeen, RunningTaken, AtWork, InDrop
  <2> QED BY <2>1 DEF AbsPhase, Published, InDispatch
<1>2. AbsRunning[w] # {} /\ AbsRunning' = [AbsRunning EXCEPT ![w] = {}]
  BY ThreadSet DEF AbsRunning, Inductive, TypeOK
<1>3. AbsPending' = AbsPending
  BY DEF AbsPending
<1> QED BY <1>1, <1>2, <1>3 DEF Abstract!Finish

\* Drop closes the parallel for.
LEMMA DropRefines ==
    ASSUME DropShutdown
    PROVE  Abstract!Close
<1> USE DEF DropShutdown, item, settings, caller, locals, worker, history
<1>1. AbsPhase = "open" /\ AbsPhase' = "closed"
  BY DEF AbsPhase, InDispatch, InDrop
<1>2. AbsPending' = AbsPending
  BY DEF AbsPending
<1> QED BY <1>1, <1>2, SameRunning DEF Abstract!Close

\* The caller's other steps are invisible.
LEMMA OtherMainInvisible ==
    ASSUME \/ SetActiveWorkers \/ SetBatchMode \/ Publish \/ Unpark
           \/ DropBump \/ DropUnpark \/ DropJoin \/ UNCHANGED vars
    PROVE  UNCHANGED Abstract!vars
<1> USE DEF SetActiveWorkers, SetBatchMode, Publish, Unpark, DropBump, DropUnpark, DropJoin,
            vars, shared, main, item, settings, caller, locals, worker, history
<1>1. UNCHANGED AbsPhase
  BY DEF AbsPhase, InDispatch, InDrop
<1>2. UNCHANGED <<total_chunks, claims, mchunk, wchunk, wpc>>
  OBVIOUS
<1>3. (mpc = "run") <=> (mpc' = "run")
  OBVIOUS
<1> QED BY <1>1, <1>2, <1>3, Invisible

\* The workers' other steps are invisible.
LEMMA OtherWorkerInvisible ==
    ASSUME TypeOK, NEW w \in Workers,
           \/ CheckShutdown(w) \/ CheckGeneration(w) \/ CheckActive(w) \/ CheckBatch(w)
           \/ Unparked(w) \/ SpuriousWakeup(w) \/ LoadWork(w) \/ CountDone(w)
    PROVE  UNCHANGED Abstract!vars
<1> USE DEF CheckShutdown, CheckGeneration, CheckActive, CheckBatch, Unparked,
            SpuriousWakeup, LoadWork, CountDone, shared, item, settings, caller, locals, main, history
<1>1. UNCHANGED AbsPhase
  BY DEF AbsPhase
<1>2. UNCHANGED <<total_chunks, claims, mchunk, wchunk, mpc>>
  OBVIOUS
<1>3. \A v \in Workers : (wpc[v] = "run") <=> (wpc'[v] = "run")
  BY DEF TypeOK
<1> QED BY <1>1, <1>2, <1>3, Invisible

\* The pool implements the parallel for its callers rely on: for any number of workers,
\* chunks and dispatches, what thread_pool.rs does is what ParallelFor allows.
THEOREM Refinement == Spec => ImplementsParallelFor
<1>1. Init => Abstract!Init
  <2> SUFFICES ASSUME Init PROVE Abstract!Init
    OBVIOUS
  <2>1. AbsPhase = "open" /\ AbsPending = {}
    BY ConstantsAssumption DEF Init, AbsPhase, AbsPending, InDispatch, InDrop, Chunks
  <2>2. AbsRunning = [t \in Threads |-> {}]
    BY ThreadSet DEF Init, AbsRunning
  <2> QED BY <2>1, <2>2 DEF Abstract!Init
<1>2. Inductive /\ [Next]_vars => [Abstract!Next]_(Abstract!vars)
  <2> SUFFICES ASSUME Inductive, [Next]_vars PROVE [Abstract!Next]_(Abstract!vars)
    OBVIOUS
  <2>1. CASE Call
    BY <2>1, BeginRefines, DropRefines, OtherMainInvisible DEF Call, Abstract!Next
  <2>2. CASE MainStep
    BY <2>2, MainStealRefines, MainRunRefines, WaitRefines, OtherMainInvisible, ThreadSet
       DEF MainStep, Abstract!Next
  <2>3. CASE \E w \in Workers : WorkerStep(w) \/ SpuriousWakeup(w)
    <3>1. PICK w \in Workers : WorkerStep(w) \/ SpuriousWakeup(w)
      BY <2>3
    <3> QED BY <3>1, StealWorkRefines, RunChunkRefines, OtherWorkerInvisible, ThreadSet
            DEF WorkerStep, Abstract!Next, Inductive
  <2>4. CASE Terminated \/ UNCHANGED vars
    BY <2>4, OtherMainInvisible DEF Terminated
  <2> QED BY <2>1, <2>2, <2>3, <2>4 DEF Next
<1> QED BY <1>1, <1>2, AlwaysInductive, PTL DEF Spec, ImplementsParallelFor, Abstract!Spec
=============================================================================
