----------------------------- MODULE DecodeLoop -----------------------------
(***************************************************************************)
(* The decode loop (session/decode_loop.rs) with its command source        *)
(* (resilience/executor.rs), dispatcher (session/command_dispatcher.rs),   *)
(* stage registry (session/pipeline_registry.rs) and the stages that       *)
(* mutate the KV cache (stages/kv/eviction.rs, aperturb_select_stage.rs).  *)
(* One thread runs the loop; the MessageLoop thread delivers directives    *)
(* into its channel at any time.                                           *)
(*                                                                         *)
(* The cache is two numbers: the cursor (layer 0's current_pos) and the    *)
(* resident length (layer_mean_resident), which differ after a ragged      *)
(* compaction.  Token contents, scores and logits are left out.            *)
(***************************************************************************)
EXTENDS CommandDispatcher, SequencesExt

CONSTANTS
    Directives,       \* the command sequences a manager may send
    MaxDirectives,    \* bound: directives sent
    MaxSteps,         \* the decode budget of a run
    MaxRuns,          \* bound: runs of the loop (chat turns; 1 for a bench run)
    PromptLen,        \* tokens of a prefill
    MinEvict          \* MIN_EVICT_TOKENS

ASSUME DecodeAssumption ==
    /\ {MaxDirectives, MaxSteps, MaxRuns} \subseteq Nat
    /\ {PromptLen, MinEvict} \subseteq Nat \ {0}

VARIABLES
    log,              \* every directive sent so far (its index is its seq_id)
    rx,               \* cmd_rx: seq_ids delivered and not yet drained
    pending,          \* pending_responses
    tx,               \* resp_tx: responses, each [seq, results]
    cmds,             \* the commands of this step
    results,          \* last_results
    compress,         \* pending_compress, or NoCompress
    logical_len,      \* CommandDispatcher.logical_len
    last_seen,        \* CommandDispatcher.last_seen_pos
    tp_on,            \* TpSwitch.on
    yield_every,      \* yield_policy's interval
    stages,           \* PipelineRegistry.stages
    at,               \* the stage the KvMutate dispatch is at
    armed,            \* the Persistent stage's edge trigger
    cursor, resident, \* the KV cache
    pos,              \* DecodeLoop.pos: the RoPE position
    kv_occupancy,     \* the cursor as last compared
    plan,             \* the forward's GPU plan: "none", "built" or "stale"
    pc, step, runs

ioVars == <<log, rx, pending, tx>>
dispVars == <<cmds, results, compress, logical_len, last_seen, tp_on, yield_every>>
stageVars == <<stages, at, armed>>
cacheVars == <<cursor, resident>>
loopVars == <<pos, kv_occupancy, plan, pc, step, runs>>
vars == <<ioVars, dispVars, stageVars, cacheVars, loopVars, setup>>

NoCompress == [idx |-> 0]
Pressure == [kind |-> "pressure"]
Answers == {"Ok", "Partial", "Rejected"}

Init ==
    /\ setup \in Setups
    /\ log = <<>> /\ rx = <<>> /\ pending = <<>> /\ tx = <<>>
    /\ cmds = <<>> /\ results = <<>> /\ compress = NoCompress
    /\ logical_len = 0 /\ last_seen = 0
    /\ tp_on = setup.on /\ yield_every = 0
    /\ stages = IF setup.pressure > 0 THEN <<Pressure>> ELSE <<>>
    /\ at = 0 /\ armed = TRUE
    /\ cursor = PromptLen /\ resident = PromptLen
    /\ pos = PromptLen /\ kv_occupancy = PromptLen /\ plan = "none"
    /\ pc = "start" /\ step = 0 /\ runs = 1
-----------------------------------------------------------------------------
\* The MessageLoop thread puts a directive into the channel.
Arrive(d) ==
    /\ Len(log) < MaxDirectives
    /\ log' = Append(log, d)
    /\ rx' = Append(rx, Len(log) + 1)
    /\ UNCHANGED <<setup, pending, tx, dispVars, stageVars, cacheVars, loopVars>>

-----------------------------------------------------------------------------
\* Mutant: a directive's own results are counted before it.
OffsetIncluding(queue, k) ==
    LET upto[j \in 0 .. Len(queue)] ==
          IF j = 0 THEN 0 ELSE upto[j - 1] + Len(log[queue[j]])
    IN  upto[k]

\* Where the results of the k-th pending directive begin.
Offset(queue, k) ==
    LET upto[j \in 0 .. Len(queue)] ==
          IF j = 0 THEN 0 ELSE upto[j - 1] + Len(log[queue[j]])
    IN  upto[k - 1]
ResponseTo(queue, res, k) ==
    [seq |-> queue[k],
     results |-> [i \in 1 .. Len(log[queue[k]]) |->
                    IF Offset(queue, k) + i <= Len(res)
                    THEN res[Offset(queue, k) + i] ELSE "Rejected"]]

\* The responses report_results sends: each pending directive takes its share.
Responses(queue, res) == [k \in 1 .. Len(queue) |-> ResponseTo(queue, res, k)]

\* Mutant: a suspended step leaves without answering.
SuspendedSilent(queue, res) == <<>>

\* A suspended step is answered too, before the loop breaks.
SuspendedReport(queue, res) == Responses(queue, res)

\* apply_tp_target: the step's net offload state, applied once.  `failed`
\* says that the switch's apply would fail; it then leaves the partition off.
TpAfter(cs, on, failed) ==
    LET k == tp_target(cs)
    IN  IF k = 0 THEN on
        ELSE IF Wanted(cs[k]) = on THEN on
        ELSE Wanted(cs[k]) /\ ~ failed

\* Mutant: a failed switch is only printed.
TpRejectsNever(cs, on, failed) == 0

\* The command that is told the switch failed, 0 if none is.
TpRejects(cs, on, failed) ==
    LET k == tp_target(cs)
    IN  IF k > 0 /\ failed /\ Is(cs[k], "offload") /\ Wanted(cs[k]) # on THEN k ELSE 0

\* The one-shot stages the step submits, in command order.  The pool stage
\* carries the target count, the configured-technique stage a fraction of the
\* length resident at submit time.
Submitted(cs, logical) ==
    LET made == SelectSeq([i \in DOMAIN cs |-> i],
                          LAMBDA i : Submits(cs, i, logical, resident))
    IN  [k \in DOMAIN made |->
           [kind |-> IF setup.pool THEN "pool" ELSE "ratio",
            idx |-> made[k], budget |-> cs[made[k]].arg,
            target |-> compress_target_len(logical, cs[made[k]].arg),
            of |-> resident]]

\* Mutant: the budget counts one step too many.
InBudgetInclusive == step <= MaxSteps

InBudget == step < MaxSteps

\* poll and dispatch.  A suspended step answers at once and leaves the loop.
Poll ==
    /\ pc = "start" /\ InBudget
    /\ \E failed \in BOOLEAN :
       LET cs == FlattenSeq([k \in DOMAIN rx |-> log[rx[k]]])
           logical == observe_context(logical_len, last_seen, cursor)
           made == Submitted(cs, logical)
           last == made[Len(made)]
           rejected == TpRejects(cs, tp_on, failed)
           res == [i \in DOMAIN cs |-> IF i = rejected THEN "Rejected"
                                       ELSE apply(cs, i, logical, resident)]
           waiting == IF made = <<>> THEN NoCompress
                      ELSE [idx |-> last.idx, budget |-> last.budget,
                            logical_len |-> logical]
           suspended == \E i \in DOMAIN cs : Is(cs[i], "suspend")
           final == IF suspended /\ waiting # NoCompress
                    THEN [res EXCEPT ![waiting.idx] = compress_outcome(waiting, resident)]
                    ELSE res
       IN  /\ rx' = <<>>
           /\ tp_on' = TpAfter(cs, tp_on, failed)
           /\ yield_every' = YieldAfter(cs, yield_every)
           /\ stages' = stages \o made
           /\ logical_len' = logical /\ last_seen' = cursor
           /\ IF suspended
              THEN /\ tx' = tx \o SuspendedReport(rx, final)
                   /\ pending' = <<>> /\ cmds' = <<>> /\ results' = <<>>
                   /\ compress' = NoCompress
                   /\ pc' = "done" /\ at' = 0
              ELSE /\ pending' = rx /\ cmds' = cs /\ results' = res
                   /\ compress' = waiting
                   /\ pc' = "kv" /\ at' = 1
                   /\ UNCHANGED tx
    /\ UNCHANGED <<setup, log, armed, cacheVars, pos, kv_occupancy, plan, step, runs>>

-----------------------------------------------------------------------------
\* Where a configured technique leaves the cache when asked for t tokens
\* (run_policy_eviction): nothing below MIN_EVICT_TOKENS, else t or short of it.
Evicted(t) ==
    IF cursor - t < MinEvict
    THEN {<<cursor, resident>>}
    ELSE {<<c, r>> \in (t .. cursor) \X (1 .. resident) :
            IF resident = cursor THEN r = c ELSE r <= c}

\* Where the pool's winner leaves it: a calibrated keep-set is never over the
\* budget and at most the rounded-up overshoot under it; ragged heads leave the
\* cursor at the longest one.  The pool may also decline.
Chosen(t) ==
    {<<cursor, resident>>} \cup
    {<<c, r>> \in (1 .. cursor) \X (Max({t - 1, 1}) .. t) : r <= c}

\* A compaction renumbers the rows a plan was built over, also a ragged one that
\* leaves the longest head, and with it the cursor, where it was.
Shrink(after) ==
    /\ cursor' = after[1] /\ resident' = after[2]
    /\ plan' = IF after # <<cursor, resident>> /\ plan = "built" THEN "stale" ELSE plan

\* EvictionStage::on_phase for the Persistent stage: once per pressure episode.
PressureStage ==
    \E high \in BOOLEAN :
        /\ armed' = ~ high
        /\ IF high /\ armed
           THEN \E after \in Evicted(Max({(cursor * setup.pressure) \div 100, 1})) : Shrink(after)
           ELSE UNCHANGED <<cacheVars, plan>>

\* EvictionStage::on_phase for a one-shot: its fraction of the cursor as it is now.
RatioStage(s) ==
    /\ \E after \in Evicted(Max({(cursor * s.target) \div s.of, 1})) : Shrink(after)
    /\ UNCHANGED armed


\* AperturbSelectStage::on_phase: the count, against what is resident now.
PoolStage(s) ==
    /\ IF s.target >= resident
       THEN UNCHANGED <<cacheVars, plan>>
       ELSE \E after \in Chosen(s.target) : Shrink(after)
    /\ UNCHANGED armed

\* The KvMutate dispatch runs the registered stages in submit order.
RunStage ==
    /\ pc = "kv" /\ at <= Len(stages)
    /\ CASE stages[at].kind = "pressure" -> PressureStage
         [] stages[at].kind = "ratio" -> RatioStage(stages[at])
         [] OTHER -> PoolStage(stages[at])
    /\ at' = at + 1
    /\ UNCHANGED <<setup, ioVars, dispVars, stages, pos, kv_occupancy, pc, step, runs>>

\* invalidate_plan_on_kv_shrink, run after every phase that may mutate the cache.
InvalidateOnShrink ==
    /\ plan' = IF cursor < kv_occupancy THEN "none" ELSE plan
    /\ kv_occupancy' = cursor

FinalResults ==
    IF compress = NoCompress THEN results
    ELSE [results EXCEPT ![compress.idx] = compress_outcome(compress, resident)]

IsPressure(s) == s.kind = "pressure"

\* The registry drops the one-shot stages, which have all consumed themselves.
Gc(reg) == SelectSeq(reg, IsPressure)

\* End of the KvMutate phase: GC, finalize_results, report_results, plan check.
Report ==
    /\ pc = "kv" /\ at > Len(stages)
    /\ tx' = tx \o Responses(pending, FinalResults)
    /\ pending' = <<>> /\ results' = <<>> /\ cmds' = <<>> /\ compress' = NoCompress
    /\ stages' = Gc(stages) /\ at' = 0
    /\ logical_len' = observe_context(logical_len, last_seen, cursor)
    /\ last_seen' = cursor
    /\ InvalidateOnShrink
    /\ pc' = "forward"
    /\ UNCHANGED <<setup, log, rx, tp_on, yield_every, armed, cacheVars, pos, step, runs>>

\* forward.step appends a token, the sampled token becomes the next input.
Forward ==
    /\ pc = "forward"
    /\ cursor' = cursor + 1 /\ resident' = resident + 1
    /\ plan' = "built"
    /\ pos' = pos + 1 /\ step' = step + 1
    /\ pc' = "start"
    /\ UNCHANGED <<setup, ioVars, dispVars, stageVars, kv_occupancy, runs>>

\* The loop ends: stop flag, budget, a stage's Stop, or a forward error.
Leave ==
    /\ pc \in {"start", "forward"}
    /\ pc' = "done"
    /\ UNCHANGED <<setup, ioVars, dispVars, stageVars, cacheVars, pos, kv_occupancy, plan, step, runs>>

\* Only a chat session, whose dispatcher cannot compress, runs the loop again.
IsChat == ~ CanCompress

\* ChatSession: another turn prefills on top of the cache, after /reset on an
\* empty one.  Neither is seen by the dispatcher.
NextTurn ==
    /\ pc = "done" /\ IsChat /\ runs < MaxRuns
    /\ \E reset \in BOOLEAN :
         /\ cursor' = PromptLen + (IF reset THEN 0 ELSE cursor)
         /\ resident' = PromptLen + (IF reset THEN 0 ELSE resident)
         /\ pos' = PromptLen + (IF reset THEN 0 ELSE pos)
    /\ kv_occupancy' = cursor'
    /\ pc' = "start" /\ step' = 0 /\ runs' = runs + 1
    /\ UNCHANGED <<setup, ioVars, dispVars, stageVars, plan>>

Finished ==
    /\ pc = "done" /\ (IsChat => runs = MaxRuns) /\ Len(log) = MaxDirectives
    /\ UNCHANGED vars

Next ==
    \/ \E d \in Directives : Arrive(d)
    \/ Poll \/ RunStage \/ Report \/ Forward \/ Leave \/ NextTurn \/ Finished

Spec == Init /\ [][Next]_vars
-----------------------------------------------------------------------------
OneShots == {k \in DOMAIN stages : ~ IsPressure(stages[k])}
Flat(responses) == FlattenSeq([k \in DOMAIN responses |-> responses[k].results])
\* The results handed to report_results in this step.
Reported == Flat(SubSeq(tx', Len(tx) + 1, Len(tx')))
Reporting == pc = "kv" /\ pc' = "forward"

\* Every variable of the loop, the dispatcher and the cache is of its type.
TypeOK ==
    /\ log \in Seq(Directives) /\ Len(log) <= MaxDirectives
    /\ {rx, pending} \subseteq Seq(1 .. Len(log))
    /\ Len(results) = Len(cmds) /\ Range(results) \subseteq Answers
    /\ compress # NoCompress => compress.idx \in DOMAIN cmds
    /\ {logical_len, last_seen, cursor, resident, pos, kv_occupancy, yield_every, runs} \subseteq Nat
    /\ resident <= cursor /\ 0 < resident
    /\ {tp_on, armed} \subseteq BOOLEAN
    /\ plan \in {"none", "built", "stale"}
    /\ pc \in {"start", "kv", "forward", "done"}
    /\ at \in 0 .. Len(stages) + 1 /\ step \in 0 .. MaxSteps

\* The results a command can get: only a compression can land short, and only
\* an unconfigured subsystem or a failed switch is Rejected.
Fits(c, r) ==
    CASE Is(c, "compress") -> r # "Rejected" \/ ~ CanCompress
      [] Is(c, "offload") -> r \in {"Ok", "Rejected"}
      [] OTHER -> r = "Ok"

\* Directives are answered in the order they arrived, each once, with one result
\* per command, and each result is one its own command can get: splitting the
\* step's flat result list back over the directives (report_results) is aligned.
AnswersFit ==
    \A k \in DOMAIN tx :
        /\ tx[k].seq = k
        /\ Len(tx[k].results) = Len(log[k])
        /\ \A i \in DOMAIN log[k] : Fits(log[k][i], tx[k].results[i])

\* The loop implements the service the manager link relies on: it drains, then
\* answers what it drained, before it drains again (decode_loop.rs run_steps).
Tickets(queue) == [k \in DOMAIN queue |-> [seq |-> queue[k], n |-> Len(log[queue[k]])]]
Service == INSTANCE DirectiveService
    WITH Ticket <- [seq : 1 .. MaxDirectives, n : {Len(d) : d \in Directives}],
         rx <- Tickets(rx), held <- Tickets(pending),
         tx <- [k \in DOMAIN tx |-> [seq |-> tx[k].seq, n |-> Len(tx[k].results)]]
ServesDirectives == Service!ServiceSpec

\* Where a budget can be applied its denominator is the uncompressed length:
\* whatever compactions came before, logical_len is the number of tokens the
\* context produced (observe_context, sampled twice a step).
LogicalIsContext == CanCompress /\ pc \in {"kv", "forward"} => logical_len = pos

\* An Ok for the compression the step waits on means the cache is within the
\* budget, of the uncompressed context, when the response leaves (finalize_results).
OkMeansWithin ==
    [][ Reporting /\ compress # NoCompress /\ Reported[compress.idx] = "Ok"
        => Within(resident', compress.budget, pos) ]_vars

\* Folding a batch loses nothing: when the budget it kept was reached, every
\* compression of the batch, the folded ones included, holds (dispatch).
FoldingCovers ==
    [][ Reporting /\ compress # NoCompress /\ Reported[compress.idx] = "Ok"
        /\ (\A i \in DOMAIN cmds : ~ Is(cmds[i], "restore"))
        => \A i \in DOMAIN cmds : Is(cmds[i], "compress") =>
              Reported[i] = "Ok" /\ Within(resident', cmds[i].arg, pos) ]_vars

\* An offload command answered Ok is the partition's state, unless a later command
\* of the step names another one (apply_tp_target).
OffloadHolds ==
    pc = "kv" /\ tp_target(cmds) > 0 =>
        LET k == tp_target(cmds)
        IN  Is(cmds[k], "offload") /\ results[k] = "Ok" => tp_on = Wanted(cmds[k])


-----------------------------------------------------------------------------
\* The forward never runs on a plan built before a compaction: a shrink is told apart
\* from the token appended each step (the doc of invalidate_plan_on_kv_shrink).
PlanFresh == pc = "forward" => plan # "stale"

\* A budget restates, it does not compound: a compression that runs when the cache
\* already fits its target leaves the cache alone, what other stages did to it since
\* the submission included.  The doc of submit_compress says there is nothing for a
\* re-application to compound.
BudgetRestates ==
    [][ pc = "kv" /\ at \in OneShots /\ resident <= stages[at].target
        => UNCHANGED cacheVars ]_vars
=============================================================================
