------------------------- MODULE CommandDispatcher -------------------------
(***************************************************************************)
(* The arithmetic of session/command_dispatcher.rs: what each command of a *)
(* step is answered at submit time, which compressions a step submits, and *)
(* what a submitted compression is answered once its stage has run.  A     *)
(* command is [op, arg]; the arg of "compress" is the budget in percent.   *)
(***************************************************************************)
EXTENDS Integers, Sequences, FiniteSetsExt

CONSTANTS Setups,         \* the engines to check, see SetupOf
          MinTokens,      \* KV_COMPRESS_MIN_TOKENS
          FloorDiv        \* 1 / MIN_EVICT_FRACTION

VARIABLE setup            \* how this engine was assembled; it never changes

\* pool: a candidate pool is set (with_aperturb_selector), cm: a CacheManager
\* is configured, pressure: the percentage its Persistent stage keeps, 0 for
\* none, tp: a partition was prepared (with_tp_switch), on: it started on.
SetupOf == [pool : BOOLEAN, cm : BOOLEAN, pressure : 0 .. 100, tp : BOOLEAN, on : BOOLEAN]

ASSUME DispatcherAssumption ==
  /\ Setups \subseteq SetupOf
  /\ \A u \in Setups : u.pressure > 0 => u.cm
  /\ MinTokens \in Nat \ {0} /\ FloorDiv \in Nat \ {0}

Is(c, op) == c.op = op

CanCompress == setup.pool \/ setup.cm

compress_target_len(logical_len, budget) ==
  Max({(logical_len * budget) \div 100, Min({MinTokens, logical_len}), 1})

evict_floor_tokens(resident) == resident \div FloorDiv

\* Commands i and j lie in one segment: no RestoreDefaults separates them.
SameSegment(cmds, i, j) ==
  \A k \in Min({i, j})..Max({i, j}) : ~ Is(cmds[k], "restore")

\* Mutant: a segment submits its loosest budget.
FoldedLoosest(cmds, i) ==
  /\ CanCompress
  /\ Is(cmds[i], "compress")
  /\ \E j \in DOMAIN cmds \ {i} :
       /\ Is(cmds[j], "compress")
       /\ SameSegment(cmds, i, j)
       /\ cmds[j].arg > cmds[i].arg

\* Batch fold: a segment submits only its tightest budget, the last of equals.
Folded(cmds, i) ==
  /\ CanCompress
  /\ Is(cmds[i], "compress")
  /\ \E j \in DOMAIN cmds \ {i} :
       /\ Is(cmds[j], "compress")
       /\ SameSegment(cmds, i, j)
       /\ \/ cmds[j].arg < cmds[i].arg
          \/ cmds[j].arg = cmds[i].arg /\ j > i

\* The budget asks for enough to be worth a stage.
WorthIt(budget, logical_len, resident) ==
  LET target == compress_target_len(logical_len, budget)
  IN  target < resident /\ resident - target >= evict_floor_tokens(resident)

\* Command i submits a one-shot stage to the registry.
Submits(cmds, i, logical_len, resident) ==
  /\ Is(cmds[i], "compress")
  /\ ~ Folded(cmds, i)
  /\ WorthIt(cmds[i].arg, logical_len, resident)
  /\ CanCompress

submit_compress(budget, logical_len, resident) ==
  IF compress_target_len(logical_len, budget) >= resident THEN "Ok"
  ELSE IF ~ WorthIt(budget, logical_len, resident) THEN "Partial"
  ELSE IF CanCompress THEN "Ok" ELSE "Rejected"

\* The result `dispatch` records for command i, before any stage has run.
apply(cmds, i, logical_len, resident) ==
  CASE Is(cmds[i], "compress") ->
         IF Folded(cmds, i) THEN "Ok"
         ELSE submit_compress(cmds[i].arg, logical_len, resident)
    [] Is(cmds[i], "offload") -> IF setup.tp THEN "Ok" ELSE "Rejected"
    [] OTHER -> "Ok"

\* The commands that name an offload state; the last one in the step decides.
NamesOffload(c) == setup.tp /\ c.op \in {"offload", "restore"}
tp_target(cmds) ==
  LET naming == {i \in DOMAIN cmds : NamesOffload(cmds[i])}
  IN  IF naming = {} THEN 0 ELSE Max(naming)
Wanted(c) == IF Is(c, "restore") THEN setup.on ELSE c.arg = 1

\* The net yield interval: a gpu.yield sets it, RestoreDefaults resets it to 0.
YieldAfter(cmds, every) ==
  LET naming == {i \in DOMAIN cmds : cmds[i].op \in {"yield", "restore"}}
  IN  IF naming = {} THEN every
      ELSE IF Is(cmds[Max(naming)], "restore") THEN 0 ELSE cmds[Max(naming)].arg

\* Within the budget, with the one token of slack a truncated target needs.
Within(resident, budget, logical_len) == resident * 100 <= budget * logical_len + 100

\* Mutant: the submit-time answer is kept.
OutcomeAtSubmit(p, resident) == "Ok"

\* What a submitted compression is answered after KvMutate.
compress_outcome(p, resident) ==
  IF Within(resident, p.budget, p.logical_len) THEN "Ok" ELSE "Partial"

\* Mutant: a drop is subtracted like growth is added.
ObserveSigned(logical_len, last_seen, cursor) ==
  IF cursor = 0 THEN 0 ELSE logical_len + (cursor - last_seen)

\* observe_context: growth of the cursor counts, a drop is a compaction.
observe_context(logical_len, last_seen, cursor) ==
  IF cursor = 0 THEN 0 ELSE logical_len + Max({cursor - last_seen, 0})
=============================================================================
