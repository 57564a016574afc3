------------------------------ MODULE MCDecode ------------------------------
(***************************************************************************)
(* Instances of DecodeLoop: the command sequences a manager may send.      *)
(***************************************************************************)
EXTENDS DecodeLoop

C(budget) == [op |-> "compress", arg |-> budget]
Cmd(op, arg) == [op |-> op, arg |-> arg]

\* Batches that fold, split, suspend, switch the partition, or carry nothing.
ManyDirectives ==
    { <<>>, <<C(50)>>, <<C(25), C(90)>>, <<C(50), Cmd("restore", 0), C(90)>>,
      <<Cmd("suspend", 0)>>, <<Cmd("yield", 2), Cmd("offload", 1)>>,
      <<Cmd("restore", 0), Cmd("offload", 0), C(50)>>, <<Cmd("resume", 0), C(75)>> }

FewDirectives == { <<C(50)>> }

GentleDirectives == { <<C(90)>> }

Engine(pool, cm, pressure) ==
    [pool |-> pool, cm |-> cm, pressure |-> pressure, tp |-> TRUE, on |-> FALSE]

\* A configured technique under pressure.
Configured == { Engine(FALSE, TRUE, 50) }

\* A candidate pool, whose compressions are bound by no MIN_EVICT_TOKENS.
Pooled == { Engine(TRUE, TRUE, 0) }

\* A chat session, which cannot compress and prepares no partition.
Chat == [Engine(FALSE, FALSE, 0) EXCEPT !.tp = FALSE]

\* These, and a candidate pool beside the configured technique or alone.
Engines == Configured \cup Pooled \cup { Engine(TRUE, TRUE, 50), Chat }
=============================================================================
