--------------------------- MODULE MCManagerLink ---------------------------
(* Instances of ManagerLink: what the manager sends. *)
EXTENDS ManagerLink

Msg(k, n) == [kind |-> k, units |-> n]

Link(script, timeouts, whole) ==
    [script |-> script, timeouts |-> timeouts, whole |-> whole]

\* A payload that does not parse, between two that do.
Mixed == <<Msg("ok", 2), Msg("bad", 1), Msg("ok", 1), Msg("ok", 1)>>

\* An oversized length with no payload behind it, as test SEQ-081 sends it, and one
\* with a payload of a multiple of four bytes, each with well-formed messages after
\* it: the loss of one shows as a gap before the next.
Bare == <<Msg("large", 0), Msg("ok", 1), Msg("large", 2), Msg("ok", 1), Msg("ok", 1)>>

\* Tcp where frames arrive whole, a Unix socket where they come in pieces.
Sound == { Link(Mixed, TRUE, TRUE), Link(Bare, TRUE, TRUE), Link(Bare, FALSE, FALSE) }

\* Tcp where frames come in pieces as well.
Split == { Link(<<Msg("ok", 2), Msg("ok", 2)>>, TRUE, FALSE) }
=============================================================================
