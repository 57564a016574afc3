-------------------------- MODULE DirectiveService --------------------------
(***************************************************************************)
(* What the engine promises the manager: every directive it takes from its *)
(* command channel is answered by exactly one response, in the order of    *)
(* arrival, with one result per command.  The decode loop with its         *)
(* dispatcher (DecodeLoop) implements this; the transport (ManagerLink)    *)
(* relies on it.                                                           *)
(***************************************************************************)
EXTENDS Sequences

CONSTANT Ticket         \* a directive: its seq_id and its number of commands

VARIABLES rx,           \* cmd_rx: directives delivered and not yet drained
          held,         \* pending_responses: drained, not yet answered
          tx            \* resp_tx: responses handed to the transport

serviceVars == <<rx, held, tx>>

ServiceInit == rx = <<>> /\ held = <<>> /\ tx = <<>>

Deliver(d) == rx' = Append(rx, d) /\ UNCHANGED <<held, tx>>

\* drain_commands: everything in the channel, once per decode step.
Take ==
  /\ held = <<>>
  /\ held' = rx
  /\ rx' = <<>>
  /\ UNCHANGED tx

\* report_results: one response for each held directive.
Answer ==
  /\ tx' = tx \o held
  /\ held' = <<>>
  /\ UNCHANGED rx

\* A step that suspends the loop drains and answers without running a stage.
TakeAndAnswer ==
  /\ held = <<>>
  /\ tx' = tx \o rx
  /\ rx' = <<>>
  /\ UNCHANGED held

ServiceNext == (\E d \in Ticket : Deliver(d)) \/ Take \/ Answer \/ TakeAndAnswer

ServiceSpec == ServiceInit /\ [][ServiceNext]_serviceVars
=============================================================================
