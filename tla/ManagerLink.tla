---------------------------- MODULE ManagerLink ----------------------------
(***************************************************************************)
(* The link between the engine and the resource manager: the thread that   *)
(* owns the socket (MessageLoop, resilience/transport.rs), the channels to *)
(* and from the inference thread, and the command executor that polls them *)
(* (resilience/executor.rs, session/resilience_adapter.rs).                *)
(*                                                                         *)
(* The bytes from the manager are cut into units of two, so that a frame   *)
(* is a header of two units and a payload of d.units.  A read takes what   *)
(* it asks for, or, when it times out or meets the end of the stream,      *)
(* swallows what there is, as read_exact does.  Payloads of an odd number  *)
(* of bytes are not modelled.  The manager is the environment.             *)
(***************************************************************************)
EXTENDS DirectiveService, Naturals, SequencesExt

CONSTANTS Links,        \* the connections to check, see link
          MaxBeats      \* bound on the heartbeats the engine sends

\* link.script: the manager's messages, each [kind, units]; link.timeouts: the
\* socket has a read timeout (Tcp) or none (Unix); link.whole: the bytes of a
\* frame arrive together.
VARIABLES link,         \* the connection; it never changes
          arrived,      \* units that reached the socket
          taken,        \* units read from it
          open,         \* the manager has not closed the connection
          loop,         \* the thread's position in run_loop
          frame,        \* the message whose payload is being read
          queue,        \* resp_rx: messages waiting for the thread
          inbox,        \* what the manager has received
          phase,        \* the phase the next heartbeat carries
          engine        \* where the inference thread is

thread == <<loop, frame, taken>>
service == <<held, tx>>
vars == <<link, arrived, taken, open, loop, frame, queue, inbox, phase, engine,
          rx, held, tx>>

Script == link.script

Unit(d, part) == [id |-> d, part |-> part]

\* The bytes the manager writes: for each message a header and a payload.
Frame(d) ==
    <<Unit(d, "high"), Unit(d, "low")>>
       \o [i \in 1 .. Script[d].units |-> Unit(d, "body")]

Stream == FlattenSeq([d \in 1 .. Len(Script) |-> Frame(d)])

FrameEnds == {Len(FlattenSeq([d \in 1 .. n |-> Frame(d)])) : n \in 0 .. Len(Script)}

ASSUME LinkAssumption ==
    /\ Links \subseteq [script : Seq([kind : {"ok", "bad", "large"}, units : Nat]),
                      timeouts : BOOLEAN, whole : BOOLEAN]
    /\ \A l \in Links : DOMAIN l.script \subseteq Ticket
    /\ MaxBeats \in Nat

Buffered == arrived - taken
Beat(p) == [beat |-> TRUE, phase |-> p]
Response(d) == [beat |-> FALSE, id |-> d]
Responses(ds) == [i \in 1 .. Len(ds) |-> Response(ds[i])]

Init ==
    /\ ServiceInit
    /\ link \in Links
    /\ arrived = 0 /\ taken = 0 /\ open = TRUE
    /\ loop = "drain" /\ frame = 0
    /\ queue = <<>> /\ inbox = <<>>
    /\ phase = "idle" /\ engine = "idle"

-----------------------------------------------------------------------------
(* The manager and the network. *)

Arrive ==
    /\ open /\ loop # "stopped"
    /\ \E n \in arrived + 1 .. Len(Stream) :
          /\ link.whole => n \in FrameEnds
          /\ arrived' = n
    /\ UNCHANGED <<link, thread, service, open, queue, inbox, phase, engine, rx>>

Close ==
    /\ open
    /\ open' = FALSE
    /\ UNCHANGED <<link, thread, service, arrived, queue, inbox, phase, engine, rx>>

-----------------------------------------------------------------------------
(* The thread: send what is queued, then one blocking receive. *)

\* A write to a closed connection fails, and ends the thread.
Send ==
    /\ loop = "drain" /\ queue # <<>>
    /\ queue' = Tail(queue)
    /\ \/ open /\ inbox' = Append(inbox, Head(queue)) /\ UNCHANGED loop
       \/ ~open /\ loop' = "stopped" /\ UNCHANGED inbox
    /\ UNCHANGED <<link, arrived, taken, open, frame, phase, engine, rx, service>>

Drained ==
    /\ loop = "drain" /\ queue = <<>>
    /\ loop' = "head"
    /\ UNCHANGED <<link, arrived, taken, open, frame, queue, inbox, phase, engine, rx,
                   service>>

\* Mutant: the thread keeps the frame of the receive it has left.
ReceivedHolding(n) ==
    /\ taken' = taken + n
    /\ loop' = "drain"
    /\ UNCHANGED <<link, frame, arrived, open, queue, inbox, phase, engine, rx, service>>

\* Where recv returns: back to the top of the loop, with n units consumed.
Received(n) ==
    /\ taken' = taken + n
    /\ frame' = 0
    /\ loop' = "drain"
    /\ UNCHANGED <<link, arrived, open, queue, inbox, phase, engine, rx, service>>

IsHeader ==
    /\ Stream[taken + 1].part = "high"
    /\ Stream[taken + 2].part = "low"

\* Mutant: a length that is too large makes the thread discard what has arrived.
ReadLengthDiscards ==
    /\ loop = "head" /\ Buffered >= 2
    /\ LET d == Stream[taken + 1].id
       IN  IF IsHeader /\ Script[d].kind # "large"
           THEN /\ taken' = taken + 2
                /\ frame' = d
                /\ loop' = "body"
                /\ UNCHANGED <<link, arrived, open, queue, inbox, phase, engine, rx,
                               service>>
           ELSE Received(Buffered)

\* Four bytes that are not a header hold text, and text read as a length is
\* always above MAX_PAYLOAD_SIZE: a parse error that leaves the rest unread.
ReadLength ==
    /\ loop = "head" /\ Buffered >= 2
    /\ LET d == Stream[taken + 1].id
       IN  IF IsHeader /\ Script[d].kind # "large"
           THEN /\ taken' = taken + 2
                /\ frame' = d
                /\ loop' = "body"
                /\ UNCHANGED <<link, arrived, open, queue, inbox, phase, engine, rx,
                               service>>
           ELSE Received(2)

\* The message goes to the executor's channel; the loop ends when the
\* executor is gone.
ReadPayload ==
    /\ loop = "body" /\ Buffered >= Script[frame].units
    /\ IF Script[frame].kind = "bad"
       THEN Received(Script[frame].units)
       ELSE /\ taken' = taken + Script[frame].units
            /\ frame' = 0
            /\ loop' = IF engine = "gone" THEN "stopped" ELSE "drain"
            /\ rx' = IF engine = "gone" THEN rx ELSE Append(rx, frame)
            /\ UNCHANGED <<link, arrived, open, queue, inbox, phase, engine, service>>

Starved ==
    \/ loop = "head" /\ Buffered < 2
    \/ loop = "body" /\ Buffered < Script[frame].units

\* Mutant: a timed-out receive is repeated at once.
TimedOutRepeats ==
    /\ Starved /\ open /\ link.timeouts
    /\ taken' = arrived /\ frame' = 0 /\ loop' = "head"
    /\ UNCHANGED <<link, arrived, open, queue, inbox, phase, engine, rx, service>>

TimedOut ==
    /\ Starved /\ open /\ link.timeouts
    /\ Received(Buffered)

\* Mutant: the end of the stream is taken for a timeout.
DisconnectedRetries ==
    /\ Starved /\ ~open
    /\ Received(Buffered)

Disconnected ==
    /\ Starved /\ ~open
    /\ taken' = arrived
    /\ frame' = 0
    /\ loop' = "stopped"
    /\ UNCHANGED <<link, arrived, open, queue, inbox, phase, engine, rx, service>>

Thread == \/ Send \/ Drained \/ ReadLength \/ ReadPayload
          \/ TimedOut \/ Disconnected

-----------------------------------------------------------------------------
(* The inference thread: prefill, then polls, until the engine leaves. *)

beats == Len(SelectSeq(inbox \o queue, LAMBDA m : m.beat))

\* resp_tx.send: an error, once the thread is gone, is ignored.
Queued(ms) == IF loop = "stopped" THEN queue ELSE queue \o ms

EnterPrefill ==
    /\ engine = "idle" /\ beats + 2 <= MaxBeats
    /\ engine' = "prefill" /\ phase' = "prefill"
    /\ queue' = Queued(<<Beat("prefill")>>)
    /\ UNCHANGED <<link, thread, service, arrived, open, inbox, rx>>

\* A chunk's heartbeat is sent only when one is due.
PrefillChunk ==
    /\ engine = "prefill" /\ beats + 2 <= MaxBeats
    /\ queue' = Queued(<<Beat(phase)>>)
    /\ UNCHANGED <<link, thread, service, arrived, open, inbox, phase, engine, rx>>

LeavePrefill ==
    /\ engine = "prefill"
    /\ engine' = "decode"
    /\ queue' = Queued(<<Beat(phase)>>)
    /\ UNCHANGED <<link, thread, service, arrived, open, inbox, phase, rx>>

Poll ==
    /\ engine = "decode"
    /\ engine' = "apply" /\ phase' = "decode"
    /\ \/ UNCHANGED queue
       \/ beats < MaxBeats /\ queue' = Queued(<<Beat("decode")>>)
    /\ Take
    /\ UNCHANGED <<link, thread, arrived, open, inbox>>

\* Mutant: the first of the held directives is not answered.
ReportRest ==
    /\ engine = "apply"
    /\ engine' \in {"decode", "idle"}
    /\ queue' = Queued(Responses(SubSeq(held, 2, Len(held))))
    /\ Answer
    /\ UNCHANGED <<link, thread, arrived, open, inbox, phase>>

\* report_results; the decode loop then goes on, or returns to its caller.
Report ==
    /\ engine = "apply"
    /\ engine' \in {"decode", "idle"}
    /\ queue' = Queued(Responses(held))
    /\ Answer
    /\ UNCHANGED <<link, thread, arrived, open, inbox, phase>>

\* The executor is dropped with the session.  The thread is not joined: the
\* process may end under it.
Exit ==
    /\ engine = "idle"
    /\ engine' = "gone"
    /\ UNCHANGED <<link, thread, service, arrived, open, queue, inbox, phase, rx>>

ProcessEnd ==
    /\ engine = "gone" /\ loop # "stopped"
    /\ loop' = "stopped"
    /\ UNCHANGED <<link, taken, frame, service, arrived, open, queue, inbox, phase,
                   engine, rx>>

Engine == \/ EnterPrefill \/ PrefillChunk \/ LeavePrefill
          \/ Poll \/ Report \/ Exit

Finished == engine = "gone" /\ loop = "stopped" /\ UNCHANGED vars

Next ==
    Arrive \/ Close \/ Thread \/ Engine \/ ProcessEnd \/ Finished

Spec == Init /\ [][Next]_vars

\* The thread runs: a read that can return does, within its timeout if it has
\* one.  Nothing is assumed of the manager, and the engine may compute for
\* ever.
FairSpec == Spec /\ WF_vars(Thread)
-----------------------------------------------------------------------------
(* Type invariant: the thread holds a frame exactly while it reads a       *)
(* payload, and never reads past what has arrived.                         *)
TypeOK ==
    /\ taken \in 0 .. arrived /\ arrived \in 0 .. Len(Stream)
    /\ open \in BOOLEAN
    /\ loop \in {"drain", "head", "body", "stopped"}
    /\ frame \in 0 .. Len(Script)
    /\ loop = "body" => frame # 0
    /\ loop \in {"drain", "head"} => frame = 0
    /\ phase \in {"idle", "prefill", "decode"}
    /\ engine \in {"idle", "prefill", "decode", "apply", "gone"}
    /\ {rx, held, tx} \subseteq Seq(Ticket)
    /\ beats <= MaxBeats

WellFormed == SelectSeq([d \in DOMAIN Script |-> d], LAMBDA d : Script[d].kind = "ok")

(* The directives handed to the executor are the manager's well-formed     *)
(* messages, in order and without a gap: a message that does not parse is  *)
(* skipped, with the connection kept (run_loop's ParseError arm), and      *)
(* skipping it costs no other message.  It holds where no timeout falls    *)
(* inside a frame and where the payload behind an oversized length is      *)
(* absent or a whole number of words (Links).                              *)
FramesKept == IsPrefix(tx \o held \o rx, WellFormed)

(* The responses the manager has are those of its first well-formed        *)
(* messages, one each and in order, whatever heartbeats lie between them   *)
(* ("one Response per Directive", executor.rs).                            *)
AnsweredInOrder ==
    /\ IsPrefix([i \in 1 .. Len(SelectSeq(inbox, LAMBDA m : ~m.beat)) |->
                    SelectSeq(inbox, LAMBDA m : ~m.beat)[i].id], tx)
    /\ loop # "stopped" /\ open =>
          SelectSeq(inbox \o queue, LAMBDA m : ~m.beat) = Responses(tx)

(* Where the socket has a read timeout, a report that is queued reaches    *)
(* the manager, unless the connection or the engine ends first: run_loop   *)
(* comes back to its drain however silent the manager is.                  *)
ReportsArrive ==
    \A n \in 1 .. MaxBeats + Cardinality(Ticket) :
       link.timeouts /\ Len(inbox \o queue) >= n ~> Len(inbox) >= n \/ ~open \/ engine = "gone"

(* A connection the manager closed ends the loop (run_loop's Disconnected  *)
(* arm).                                                                   *)
CloseEnds == ~open ~> loop = "stopped"
=============================================================================
