----------------------------- MODULE EventSink -----------------------------
(***************************************************************************)
(* The bounded, lossless event sink of sdk/kernel/core/events.go: producers *)
(* call Emit, one consumer drains the channel until it is closed, and the   *)
(* owners of the sink may call Close at any time, more than once.           *)
(***************************************************************************)
EXTENDS Naturals, Sequences, FiniteSets

CONSTANTS Producers, Owners, Room,
          MaxEmits      \* bound: calls of Emit by each producer

SinkAssumption == Room \in Nat \ {0} /\ MaxEmits \in Nat

VARIABLES
  sink,     \* [closed, done, eof, events]: the flag, the two channels, the buffer
  emit,     \* [Producers -> {"idle", "admitted", "sending"}]
  close,    \* [Owners -> {"idle", "waiting", "returned"}]
  once,     \* the state of closeOnce: {"new", "running", "done"}
  count,    \* [Producers -> calls made]
  accepted, \* history: the events whose Emit returned nil
  refused,  \* history: the events whose Emit returned an error
  read,     \* history: what the consumer received, in order
  ended,    \* the consumer saw the end of the channel
  panicked  \* history: a send met the closed channel

sinkVars == <<sink, emit, close, once, count, accepted, refused, read, ended, panicked>>

SinkEvent == Producers \X (1 .. MaxEmits)

Inflight == {p \in Producers : emit[p] = "sending"}

SinkInit ==
  /\ sink = [closed |-> FALSE, done |-> FALSE, eof |-> FALSE, events |-> <<>>]
  /\ emit = [p \in Producers |-> "idle"]
  /\ close = [o \in Owners |-> "idle"]
  /\ once = "new"
  /\ count = [p \in Producers |-> 0]
  /\ accepted = {} /\ refused = {} /\ read = <<>>
  /\ ended = FALSE /\ panicked = FALSE

\* Emit under the lock: refused, or counted among the calls in flight.
Admit(p) ==
  /\ emit[p] = "idle" /\ count[p] < MaxEmits
  /\ ~sink.closed
  /\ emit' = [emit EXCEPT ![p] = "sending"]
  /\ count' = [count EXCEPT ![p] = @ + 1]
  /\ UNCHANGED <<sink, close, once, accepted, refused, read, ended, panicked>>

Refuse(p) ==
  /\ emit[p] = "idle" /\ count[p] < MaxEmits
  /\ sink.closed
  /\ count' = [count EXCEPT ![p] = @ + 1]
  /\ refused' = refused \cup {<<p, count[p] + 1>>}
  /\ UNCHANGED <<sink, emit, close, once, accepted, read, ended, panicked>>

\* The select: room in the channel, the sink closing, or the caller's context.
\* Go chooses freely among the ready ones.
Deliver(p) ==
  /\ emit[p] \in {"sending", "admitted"}
  /\ sink.eof \/ Len(sink.events) < Room
  /\ emit' = [emit EXCEPT ![p] = "idle"]
  /\ panicked' = (panicked \/ sink.eof)
  /\ sink' = IF sink.eof THEN sink ELSE [sink EXCEPT !.events = Append(@, <<p, count[p]>>)]
  /\ accepted' = accepted \cup {<<p, count[p]>>}
  /\ UNCHANGED <<close, once, count, refused, read, ended>>

GiveUp(p) ==
  /\ emit[p] = "sending"
  /\ sink.done
  /\ emit' = [emit EXCEPT ![p] = "idle"]
  /\ refused' = refused \cup {<<p, count[p]>>}
  /\ UNCHANGED <<sink, close, once, count, accepted, read, ended, panicked>>

CancelEmit(p) ==
  /\ emit[p] = "sending"
  /\ emit' = [emit EXCEPT ![p] = "idle"]
  /\ refused' = refused \cup {<<p, count[p]>>}
  /\ UNCHANGED <<sink, close, once, count, accepted, read, ended, panicked>>

\* Close: the first caller marks the sink, waits for the calls in flight and
\* closes the channel; the others wait for it inside closeOnce.
CloseFirst(o) ==
  /\ close[o] = "idle" /\ once = "new"
  /\ once' = "running"
  /\ close' = [close EXCEPT ![o] = "waiting"]
  /\ sink' = [sink EXCEPT !.closed = TRUE, !.done = TRUE]
  /\ UNCHANGED <<emit, count, accepted, refused, read, ended, panicked>>

CloseFinish(o) ==
  /\ close[o] = "waiting"
  /\ Inflight = {}
  /\ close' = [close EXCEPT ![o] = "returned"]
  /\ once' = "done"
  /\ sink' = [sink EXCEPT !.eof = TRUE]
  /\ UNCHANGED <<emit, count, accepted, refused, read, ended, panicked>>

CloseAgain(o) ==
  /\ close[o] = "idle" /\ once = "done"
  /\ close' = [close EXCEPT ![o] = "returned"]
  /\ UNCHANGED <<sink, emit, once, count, accepted, refused, read, ended, panicked>>

Drain ==
  /\ sink.events # <<>>
  /\ read' = Append(read, Head(sink.events))
  /\ sink' = [sink EXCEPT !.events = Tail(@)]
  /\ UNCHANGED <<emit, close, once, count, accepted, refused, ended, panicked>>

SeeEnd ==
  /\ sink.eof /\ sink.events = <<>> /\ ~ended
  /\ ended' = TRUE
  /\ UNCHANGED <<sink, emit, close, once, count, accepted, refused, read, panicked>>

SinkNext ==
  \/ \E p \in Producers : Admit(p) \/ Refuse(p) \/ Deliver(p) \/ GiveUp(p) \/ CancelEmit(p)
  \/ \E o \in Owners : CloseFirst(o) \/ CloseFinish(o) \/ CloseAgain(o)
  \/ Drain \/ SeeEnd

SinkSpec == SinkInit /\ [][SinkNext]_sinkVars

\* Fairness is of these: the scheduler runs a goroutine whose wait is over;
\* nobody has to drain, cancel or emit.
EmitMoves(p) == Deliver(p) \/ GiveUp(p)
CloseMoves(o) == CloseFinish(o) \/ CloseAgain(o)

-----------------------------------------------------------------------------

SinkTypeOK ==
  /\ Len(sink.events) <= Room
  /\ sink.eof => sink.closed /\ Inflight = {}
  /\ accepted \cup refused \subseteq SinkEvent
  /\ once = "done" <=> sink.eof

\* No Emit meets the closed channel: Close waits for every call it let in.
NoSendAfterClose == ~panicked

\* A successful Emit is lossless and a failed one leaves nothing behind: the
\* consumer that saw the end received exactly the accepted events, each once.
Lossless ==
  /\ accepted \cap refused = {}
  /\ ended => /\ {read[i] : i \in DOMAIN read} = accepted
              /\ Cardinality(accepted) = Len(read)

\* Not for ever: Close unblocks the Emits that wait for room and returns,
\* although nobody drains the channel.
Unclosed(o) == close[o] = "waiting"
=============================================================================
