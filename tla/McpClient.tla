----------------------------- MODULE McpClient -----------------------------
(***************************************************************************)
(* The MCP connection of integration/protocol/mcp/stdio.go: Open and its   *)
(* handshake, requests one at a time, the reader, which also answers the   *)
(* server, and failure, which closes the connection for good.  The server  *)
(* may send anything at any time, and need not read what it is sent.       *)
(* A select of Go takes any of its cases that are ready: a free gate can   *)
(* win over a connection that is closed.                                   *)
(***************************************************************************)
EXTENDS Naturals, Sequences, FiniteSets

CONSTANTS Callers, Opener, Reader, None,
          NoteLimit,  \* messages a server may send in between (128)
          MaxFrames   \* bound: frames the server sends

VARIABLES
  client,  \* [phase, failure, done, connected]; done: the channel is closed
  rpc,     \* [gate, next, pending, answer]: the request gate and what it guards
  write,   \* who holds the write gate: a call, the reader or None
  call,    \* [Clients -> [pc, id, got]]
  over,    \* calls whose context is over
  reader,  \* [pc, id]
  notes,   \* messages in between since the last request
  line,    \* frames of the server not yet read
  sent,    \* bound: frames sent so far
  wire     \* history: requests written, in order

vars == <<client, rpc, write, call, over, reader, notes, line, sent, wire>>

Clients == Callers \cup {Opener}

Init ==
  /\ client = [phase |-> "opening", failure |-> None, done |-> FALSE, connected |-> FALSE]
  /\ rpc = [gate |-> None, next |-> 0, pending |-> 0, answer |-> None]
  /\ write = None
  /\ call = [c \in Clients |-> [pc |-> IF c = Opener THEN "gate" ELSE "idle", id |-> 0, got |-> None]]
  /\ over = {}
  /\ reader = [pc |-> "read", id |-> 0]
  /\ notes = 0 /\ line = <<>> /\ sent = 0 /\ wire = <<>>

To(c, pc) == call' = [call EXCEPT ![c].pc = pc]

-----------------------------------------------------------------------------
\* fail, once: the reason under the lock, then the channel and the process.

Fail(why) ==
  client' = IF client.failure # None THEN client
            ELSE [client EXCEPT !.failure = why, !.connected = FALSE]

FailEnds ==
  /\ client.failure # None /\ ~client.done
  /\ client' = [client EXCEPT !.done = TRUE]
  /\ UNCHANGED <<rpc, write, call, over, reader, notes, line, sent, wire>>

-----------------------------------------------------------------------------
\* request and send.

\* CallTool and the other operations want a connected client.
Ask(c) ==
  /\ call[c].pc = "idle" /\ client.phase = "open"
  /\ To(c, IF client.connected THEN "gate" ELSE "returned")
  /\ UNCHANGED <<client, rpc, write, over, reader, notes, line, sent, wire>>

Begin(c) ==
  /\ call[c].pc = "gate" /\ rpc.gate = None
  /\ rpc' = [gate |-> c, next |-> rpc.next + 1, pending |-> rpc.next + 1, answer |-> None]
  /\ call' = [call EXCEPT ![c] = [@ EXCEPT !.pc = "send", !.id = rpc.next + 1]]
  /\ notes' = 0
  /\ UNCHANGED <<client, write, over, reader, line, sent, wire>>

Refused(c) ==
  /\ call[c].pc = "gate"
  /\ client.done \/ c \in over
  /\ To(c, IF c = Opener THEN "close" ELSE "returned")
  /\ UNCHANGED <<client, rpc, write, over, reader, notes, line, sent, wire>>

\* A send that fails fails the connection; in the handshake, Open closes it.
SendFails(c) ==
  IF call[c].pc \in {"notify", "notifying"} THEN To(c, "close") /\ UNCHANGED client
                                            ELSE To(c, "failing") /\ Fail("send")
Sending(c) == IF call[c].pc = "notify" THEN "notifying" ELSE "writing"

\* The write gate, and then a last look at both ways out.
TakeWrite(c) ==
  /\ call[c].pc \in {"send", "notify"} /\ write = None
  /\ IF client.done \/ c \in over THEN SendFails(c) /\ UNCHANGED write
     ELSE write' = c /\ To(c, Sending(c)) /\ UNCHANGED client
  /\ UNCHANGED <<rpc, over, reader, notes, line, sent, wire>>

StopWaiting(c) ==
  /\ call[c].pc \in {"send", "notify"}
  /\ client.done \/ c \in over
  /\ SendFails(c)
  /\ UNCHANGED <<rpc, write, over, reader, notes, line, sent, wire>>

\* Recorded and written; the pipe takes it when the server reads.
Written(c) ==
  /\ call[c].pc \in {"writing", "notifying"}
  /\ write' = None
  /\ wire' = IF call[c].pc = "writing" THEN Append(wire, c) ELSE wire
  /\ To(c, IF call[c].pc = "writing" THEN "wait" ELSE "connect")
  /\ UNCHANGED <<client, rpc, over, reader, notes, line, sent>>

\* The record is refused, or the process is closed under the write.
WriteFails(c) ==
  /\ call[c].pc \in {"writing", "notifying"}
  /\ write' = None
  /\ SendFails(c)
  /\ UNCHANGED <<rpc, over, reader, notes, line, sent, wire>>

\* The goroutine beside a write: it closes the process when the context ends.
Watch(c) ==
  /\ call[c].pc \in {"writing", "notifying"} /\ c \in over /\ client.failure = None
  /\ Fail("context")
  /\ UNCHANGED <<rpc, write, call, over, reader, notes, line, sent, wire>>

Left == [rpc EXCEPT !.gate = None, !.pending = 0, !.answer = None]

\* The answer; an error of the server fails the connection. Open judges its own.
GetAnswer(c) ==
  /\ call[c].pc = "wait" /\ rpc.answer # None
  /\ IF rpc.answer.kind = "error"
     THEN Fail("rejected") /\ To(c, "failing") /\ UNCHANGED rpc
     ELSE /\ rpc' = Left /\ UNCHANGED client
          /\ \E next \in IF c = Opener THEN {"notify", "close"} ELSE {"returned"} :
               call' = [call EXCEPT ![c] = [@ EXCEPT !.pc = next, !.got = rpc.answer.id]]
  /\ UNCHANGED <<write, over, reader, notes, line, sent, wire>>

GiveUp(c) ==
  /\ call[c].pc = "wait"
  /\ c \in over \/ client.done
  /\ Fail("timeout") /\ To(c, "failing")
  /\ UNCHANGED <<rpc, write, over, reader, notes, line, sent, wire>>

\* fail returns when it is done, and the request leaves.
Leave(c) ==
  /\ call[c].pc = "failing" /\ client.done
  /\ rpc' = Left
  /\ To(c, IF c = Opener THEN "close" ELSE "returned")
  /\ UNCHANGED <<client, write, over, reader, notes, line, sent, wire>>

ContextEnds(c) ==
  /\ c \notin over /\ call[c].pc \notin {"idle", "returned", "close"}
  /\ over' = over \cup {c}
  /\ UNCHANGED <<client, rpc, write, call, reader, notes, line, sent, wire>>

-----------------------------------------------------------------------------
\* The end of Open, and Close.

Connect ==
  /\ call[Opener].pc = "connect"
  /\ IF client.done THEN To(Opener, "close") /\ UNCHANGED client
     ELSE To(Opener, "returned") /\ client' = [client EXCEPT !.connected = TRUE, !.phase = "open"]
  /\ UNCHANGED <<rpc, write, over, reader, notes, line, sent, wire>>

OpenFails ==
  /\ call[Opener].pc = "close"
  /\ Fail("owner") /\ To(Opener, "returned")
  /\ UNCHANGED <<rpc, write, over, reader, notes, line, sent, wire>>

Close ==
  /\ client.phase = "open" /\ client.failure = None
  /\ Fail("owner")
  /\ UNCHANGED <<rpc, write, call, over, reader, notes, line, sent, wire>>

-----------------------------------------------------------------------------
\* The server, and the reader of its frames.

ServerSends(f) ==
  /\ sent < MaxFrames /\ ~client.done
  /\ line' = Append(line, f) /\ sent' = sent + 1
  /\ UNCHANGED <<client, rpc, write, call, over, reader, notes, wire>>

ReaderFails(why) == Fail(why) /\ reader' = [pc |-> "failing", id |-> 0]

Matches(id) == rpc.pending = id

Read ==
  LET f == Head(line) IN
  /\ reader.pc = "read" /\ line # <<>>
  /\ line' = Tail(line)
  /\ notes' = IF f.kind \in {"note", "ping"} /\ rpc.pending # 0 THEN notes + 1 ELSE notes
  /\ CASE f.kind \in {"note", "ping"} ->
            IF notes' > NoteLimit THEN ReaderFails("chatter")
            ELSE reader' = [reader EXCEPT !.pc = IF f.kind = "ping" THEN "reply" ELSE "read"] /\ UNCHANGED client
       [] f.kind \in {"answer", "error"} ->
            IF f.id # 0 /\ Matches(f.id) THEN reader' = [pc |-> f.kind, id |-> f.id] /\ UNCHANGED client
                                         ELSE ReaderFails("unexpected")
       [] OTHER -> ReaderFails("junk")
  /\ UNCHANGED <<rpc, write, call, over, sent, wire>>

\* To the channel it looked up, which holds one answer. A channel whose request
\* has left takes a second one unseen.
Deliver ==
  /\ reader.pc \in {"answer", "error"}
  /\ IF rpc.pending # 0 /\ Matches(reader.id) /\ rpc.answer # None
     THEN ReaderFails("duplicate") /\ UNCHANGED rpc
     ELSE /\ reader' = [pc |-> "read", id |-> 0] /\ UNCHANGED client
          /\ rpc' = IF rpc.pending # 0 /\ Matches(reader.id)
                    THEN [rpc EXCEPT !.answer = [kind |-> reader.pc, id |-> reader.id]] ELSE rpc
  /\ UNCHANGED <<write, call, over, notes, line, sent, wire>>

ReaderTakesWrite ==
  /\ reader.pc = "reply" /\ write = None
  /\ IF client.done THEN ReaderFails("send") /\ UNCHANGED write
     ELSE write' = Reader /\ reader' = [reader EXCEPT !.pc = "replying"] /\ UNCHANGED client
  /\ UNCHANGED <<rpc, call, over, notes, line, sent, wire>>

ReaderWrote ==
  /\ reader.pc = "replying"
  /\ write' = None /\ reader' = [reader EXCEPT !.pc = "read"]
  /\ UNCHANGED <<client, rpc, call, over, notes, line, sent, wire>>

\* A reply has five seconds, to get the gate and to be written.
ReplyExpires ==
  /\ reader.pc \in {"reply", "replying"}
  /\ write' = IF write = Reader THEN None ELSE write
  /\ ReaderFails("reply")
  /\ UNCHANGED <<rpc, call, over, notes, line, sent, wire>>

Eof ==
  /\ reader.pc = "read"
  /\ ReaderFails("eof")
  /\ UNCHANGED <<rpc, write, call, over, notes, line, sent, wire>>

ReaderStops ==
  /\ reader.pc = "failing" /\ client.done
  /\ reader' = [reader EXCEPT !.pc = "dead"]
  /\ UNCHANGED <<client, rpc, write, call, over, notes, line, sent, wire>>

-----------------------------------------------------------------------------
CallStep(c) ==
  \/ Ask(c) \/ Begin(c) \/ Refused(c) \/ TakeWrite(c) \/ StopWaiting(c) \/ Written(c) \/ WriteFails(c)
  \/ Watch(c) \/ GetAnswer(c) \/ GiveUp(c) \/ Leave(c) \/ ContextEnds(c)

ReaderStep == Read \/ Deliver \/ ReaderTakesWrite \/ ReaderWrote \/ ReplyExpires \/ Eof \/ ReaderStops

\* What a server may send: it knows the numbers of the requests, sent or guessed.
Sendable == {f \in [kind : {"answer", "error"}, id : 1 .. 1 + Cardinality(Clients)]
                   \cup [kind : {"note", "ping", "junk"}, id : {0}] : f.id <= rpc.next}

Next ==
  \/ FailEnds \/ Connect \/ OpenFails \/ Close \/ ReaderStep
  \/ \E c \in Clients : CallStep(c)
  \/ \E f \in Sendable : ServerSends(f)

Spec == Init /\ [][Next]_vars

\* Fairness is weak of FailEnds and the first three and strong of Turn: goroutines run,
\* contexts end, and closing the process ends a write and the output.  The
\* server need never read, write or exit.
OpenMoves == Connect \/ OpenFails
ReaderMoves == Read \/ Deliver \/ ReaderTakesWrite \/ ReplyExpires \/ ReaderStops \/ (client.done /\ Eof)
CallMoves(c) == \/ Refused(c) \/ StopWaiting(c) \/ (client.done /\ WriteFails(c)) \/ Watch(c)
                \/ GetAnswer(c) \/ GiveUp(c) \/ Leave(c) \/ ContextEnds(c)
Turn(c) == Begin(c) \/ TakeWrite(c)

-----------------------------------------------------------------------------
\* Types, the two gates, and who holds them.
McpTypeOK ==
  /\ \A c \in Clients : call[c].pc \in {"send", "writing", "wait", "failing"} => rpc.gate = c /\ rpc.pending = call[c].id
  /\ \A c \in Clients : write = c <=> call[c].pc \in {"writing", "notifying"}
  /\ write = Reader <=> reader.pc = "replying"
  /\ client.done => client.failure # None
  /\ reader.pc = "dead" => client.done

\* An operation returns the answer to its own request, whatever the server
\* sends twice, late or out of turn (pending and response under one lock).
AnswerIsMine ==
  \A c \in Clients : call[c].got # None => call[c].got = call[c].id

\* A request whose outcome is unknown is the last the server reads: nothing is
\* tried again on a connection that failed once.
UnknownIsLast ==
  \A i \in 1 .. Len(wire) - 1 : call[wire[i]].got # None

\* A connection that has failed is not connected, as a cancelled one is in
\* TestCancellationStopsOwnedConnectionWithoutReplay (stdio_test.go:175).
FailedIsDisconnected == client.done => ~client.connected

\* Not for ever: an operation or Open runs, also if the server stops reading.
Unreturned(c) == call[c].pc \notin {"idle", "returned"}

\* Not for ever: the reader of a connection that has failed runs, so Close can
\* confirm its end.
Unstopped == client.failure # None /\ reader.pc # "dead"
=============================================================================
