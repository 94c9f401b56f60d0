----------------------------- MODULE AepClient -----------------------------
(***************************************************************************)
(* The AEP plugin connection of integration/protocol/aep/client.go: calls  *)
(* that go one at a time through a gate, a reader that routes the frames   *)
(* of the plugin, workers that serve its reverse calls, a journal that     *)
(* must record a frame before it is acted on, failure that closes the      *)
(* whole connection, and the graceful Shutdown.  The plugin may send       *)
(* anything at any time.                                                   *)
(***************************************************************************)
EXTENDS Naturals, Sequences, FiniteSets

CONSTANTS Callers, Workers, Keys, None,
          QueueLimit,   \* reverse calls that may wait for a worker
          MaxFrames     \* bound: frames the plugin sends

VARIABLES
  conn,     \* [failed, shutting, shutdownID, ack, reading, exited]
  gate,     \* who holds the gate: a caller, "shutdown" or None
  write,    \* who holds the write slot: a caller, a worker, "shutdown" or None
  rpc,      \* [next, pending, reply]: reply is the response channel's content
  call,     \* [Callers \cup {"shutdown"} -> [pc, id, got]]
  reader,   \* the reply the reader has not delivered and the call it looked up, or None
  queue,    \* keys of reverse calls that wait for a worker
  seen,     \* keys the plugin has used
  worker,   \* [Workers -> [pc, key]]
  owner,    \* the owner's Shutdown: "idle", "calling", "draining", "clean", "closing", "returned"
  pipe,     \* frames of the plugin not yet read
  sent,     \* bound: frames sent so far
  written,  \* history: requests on the wire, in order
  answers,  \* history: [Keys -> answers written]
  recorded, \* history: what the journal holds, as sets of ids and keys
  acted     \* history: what was written or routed

vars == <<conn, gate, write, rpc, call, reader, queue, seen, worker, owner, pipe,
          sent, written, answers, recorded, acted>>

Clients == Callers \cup {"shutdown"}
Reply(id) == [kind |-> "reply", id |-> id]
Reverse(k) == [kind |-> "call", id |-> k]
Junk == [kind |-> "junk", id |-> 0]

Init ==
  /\ conn = [failed |-> FALSE, shutting |-> FALSE, shutdownID |-> 0, ack |-> FALSE,
             reading |-> TRUE, exited |-> FALSE]
  /\ gate = None /\ write = None
  /\ rpc = [next |-> 0, pending |-> 0, reply |-> 0]
  /\ call = [c \in Clients |-> [pc |-> "idle", id |-> 0, got |-> 0]]
  /\ reader = None /\ queue = <<>> /\ seen = {}
  /\ worker = [w \in Workers |-> [pc |-> "idle", key |-> None]]
  /\ owner = "idle"
  /\ pipe = <<>> /\ sent = 0
  /\ written = <<>> /\ answers = [k \in Keys |-> 0]
  /\ recorded = {} /\ acted = {}

Failed == conn' = [conn EXCEPT !.failed = TRUE]

-----------------------------------------------------------------------------
\* Call, and the shutdown call, which differs only where it may still begin.

\* The gate, then the identity of the request, under the lock.
Begin(c) ==
  /\ call[c].pc = "idle" /\ gate = None /\ ~conn.failed
  /\ IF c = "shutdown" THEN owner = "calling" ELSE ~conn.shutting
  /\ gate' = c
  /\ rpc' = [next |-> rpc.next + 1, pending |-> rpc.next + 1, reply |-> 0]
  /\ conn' = IF c = "shutdown" THEN [conn EXCEPT !.shutdownID = rpc.next + 1] ELSE conn
  /\ call' = [call EXCEPT ![c] = [@ EXCEPT !.pc = "send", !.id = rpc.next + 1]]
  /\ UNCHANGED <<write, reader, queue, seen, worker, owner, pipe, sent, written, answers, recorded, acted>>

\* send: the write slot, with a last look whether the connection is open.
TakeWrite(c) ==
  /\ call[c].pc = "send" /\ write = None /\ ~conn.failed
  /\ write' = c
  /\ call' = [call EXCEPT ![c].pc = "record"]
  /\ UNCHANGED <<conn, gate, rpc, reader, queue, seen, worker, owner, pipe, sent, written, answers, recorded, acted>>

\* The journal first, then the pipe; a journal that fails closes everything.
WriteCall(c, ok) ==
  /\ call[c].pc = "record"
  /\ write' = None
  /\ IF ok THEN /\ recorded' = recorded \cup {call[c].id}
                /\ acted' = acted \cup {call[c].id}
                /\ written' = Append(written, c)
                /\ call' = [call EXCEPT ![c].pc = "wait"] /\ UNCHANGED conn
           ELSE /\ Failed /\ call' = [call EXCEPT ![c].pc = "leave"]
                /\ UNCHANGED <<recorded, acted, written>>
  /\ UNCHANGED <<gate, rpc, reader, queue, seen, worker, owner, pipe, sent, answers>>

GetReply(c) ==
  /\ call[c].pc = "wait" /\ rpc.reply # 0
  /\ call' = [call EXCEPT ![c] = [@ EXCEPT !.pc = "leave", !.got = rpc.reply]]
  /\ UNCHANGED <<conn, gate, write, rpc, reader, queue, seen, worker, owner, pipe, sent, written, answers, recorded, acted>>

\* The deadline: it fails the connection, except of a caller still at the gate.
Expire(c) ==
  /\ call[c].pc \in {"send", "record", "wait"}
  /\ Failed
  /\ call' = [call EXCEPT ![c].pc = "leave"]
  /\ write' = IF write = c THEN None ELSE write
  /\ UNCHANGED <<gate, rpc, reader, queue, seen, worker, owner, pipe, sent, written, answers, recorded, acted>>

SeeFailure(c) ==
  /\ call[c].pc \in {"send", "wait"} /\ conn.failed
  /\ call' = [call EXCEPT ![c].pc = "leave"]
  /\ UNCHANGED <<conn, gate, write, rpc, reader, queue, seen, worker, owner, pipe, sent, written, answers, recorded, acted>>

Leave(c) ==
  /\ call[c].pc = "leave"
  /\ gate' = None
  /\ rpc' = [rpc EXCEPT !.pending = 0, !.reply = 0]
  /\ call' = [call EXCEPT ![c].pc = "done"]
  /\ UNCHANGED <<conn, write, reader, queue, seen, worker, owner, pipe, sent, written, answers, recorded, acted>>

TurnedAway(c) ==
  /\ c \in Callers /\ call[c].pc = "idle"
  /\ conn.failed \/ conn.shutting
  /\ call' = [call EXCEPT ![c].pc = "done"]
  /\ UNCHANGED <<conn, gate, write, rpc, reader, queue, seen, worker, owner, pipe, sent, written, answers, recorded, acted>>

-----------------------------------------------------------------------------
\* The plugin.

PluginSends(f) ==
  /\ ~conn.exited /\ sent < MaxFrames
  /\ pipe' = Append(pipe, f)
  /\ sent' = sent + 1
  /\ UNCHANGED <<conn, gate, write, rpc, call, reader, queue, seen, worker, owner, written, answers, recorded, acted>>

PluginExits ==
  /\ ~conn.exited
  /\ conn' = [conn EXCEPT !.exited = TRUE]
  /\ UNCHANGED <<gate, write, rpc, call, reader, queue, seen, worker, owner, pipe, sent, written, answers, recorded, acted>>

-----------------------------------------------------------------------------
\* stdout: a frame is recorded, checked and routed.

Reject == Failed /\ UNCHANGED <<seen, queue, reader>>

ReadReverse(k) ==
  IF k \in seen \/ Len(queue) >= QueueLimit THEN Reject
  ELSE /\ seen' = seen \cup {k}
       /\ queue' = Append(queue, k)
       /\ UNCHANGED <<conn, reader>>

ReadReply_Any(id) ==
  IF rpc.pending = 0 THEN Reject
  ELSE /\ conn' = [conn EXCEPT !.ack = @ \/ id = conn.shutdownID]
       /\ reader' = [id |-> id, chan |-> rpc.pending]
       /\ UNCHANGED <<seen, queue>>
ReadReply(id) ==
  IF id # rpc.pending THEN Reject
  ELSE /\ conn' = [conn EXCEPT !.ack = @ \/ id = conn.shutdownID]
       /\ reader' = [id |-> id, chan |-> rpc.pending]
       /\ UNCHANGED <<seen, queue>>

Read(ok) ==
  /\ conn.reading /\ ~conn.failed /\ reader = None /\ pipe # <<>>
  /\ LET f == Head(pipe) IN
     IF ~ok THEN Reject /\ UNCHANGED <<recorded, acted>>
     ELSE /\ recorded' = recorded \cup {f.id}
          /\ acted' = acted \cup {f.id}
          /\ CASE f.kind = "call" -> ReadReverse(f.id)
               [] f.kind = "reply" -> ReadReply(f.id)
               [] OTHER -> Reject
  /\ pipe' = Tail(pipe)
  /\ UNCHANGED <<gate, write, rpc, call, worker, owner, sent, written, answers>>

\* The reply goes to the channel the reader looked up; a full one is a
\* duplicate, and that of a call that has left is nobody's.
Deliver ==
  /\ reader # None
  /\ reader' = None
  /\ IF rpc.pending # reader.chan THEN UNCHANGED <<rpc, conn>>
     ELSE IF rpc.reply # 0 THEN Failed /\ UNCHANGED rpc
     ELSE rpc' = [rpc EXCEPT !.reply = reader.id] /\ UNCHANGED conn
  /\ UNCHANGED <<gate, write, call, queue, seen, worker, owner, pipe, sent, written, answers, recorded, acted>>

\* The end of the output is a failure, unless the plugin acknowledged the
\* shutdown.  After a failure the reader stops.
ReadEnd ==
  /\ conn.reading /\ reader = None
  /\ conn.failed \/ (conn.exited /\ pipe = <<>>)
  /\ conn' = [conn EXCEPT !.reading = FALSE, !.failed = @ \/ ~conn.ack]
  /\ UNCHANGED <<gate, write, rpc, call, reader, queue, seen, worker, owner, pipe, sent, written, answers, recorded, acted>>

-----------------------------------------------------------------------------
\* The callback workers.

TakeReverse(w) ==
  /\ worker[w].pc = "idle" /\ queue # <<>>
  /\ worker' = [worker EXCEPT ![w] = [pc |-> "handle", key |-> Head(queue)]]
  /\ queue' = Tail(queue)
  /\ UNCHANGED <<conn, gate, write, rpc, call, reader, seen, owner, pipe, sent, written, answers, recorded, acted>>

\* The handler returned, or a failure kept it from running.
Handled(w) ==
  /\ worker[w].pc = "handle"
  /\ worker' = [worker EXCEPT ![w] = IF conn.failed THEN [pc |-> "idle", key |-> None]
                                     ELSE [@ EXCEPT !.pc = "answer"]]
  /\ UNCHANGED <<conn, gate, write, rpc, call, reader, queue, seen, owner, pipe, sent, written, answers, recorded, acted>>

Answer(w, ok) ==
  /\ worker[w].pc = "answer" /\ write = None
  /\ worker' = [worker EXCEPT ![w] = [pc |-> "idle", key |-> None]]
  /\ IF conn.failed \/ ~ok THEN Failed /\ UNCHANGED answers
     ELSE answers' = [answers EXCEPT ![worker[w].key] = @ + 1] /\ UNCHANGED conn
  /\ UNCHANGED <<gate, write, rpc, call, reader, queue, seen, owner, pipe, sent, written, recorded, acted>>

StopWorker(w) ==
  /\ worker[w].pc = "idle" /\ conn.failed
  /\ worker' = [worker EXCEPT ![w].pc = "stopped"]
  /\ UNCHANGED <<conn, gate, write, rpc, call, reader, queue, seen, owner, pipe, sent, written, answers, recorded, acted>>

-----------------------------------------------------------------------------
\* Shutdown by the owner: a last call, the end of the output and the exit of
\* the plugin; whatever fails, Close follows.

Shutdown ==
  /\ owner = "idle"
  /\ IF conn.failed THEN owner' = "closing" /\ UNCHANGED conn
     ELSE owner' = "calling" /\ conn' = [conn EXCEPT !.shutting = TRUE]
  /\ UNCHANGED <<gate, write, rpc, call, reader, queue, seen, worker, pipe, sent, written, answers, recorded, acted>>

ShutdownAnswered ==
  /\ owner = "calling"
  /\ \/ call["shutdown"].pc = "done"
     \/ conn.failed /\ call["shutdown"].pc = "idle"
  /\ owner' = IF call["shutdown"].got # 0 THEN "draining" ELSE "closing"
  /\ UNCHANGED <<conn, gate, write, rpc, call, reader, queue, seen, worker, pipe, sent, written, answers, recorded, acted>>

\* All output read and the plugin gone, or the grace period is over.
Drained(inTime) ==
  /\ owner = "draining"
  /\ inTime => ~conn.reading /\ conn.exited
  /\ owner' = IF inTime /\ ~conn.failed THEN "clean" ELSE "closing"
  /\ UNCHANGED <<conn, gate, write, rpc, call, reader, queue, seen, worker, pipe, sent, written, answers, recorded, acted>>

\* Close: the failure, and the wait for the workers.
Close ==
  /\ owner \in {"clean", "closing"} /\ ~conn.failed
  /\ conn' = [conn EXCEPT !.failed = TRUE, !.exited = TRUE]
  /\ UNCHANGED <<gate, write, rpc, call, reader, queue, seen, worker, owner, pipe, sent, written, answers, recorded, acted>>

Quiet == ~conn.reading /\ \A w \in Workers : worker[w].pc = "stopped"

Closed ==
  /\ owner \in {"clean", "closing"} /\ conn.failed /\ Quiet
  /\ owner' = IF owner = "clean" THEN "clean-returned" ELSE "returned"
  /\ UNCHANGED <<conn, gate, write, rpc, call, reader, queue, seen, worker, pipe, sent, written, answers, recorded, acted>>

Next ==
  \/ \E c \in Clients : \/ Begin(c) \/ TakeWrite(c) \/ GetReply(c) \/ Expire(c)
                        \/ SeeFailure(c) \/ Leave(c) \/ TurnedAway(c)
                        \/ \E ok \in BOOLEAN : WriteCall(c, ok)
  \/ \E f \in {Reply(id) : id \in 1 .. Cardinality(Clients)} \cup {Reverse(k) : k \in Keys} \cup {Junk} :
       PluginSends(f)
  \/ PluginExits \/ Deliver \/ ReadEnd
  \/ \E ok \in BOOLEAN : Read(ok)
  \/ \E w \in Workers : \/ TakeReverse(w) \/ Handled(w) \/ StopWorker(w)
                        \/ \E ok \in BOOLEAN : Answer(w, ok)
  \/ Shutdown \/ ShutdownAnswered \/ Close \/ Closed
  \/ \E inTime \in BOOLEAN : Drained(inTime)

Spec == Init /\ [][Next]_vars

\* Fairness is weak of the first four and strong of Begin and Answers:
\* deadlines expire, handlers and writes return, and a closed process exits;
\* the plugin need not say anything, the owner need not shut down.
CallMoves(c) == Expire(c) \/ Leave(c) \/ SeeFailure(c) \/ TurnedAway(c)
ReaderMoves == Deliver \/ ReadEnd
WorkerMoves(w) == Handled(w) \/ StopWorker(w)
OwnerMoves == ShutdownAnswered \/ Drained(FALSE) \/ Close \/ Closed
Answers(w) == \E ok \in BOOLEAN : Answer(w, ok)

-----------------------------------------------------------------------------

AepTypeOK ==
  /\ gate = None <=> \A c \in Clients : call[c].pc \notin {"send", "record", "wait", "leave"}
  /\ write # None => call[write].pc = "record"
  /\ Len(queue) <= QueueLimit
  /\ rpc.pending # 0 => gate # None
  /\ conn.ack => conn.shutdownID # 0

\* A call returns only the reply to its own request: a late or repeated reply
\* to an earlier one closes the connection instead.
OwnReply == \A c \in Clients : call[c].got \in {0, call[c].id}

\* A reverse call is answered at most once, also when the plugin repeats its
\* identity.
AnsweredOnce == \A k \in Keys : answers[k] <= 1

\* Nothing is written or acted on that the journal does not hold.
RecordedFirst == acted \subseteq recorded

\* No request follows the shutdown request on the wire.
ShutdownIsLast ==
  \A i \in DOMAIN written : written[i] = "shutdown" => i = Len(written)

\* A shutdown that reports success was acknowledged, and every frame the
\* plugin had sent before it left was read.
GracefulIsDrained ==
  owner \in {"clean", "clean-returned"} => conn.ack /\ pipe = <<>> /\ conn.exited

\* Close returns only when the reader and every worker are gone.
ClosedIsQuiet == owner \in {"returned", "clean-returned"} => Quiet

\* Not for ever: a call or Shutdown waits, although the plugin is silent.
Unreturned(c) == call[c].pc \notin {"idle", "done"}
Unclosed == owner \notin {"idle", "returned", "clean-returned"}
=============================================================================
