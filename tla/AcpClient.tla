----------------------------- MODULE AcpClient -----------------------------
(***************************************************************************)
(* One session of the ACP agent connection, integration/protocol/acp       *)
(* client.go and session.go: prompts one after the other, their            *)
(* cancellation by their own context or by Session.Cancel, the permission  *)
(* requests the agent sends meanwhile, the workers that ask for consent,   *)
(* and the one writer through whose queue every frame reaches the wire.    *)
(***************************************************************************)
EXTENDS Naturals, Sequences, FiniteSets

CONSTANTS
  Prompts,      \* 1 .. n, used in this order
  Cancellers,   \* callers of Session.Cancel
  Workers, Keys, None,
  HasHandler,   \* whether the client has a permission handler
  MaxRequests,  \* bound: permission requests of the agent
  WriteLimit, CallbackLimit

Requests == 1 .. MaxRequests
Threads == Prompts \cup Cancellers \cup Workers

VARIABLES
  failed,     \* the connection has failed or was closed
  turn,       \* session.turn: the running prompt, or 0
  cancelled,  \* the prompts whose context is cancelled
  th,         \* [Threads -> [pc, turn, todo, req, out]]
  writes,     \* the queue of the writer
  writer,     \* the frame the writer has prepared, or None
  wire,       \* history: the frames written, in order
  replied,    \* prompts the agent has answered
  req,        \* [Requests -> [key, turn, committed, responded, holder]]
  asked,      \* requests so far
  table,      \* callbackIDs: [Keys -> request or 0]
  callbacks   \* requests that wait for a worker

vars == <<failed, turn, cancelled, th, writes, writer, wire, replied, req, asked, table, callbacks>>

Rest == [pc |-> "idle", turn |-> 0, todo |-> {}, req |-> 0, out |-> "cancelled"]
Frame(kind, of, out) == [kind |-> kind, of |-> of, out |-> out]
OnWire(kind, of) == \E j \in DOMAIN wire : wire[j].kind = kind /\ wire[j].of = of

Init ==
  /\ failed = FALSE /\ turn = 0 /\ cancelled = {}
  /\ th = [t \in Threads |-> Rest]
  /\ writes = <<>> /\ writer = None /\ wire = <<>>
  /\ replied = {}
  /\ req = [i \in Requests |-> [key |-> None, turn |-> 0, committed |-> FALSE,
                                responded |-> FALSE, holder |-> None]]
  /\ asked = 0
  /\ table = [k \in Keys |-> 0] /\ callbacks = <<>>

Ctx(p) == p \in cancelled \/ failed

Go(t, pc) == th' = [th EXCEPT ![t].pc = pc]

\* send: into the queue of the writer, or an error when it is full.
Room == ~failed /\ Len(writes) < WriteLimit
Enqueue(f) == writes' = Append(writes, f)

-----------------------------------------------------------------------------
\* Prompt and the request below it.

StartPrompt(p) ==
  /\ th[p].pc = "idle" /\ \A q \in Prompts : q < p => th[q].pc = "done"
  /\ IF failed \/ turn # 0 \/ ~Room
     THEN /\ Go(p, "done")
          /\ failed' = (failed \/ (turn = 0 /\ ~Room))
          /\ UNCHANGED <<turn, writes>>
     ELSE /\ turn' = p
          /\ Go(p, "send")
          /\ Enqueue(Frame("prompt", p, "none"))
          /\ UNCHANGED failed
  /\ UNCHANGED <<cancelled, writer, wire, replied, req, asked, table, callbacks>>

Prompted(p) ==
  /\ th[p].pc = "send" /\ OnWire("prompt", p)
  /\ Go(p, "wait")
  /\ UNCHANGED <<failed, turn, cancelled, writes, writer, wire, replied, req, asked, table, callbacks>>

\* Its deadline, its caller's context, or the turn's: cancelPrompt follows.
Interrupt(p) ==
  /\ th[p].pc = "wait"
  /\ th' = [th EXCEPT ![p] = [@ EXCEPT !.pc = "mark", !.turn = p]]
  /\ UNCHANGED <<failed, turn, cancelled, writes, writer, wire, replied, req, asked, table, callbacks>>

\* The prompt returns and gives its turn back: answered, or failed with the
\* connection, which a cancellation nobody answers in time brings about.
EndPrompt(p) ==
  /\ \/ th[p].pc \in {"wait", "await"} /\ p \in replied /\ UNCHANGED failed
     \/ th[p].pc \notin {"idle", "done"} /\ failed /\ UNCHANGED failed
     \/ th[p].pc \in {"await", "send"} /\ failed' = TRUE
  /\ th' = [th EXCEPT ![p] = [Rest EXCEPT !.pc = "done"]]
  /\ turn' = IF turn = p THEN 0 ELSE turn
  /\ cancelled' = cancelled \cup {p}
  /\ req' = [i \in Requests |-> IF req[i].holder = p THEN [req[i] EXCEPT !.holder = None] ELSE req[i]]
  /\ UNCHANGED <<writes, writer, wire, replied, asked, table, callbacks>>

-----------------------------------------------------------------------------
\* cancelTurn, called by a prompt for itself, by Session.Cancel and by a worker
\* of a client without a handler.

Cancel(t) ==
  /\ t \in Cancellers /\ th[t].pc = "idle" /\ ~failed
  /\ th' = [th EXCEPT ![t] = [@ EXCEPT !.pc = "mark", !.turn = turn]]
  /\ UNCHANGED <<failed, turn, cancelled, writes, writer, wire, replied, req, asked, table, callbacks>>

After(t) == IF t \in Prompts THEN "await" ELSE "done"

\* Under the session's lock: the first to cancel marks the turn, so that no
\* frame written from here on goes on with it.
Mark(t) ==
  /\ th[t].pc = "mark"
  /\ LET p == th[t].turn IN
     IF p = 0 \/ turn # p \/ p \in cancelled
     THEN Go(t, After(t)) /\ UNCHANGED cancelled
     ELSE Go(t, "notice") /\ cancelled' = cancelled \cup {p}
  /\ UNCHANGED <<failed, turn, writes, writer, wire, replied, req, asked, table, callbacks>>

\* The cancel notice; its failure fails the connection, except for Session.Cancel.
Notice(t) ==
  /\ th[t].pc = "notice"
  /\ IF Room THEN /\ Enqueue(Frame("cancel", th[t].turn, "none"))
                  /\ Go(t, "noticed") /\ UNCHANGED failed
             ELSE /\ Go(t, After(t)) /\ UNCHANGED writes
                  /\ failed' = (failed \/ t \notin Cancellers)
  /\ UNCHANGED <<turn, cancelled, writer, wire, replied, req, asked, table, callbacks>>

\* Then the turn's open permission requests are answered "cancelled".
Noticed(t) ==
  /\ th[t].pc = "noticed" /\ (OnWire("cancel", th[t].turn) \/ failed)
  /\ th' = IF ~OnWire("cancel", th[t].turn) THEN [th EXCEPT ![t].pc = After(t)] ELSE [th EXCEPT ![t] = [@ EXCEPT !.pc = "answers",
       !.todo = {table[k] : k \in Keys} \cap {i \in Requests : req[i].turn = th[t].turn}]]
  /\ UNCHANGED <<failed, turn, cancelled, writes, writer, wire, replied, req, asked, table, callbacks>>

NextAnswer(t) ==
  /\ th[t].pc = "answers"
  /\ IF th[t].todo = {} THEN Go(t, After(t))
     ELSE \E i \in th[t].todo :
            th' = [th EXCEPT ![t] = [@ EXCEPT !.pc = "lock", !.todo = @ \ {i}, !.req = i, !.out = "cancelled"]]
  /\ UNCHANGED <<failed, turn, cancelled, writes, writer, wire, replied, req, asked, table, callbacks>>

-----------------------------------------------------------------------------
\* answerPermission: it holds the request's own lock until its frame is written.

Resume(t) == IF t \in Workers THEN "finish" ELSE "answers"

TakeRequest(t) ==
  /\ th[t].pc = "lock"
  /\ LET i == th[t].req IN
     /\ req[i].holder = None
     /\ IF req[i].responded THEN Go(t, Resume(t)) /\ UNCHANGED <<req, writes, failed>>
        ELSE IF Room
        THEN /\ req' = [req EXCEPT ![i].holder = t]
             /\ Enqueue(Frame("answer", i, th[t].out))
             /\ Go(t, "answered") /\ UNCHANGED failed
        ELSE /\ failed' = (failed \/ t \notin Cancellers)
             /\ Go(t, Resume(t)) /\ UNCHANGED <<req, writes>>
  /\ UNCHANGED <<turn, cancelled, writer, wire, replied, asked, table, callbacks>>

Answered(t) ==
  /\ th[t].pc = "answered"
  /\ LET i == th[t].req IN
     \/ /\ OnWire("answer", i)
        /\ req' = [req EXCEPT ![i] = [@ EXCEPT !.responded = TRUE, !.holder = None]]
     \/ /\ failed
        /\ req' = [req EXCEPT ![i].holder = None]
  /\ Go(t, Resume(t))
  /\ UNCHANGED <<failed, turn, cancelled, writes, writer, wire, replied, asked, table, callbacks>>

-----------------------------------------------------------------------------
\* The writer decides what a frame says when its turn comes.

\* A consent whose turn was cancelled or is over goes out as a refusal.
Final_Early(f) == f
Final(f) ==
  IF f.kind = "answer" /\ (turn # req[f.of].turn \/ Ctx(req[f.of].turn))
  THEN [f EXCEPT !.out = "cancelled"] ELSE f

Prepare ==
  /\ writer = None /\ writes # <<>>
  /\ LET f == Head(writes) IN
     /\ writes' = Tail(writes)
     /\ IF f.kind = "prompt" /\ Ctx(f.of)
        THEN failed' = TRUE /\ UNCHANGED <<writer, req>>
        ELSE /\ writer' = Final(f)
             /\ req' = IF f.kind = "answer" THEN [req EXCEPT ![f.of].committed = TRUE] ELSE req
             /\ UNCHANGED failed
  /\ UNCHANGED <<turn, cancelled, th, wire, replied, asked, table, callbacks>>

\* Recorded and written; the journal or the pipe may fail.
Write(ok) ==
  /\ writer # None
  /\ writer' = None
  /\ IF ok THEN wire' = Append(wire, writer) /\ UNCHANGED failed
           ELSE failed' = TRUE /\ UNCHANGED wire
  /\ UNCHANGED <<turn, cancelled, th, writes, replied, req, asked, table, callbacks>>

-----------------------------------------------------------------------------
\* Frames of the agent, as the reader routes them.

AgentReplies(p) ==
  /\ ~failed
  /\ IF OnWire("prompt", p) /\ p \notin replied
     THEN replied' = replied \cup {p} /\ UNCHANGED failed
     ELSE failed' = TRUE /\ UNCHANGED replied
  /\ UNCHANGED <<turn, cancelled, th, writes, writer, wire, req, asked, table, callbacks>>

\* A permission request outside a prompt, with the identity of one that is
\* still open, or beyond the queue, fails the connection.
AgentAsks(k) ==
  /\ ~failed /\ asked < MaxRequests
  /\ IF \/ turn = 0 \/ Len(callbacks) >= CallbackLimit
        \/ table[k] # 0 /\ ~req[table[k]].committed
     THEN failed' = TRUE /\ UNCHANGED <<req, asked, table, callbacks>>
     ELSE /\ asked' = asked + 1
          /\ req' = [req EXCEPT ![asked + 1] = [@ EXCEPT !.key = k, !.turn = turn]]
          /\ table' = [table EXCEPT ![k] = asked + 1]
          /\ callbacks' = Append(callbacks, asked + 1)
          /\ UNCHANGED failed
  /\ UNCHANGED <<turn, cancelled, th, writes, writer, wire, replied>>

AgentBreaks ==
  /\ ~failed
  /\ failed' = TRUE
  /\ UNCHANGED <<turn, cancelled, th, writes, writer, wire, replied, req, asked, table, callbacks>>

-----------------------------------------------------------------------------
\* The callback workers.

TakeCallback(w) ==
  /\ w \in Workers /\ th[w].pc = "idle" /\ callbacks # <<>> /\ ~failed
  /\ callbacks' = Tail(callbacks)
  /\ LET i == Head(callbacks) IN
     th' = [th EXCEPT ![w] = [@ EXCEPT !.req = i, !.turn = req[i].turn, !.out = "cancelled",
              !.pc = IF HasHandler /\ ~Ctx(req[i].turn) THEN "approve" ELSE "lock"]]
  /\ UNCHANGED <<failed, turn, cancelled, writes, writer, wire, replied, req, asked, table>>

\* The handler answers, or returns because the turn was cancelled.
Approve(w, out) ==
  /\ th[w].pc = "approve"
  /\ th' = [th EXCEPT ![w] = [@ EXCEPT !.pc = "lock",
              !.out = IF Ctx(th[w].turn) THEN "cancelled" ELSE out]]
  /\ UNCHANGED <<failed, turn, cancelled, writes, writer, wire, replied, req, asked, table, callbacks>>

\* The identity is free again, unless a later request took it over; without a
\* handler the worker cancels the turn.
Finish(w) ==
  /\ th[w].pc = "finish"
  /\ LET i == th[w].req IN
     table' = IF table[req[i].key] = i THEN [table EXCEPT ![req[i].key] = 0] ELSE table
  /\ th' = [th EXCEPT ![w] = IF HasHandler \/ failed THEN Rest
                             ELSE [@ EXCEPT !.pc = "mark", !.todo = {}]]
  /\ UNCHANGED <<failed, turn, cancelled, writes, writer, wire, replied, req, asked, callbacks>>

WorkerRests(w) ==
  /\ w \in Workers /\ th[w].pc = "done"
  /\ th' = [th EXCEPT ![w] = Rest]
  /\ UNCHANGED <<failed, turn, cancelled, writes, writer, wire, replied, req, asked, table, callbacks>>

Next ==
  \/ \E p \in Prompts : StartPrompt(p) \/ Prompted(p) \/ Interrupt(p) \/ EndPrompt(p) \/ AgentReplies(p)
  \/ \E t \in Threads : \/ Cancel(t) \/ Mark(t) \/ Notice(t) \/ Noticed(t) \/ NextAnswer(t)
                        \/ TakeRequest(t) \/ Answered(t)
  \/ Prepare \/ AgentBreaks
  \/ \E ok \in BOOLEAN : Write(ok)
  \/ \E k \in Keys : AgentAsks(k)
  \/ \E w \in Workers : \/ TakeCallback(w) \/ Finish(w) \/ WorkerRests(w)
                        \/ \E out \in {"selected", "cancelled"} : Approve(w, out)

Spec == Init /\ [][Next]_vars

\* Fairness is weak of the first four and strong of Taking: goroutines run,
\* writes return, deadlines expire; the agent may be silent, and a person may
\* take for ever to answer unless the turn is over.
ThreadMoves(t) == Mark(t) \/ Notice(t) \/ Noticed(t) \/ NextAnswer(t) \/ Answered(t)
PromptMoves(p) == ThreadMoves(p) \/ Prompted(p) \/ Interrupt(p) \/ EndPrompt(p)
WorkerMoves(w) == ThreadMoves(w) \/ Finish(w) \/ WorkerRests(w) \/ (Ctx(th[w].turn) /\ Approve(w, "cancelled"))
WriterMoves == Prepare \/ Write(TRUE)
Taking(t) == TakeRequest(t) \/ (t \in Workers /\ TakeCallback(t))

-----------------------------------------------------------------------------

AcpTypeOK ==
  /\ turn # 0 => th[turn].pc \notin {"idle", "done"}
  /\ Len(writes) <= WriteLimit /\ Len(callbacks) <= CallbackLimit
  /\ \A i \in Requests : req[i].holder # None =>
       th[req[i].holder].pc = "answered" /\ th[req[i].holder].req = i
  /\ \A k \in Keys : table[k] # 0 => req[table[k]].key = k

\* On the wire, nothing goes on with a turn after its cancel notice: no
\* consent a person gave for it, whenever they gave it, and no prompt.
NoConsentAfterCancel ==
  \A a, b \in DOMAIN wire :
    (a < b /\ wire[a].kind = "cancel") =>
      /\ wire[b].kind = "answer" /\ req[wire[b].of].turn = wire[a].of => wire[b].out = "cancelled"
      /\ ~(wire[b].kind = "prompt" /\ wire[b].of = wire[a].of)

\* Every frame is on the wire at most once: a request the workers and a
\* cancellation both answer gets one answer, a turn one cancel notice.
WrittenOnce ==
  \A a, b \in DOMAIN wire :
    wire[a].kind = wire[b].kind /\ wire[a].of = wire[b].of => a = b

\* An identity in use names one request: what the agent learns from an answer
\* is about the request it asked last under that identity.
IdentityIsOne ==
  \A i, j \in 1 .. asked : i < j /\ req[i].key = req[j].key => req[i].committed

\* Not for ever: a prompt runs, although the agent ignores its cancellation.
Unreturned(p) == turn = p

\* Not for ever: a request of a turn that is over waits for a consent nobody
\* can give any more.
Unanswered(i) == i <= asked /\ Ctx(req[i].turn) /\ ~OnWire("answer", i) /\ ~failed
=============================================================================
