---------------------------- MODULE PendingInput ----------------------------
(* Interjections of the user into a running native run: the queue of       *)
(* harness/pending.go, filled through Controller.Steer                     *)
(* (platform/host/pending.go) and emptied at model boundaries.             *)
(*                                                                         *)
(* A boundary marks what is unread, appends it to the session without the  *)
(* lock, and settles the marks: what the session may hold already is never *)
(* retracted and never sent again.                                         *)
EXTENDS Integers, Sequences, SequencesExt, FiniteSets

CONSTANTS
    Message,    \* what users say
    Budget,     \* messages the queue holds (128)
    MaxRun      \* bound on runs of the session

VARIABLES
    host,       \* the controller: its run, and whether it is running
    active,     \* activeRun of the service, 0 without one
    messages,   \* the queue
    status,     \* of every message; "new" before it is said
    boundary,   \* BeforeModel: "none", "append", "settle" or "failed", its batch
    history,    \* the session
    prompt      \* interjections in the request for the model

vars == <<host, active, messages, status, boundary, history, prompt>>

NoBoundary == [pc |-> "none", batch |-> <<>>]

Init ==
    /\ host = [run |-> 0, running |-> FALSE] /\ active = 0
    /\ messages = <<>> /\ status = [m \in Message |-> "new"]
    /\ boundary = NoBoundary /\ history = <<>> /\ prompt = <<>>

With(st)    == SelectSeq(messages, LAMBDA m : status[m] = st)

-----------------------------------------------------------------------------
(* The run.                                                                *)

Start ==
    /\ ~host.running /\ host.run < MaxRun
    /\ host' = [run |-> host.run + 1, running |-> TRUE]
    /\ UNCHANGED <<active, messages, status, boundary, history, prompt>>

OnRunStart ==
    /\ host.running /\ active = 0 /\ active' = host.run
    /\ UNCHANGED <<host, messages, status, boundary, history, prompt>>

OnRunEnd ==
    /\ active # 0 /\ boundary.pc = "none" /\ active' = 0
    /\ UNCHANGED <<host, messages, status, boundary, history, prompt>>

\* The runner has returned.
Finish ==
    /\ host.running /\ active = 0 /\ host' = [host EXCEPT !.running = FALSE]
    /\ UNCHANGED <<active, messages, status, boundary, history, prompt>>

\* The first section of BeforeModel.
Collect ==
    /\ active # 0 /\ boundary.pc = "none" /\ With("unread") # <<>>
    /\ status' = [m \in Message |-> IF status[m] = "unread" THEN "committing" ELSE status[m]]
    /\ boundary' = [pc |-> "append", batch |-> With("unread")]
    /\ UNCHANGED <<host, active, messages, history, prompt>>

\* AppendRecords: it fails before or after the records are durable.
AppendBatch(durable, fails) ==
    /\ boundary.pc = "append" /\ (durable \/ fails)
    /\ history' = IF durable THEN history \o boundary.batch ELSE history
    /\ boundary' = [boundary EXCEPT !.pc = IF fails THEN "failed" ELSE "settle"]
    /\ UNCHANGED <<host, active, messages, status, prompt>>

\* Faulty variants: a failed batch is tried again, or forgotten, or its
\* messages are shown to the model all the same.
Outcome_Retry == IF boundary.pc = "failed" THEN "unread" ELSE "committed"

Outcome == IF boundary.pc = "failed" THEN "commit_unknown" ELSE "committed"

Shown == IF boundary.pc = "failed" THEN <<>> ELSE boundary.batch

\* The second section of BeforeModel; after a failure the run ends.
Settle ==
    /\ boundary.pc \in {"settle", "failed"}
    /\ status' = [m \in Message |-> IF m \in ToSet(boundary.batch) THEN Outcome ELSE status[m]]
    /\ prompt' = prompt \o Shown
    /\ active' = IF boundary.pc = "failed" THEN 0 ELSE active
    /\ boundary' = NoBoundary
    /\ UNCHANGED <<host, messages, history>>

-----------------------------------------------------------------------------
(* Users.                                                                  *)

Enqueue(m) ==
    /\ active # 0
    /\ IF Len(messages) < Budget
       THEN messages' = Append(messages, m) /\ status' = [status EXCEPT ![m] = "unread"]
       ELSE UNCHANGED <<messages, status>>

\* Controller.Steer.
Steer(m) ==
    /\ host.running /\ status[m] = "new" /\ Enqueue(m)
    /\ UNCHANGED <<host, active, boundary, history, prompt>>

Retractable(m) == status[m] = "unread"

Cancel(m) ==
    /\ m \in ToSet(messages) /\ Retractable(m)
    /\ status' = [status EXCEPT ![m] = "retracted"]
    /\ messages' = SelectSeq(messages, LAMBDA k : k # m)
    /\ UNCHANGED <<host, active, boundary, history, prompt>>

-----------------------------------------------------------------------------
Next ==
    \/ Start \/ OnRunStart \/ OnRunEnd \/ Finish \/ Collect \/ Settle
    \/ \E durable, fails \in BOOLEAN : AppendBatch(durable, fails)
    \/ \E m \in Message : Steer(m) \/ Cancel(m)

\* Fairness is of Committing: append and what follows it run to their end.
Committing == Settle \/ \E durable, fails \in BOOLEAN : AppendBatch(durable, fails)

Spec == Init /\ [][Next]_vars

-----------------------------------------------------------------------------
(* Properties.                                                             *)

\* What the service says of a message is true of the session: committed
\* messages are in it, unread and retracted ones are not.
StatusIsTrue == \A m \in Message :
    /\ status[m] = "committed" => m \in ToSet(history)
    /\ status[m] \in {"new", "unread", "retracted"} => m \notin ToSet(history)

\* An interjection is committed at most once, whatever append reported, and
\* in the order of the queue.
CommittedOnce ==
    /\ IsInjective(history)
    /\ \A i, j \in DOMAIN messages : (i < j /\ {messages[i], messages[j]} \subseteq ToSet(history)) =>
          \E k, l \in DOMAIN history : k < l /\ history[k] = messages[i] /\ history[l] = messages[j]

\* The model sees what the session holds and the service calls committed.
PromptIsCommitted == \A m \in ToSet(prompt) : m \in ToSet(history) /\ status[m] = "committed"

\* Not for ever: a message is being committed.
Unsettled(m) == status[m] = "committing"
=============================================================================
