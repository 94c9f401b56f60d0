----------------------------- MODULE AgentLoop -----------------------------
(* The loop of the native engine (sdk/kernel/core): model turns, batches   *)
(* of tool calls in waves, and the session log behind them                 *)
(* (platform/storage/session), with failing and uncertain appends, failing *)
(* hooks and callbacks, cancellation, crashes and recovery.                *)
(*                                                                         *)
(* The log is a set of records; the order that matters is which records    *)
(* were there when another was appended.  Requests are numbered in a run;  *)
(* a call has the identity the model chose, unique in a run.  A response   *)
(* is the sequence of its calls.                                           *)
EXTENDS Integers, Sequences, SequencesExt, FiniteSets

CONSTANTS
    Calls,          \* call identities models use
    Responses,      \* sequences of calls a model may answer with
    Serial,         \* calls that are not concurrency-safe, or global
    Conflicts,      \* pairs of calls with conflicting resource claims
    Limit,          \* tools that run at a time
    RecoverLimit,   \* open tool intents recovery accepts (128)
    MaxIter,        \* model turns of a run
    MaxRun,         \* bound on runs
    MaxFault        \* bound on failing or uncertain appends, and crashes

\* A response with two calls of one identity is refused (responseCalls).
LoopAssumption ==
    /\ Limit \in Nat \ {0} /\ RecoverLimit \in Nat /\ MaxIter \in Nat /\ MaxRun \in Nat
    /\ Responses \subseteq Seq(Calls)
    /\ \A calls \in Responses : \A i, j \in 1 .. Len(calls) : calls[i] = calls[j] => i = j

VARIABLES
    log,        \* durable records of the session
    run,        \* the run, and whether it is cancelled
    loop,       \* where the loop is: turn, calls, wave
    tool,       \* goroutines of the wave
    began,      \* history: calls whose tool was started
    faults      \* counts faults

vars == <<log, run, loop, tool, began, faults>>

Rec(kind, x, info) == [kind |-> kind, id |-> <<run.n, x>>, info |-> info]
Ids(kind)          == {r.id : r \in {q \in log : q.kind = kind}}
OpenModels         == Ids("model_intent") \ Ids("model_outcome")
OpenTools          == Ids("tool_intent") \ Ids("tool_outcome")
Me(c)              == <<run.n, c>>

Idle == [pc |-> "idle", iter |-> 0, calls |-> <<>>, blocked |-> {}, prepared |-> TRUE, cursor |-> 0, wave |-> 0,
         index |-> 0, err |-> FALSE]

Init ==
    /\ log = {} /\ run = [n |-> 0, cancelled |-> FALSE] /\ loop = Idle
    /\ tool = [c \in Calls |-> "none"] /\ began = {} /\ faults = 0

-----------------------------------------------------------------------------
(* AppendRecords.                                                          *)

\* The unique indexes, and the check that an outcome has an intent.
Fits(batch) ==
    /\ \A r \in batch : r.kind \in {"model_intent", "model_outcome", "tool_intent", "tool_outcome"} => r.id \notin Ids(r.kind)
    /\ \A r \in batch : r.kind = "model_outcome" => r.id \in Ids("model_intent")
    /\ \A r \in batch : r.kind = "tool_outcome" =>
          r.id \in Ids("tool_intent") \cup {q.id : q \in {p \in batch : p.kind = "tool_intent"}}

\* An append succeeds, fails, or fails although the batch is durable.
Appended(batch, verdict) ==
    /\ verdict # "ok" => faults < MaxFault
    /\ faults' = IF verdict = "ok" THEN faults ELSE faults + 1
    /\ log' = IF verdict # "failed" /\ Fits(batch) THEN log \cup batch ELSE log

Done(batch, verdict) == verdict = "ok" /\ Fits(batch)

Verdict == {"ok", "failed", "uncertain"}

Settled(c, did) == {Rec("tool_outcome", c, did), Rec("result", c, "")}

Recovered ==
    {[kind |-> "model_outcome", id |-> i, info |-> "cancelled"] : i \in OpenModels}
    \cup {[kind |-> "tool_outcome", id |-> i, info |-> "unknown"] : i \in OpenTools}
    \cup {[kind |-> "result", id |-> i, info |-> ""] : i \in OpenTools}

\* BeginRun claims the session and settles what was interrupted.
BeginRun ==
    /\ loop.pc = "idle" /\ run.n < MaxRun /\ Cardinality(OpenTools) <= RecoverLimit
    /\ log' = log \cup Recovered
    /\ run' = [n |-> run.n + 1, cancelled |-> FALSE]
    /\ loop' = [Idle EXCEPT !.pc = "before"]
    /\ UNCHANGED <<tool, began, faults>>

-----------------------------------------------------------------------------
(* A model turn.                                                           *)

Goto(pc) == loop' = [loop EXCEPT !.pc = pc]

\* Hooks fail, the run is cancelled, or has had its turns.
GiveUp ==
    /\ loop.pc \in {"before", "end"} /\ loop' = IF loop.pc = "end" THEN Idle ELSE [loop EXCEPT !.pc = "end"]
    /\ tool' = [c \in Calls |-> "none"]
    /\ UNCHANGED <<log, run, began, faults>>

ModelIntent(verdict) == LET batch == {Rec("model_intent", loop.iter + 1, "")} IN
    /\ loop.pc = "before" /\ ~run.cancelled /\ loop.iter < MaxIter
    /\ Appended(batch, verdict)
    /\ loop' = [loop EXCEPT !.iter = @ + 1, !.pc = IF Done(batch, verdict) THEN "stream" ELSE "end"]
    /\ UNCHANGED <<run, tool, began>>

\* The stream fails, or the response is complete and its calls are prepared:
\* some are answered without their tool, or preparation fails as a whole.
Stream ==
    /\ loop.pc = "stream"
    /\ \/ Goto("model_failed")
       \/ /\ ~run.cancelled
          /\ \E calls \in Responses, prepared \in BOOLEAN : \E blocked \in SUBSET ToSet(calls) :
                loop' = [loop EXCEPT !.pc = "commit", !.calls = calls, !.blocked = blocked, !.prepared = prepared, !.cursor = 0]
    /\ UNCHANGED <<log, run, tool, began, faults>>

\* The only record of a turn that failed, or whose response was refused.
ModelFailed(verdict) ==
    /\ loop.pc = "model_failed" /\ Appended({Rec("model_outcome", loop.iter, "failed")}, verdict)
    /\ Goto("end")
    /\ UNCHANGED <<run, tool, began>>

\* Message, outcome and intents are one batch; when preparation failed, so
\* are the outcomes of all calls.
Response == {Rec("model_outcome", loop.iter, "succeeded")}
    \cup {Rec("call", c, "") : c \in ToSet(loop.calls)}
    \cup {Rec("tool_intent", c, IF c \in loop.blocked \/ ~loop.prepared THEN "no_effect" ELSE "plain") : c \in ToSet(loop.calls)}
    \cup IF loop.prepared THEN {} ELSE UNION {Settled(c, "not run") : c \in ToSet(loop.calls)}

\* A faulty variant that goes on when the batch was not acknowledged.
AfterCommit_Optimistic(acknowledged) == IF loop.prepared THEN "announce" ELSE "end"

AfterCommit(acknowledged) ==
    IF ~acknowledged THEN "model_failed" ELSE IF loop.prepared THEN "announce" ELSE "end"

Commit(verdict) ==
    /\ loop.pc = "commit"
    /\ IF run.cancelled /\ loop.prepared
       THEN verdict = "failed" /\ UNCHANGED <<log, faults>> /\ Goto(AfterCommit(FALSE))
       ELSE Appended(Response, verdict) /\ Goto(AfterCommit(Done(Response, verdict)))
    /\ UNCHANGED <<run, tool, began>>

\* The message is announced, and the context told; either may fail.
Announce ==
    /\ loop.pc = "announce" /\ (Goto("wave") \/ Goto("unstarted"))
    /\ UNCHANGED <<log, run, tool, began, faults>>

-----------------------------------------------------------------------------
(* ToolBatchCoordinator.                                                   *)

Compatible(c, earlier) == \A d \in earlier : {c, d} \notin Conflicts

\* waveLength, for the calls after the cursor.
WaveLength ==
    LET rest == SubSeq(loop.calls, loop.cursor + 1, Len(loop.calls))
        Joins(n) == \A k \in 2 .. n : /\ rest[1] \notin Serial /\ rest[k] \notin Serial
                                      /\ Compatible(rest[k], {rest[j] : j \in 1 .. k - 1})
    IN CHOOSE n \in 1 .. Len(rest) : /\ n <= Limit /\ Joins(n)
                                     /\ \A m \in n + 1 .. Len(rest) : m > Limit \/ ~Joins(m)

InWave == {loop.calls[loop.cursor + i] : i \in 1 .. loop.wave}

Wave ==
    /\ loop.pc = "wave"
    /\ IF loop.cursor = Len(loop.calls)
       THEN (Goto("end") \/ (loop.calls # <<>> /\ Goto("before"))) /\ UNCHANGED tool
       ELSE \/ Goto("unstarted") /\ UNCHANGED tool
            \/ /\ ~run.cancelled
               /\ loop' = [loop EXCEPT !.pc = "tools", !.wave = WaveLength, !.index = 1, !.err = FALSE]
               /\ tool' = [c \in Calls |-> IF \E i \in 1 .. WaveLength : loop.calls[loop.cursor + i] = c THEN "ready" ELSE "none"]
    /\ UNCHANGED <<log, run, began, faults>>

Answered(c) == c \in loop.blocked

Skipped == "skipped"

StartTool(c) ==
    /\ tool[c] = "ready"
    /\ IF run.cancelled THEN tool' = [tool EXCEPT ![c] = Skipped] /\ UNCHANGED began
       ELSE IF Answered(c) THEN tool' = [tool EXCEPT ![c] = "answered"] /\ UNCHANGED began
       ELSE tool' = [tool EXCEPT ![c] = "running"] /\ began' = began \cup {Me(c)}
    /\ UNCHANGED <<log, run, loop, faults>>

\* The tool returns a result, which may say that it failed, or an error.
ToolReturns(c) ==
    /\ tool[c] = "running" /\ \E end \in {"ran", "broke"} : tool' = [tool EXCEPT ![c] = end]
    /\ UNCHANGED <<log, run, loop, began, faults>>

Did(c) == IF tool[c] = "skipped" THEN "not run" ELSE IF tool[c] = "answered" THEN "answered" ELSE "ran"

\* A faulty variant that forgets that an outcome was not recorded.
WaveFails_Lenient(c, done, observed) == tool[c] \in {"skipped", "broke"} \/ ~observed \/ run.cancelled

WaveFails(c, done, observed) == tool[c] \in {"skipped", "broke"} \/ ~done \/ ~observed \/ run.cancelled

\* When all have returned, outcomes are recorded in the order of the calls,
\* each in a batch of its own; then observers are told.
Settle(verdict, observed) == LET c == loop.calls[loop.cursor + loop.index]
                                 batch == Settled(c, Did(c))
                                 err == loop.err \/ WaveFails(c, Done(batch, verdict), observed) IN
    /\ loop.pc = "tools" /\ \A d \in InWave : tool[d] \notin {"ready", "running"}
    /\ Appended(batch, verdict)
    /\ loop' = IF loop.index < loop.wave THEN [loop EXCEPT !.index = @ + 1, !.err = err]
               ELSE [loop EXCEPT !.cursor = @ + loop.wave, !.pc = IF err THEN "unstarted" ELSE "wave"]
    /\ tool' = IF loop.index < loop.wave THEN tool ELSE [d \in Calls |-> "none"]
    /\ UNCHANGED <<run, began>>

Unstarted == {loop.calls[i] : i \in loop.cursor + 1 .. Len(loop.calls)}

\* finishUnstarted
FinishUnstarted(verdict) ==
    /\ loop.pc = "unstarted" /\ (Unstarted = {} => verdict = "ok")
    /\ Appended(UNION {Settled(c, "not run") : c \in Unstarted}, verdict)
    /\ Goto("end")
    /\ UNCHANGED <<run, tool, began>>

-----------------------------------------------------------------------------
Cancel ==
    /\ loop.pc # "idle" /\ ~run.cancelled /\ run' = [run EXCEPT !.cancelled = TRUE]
    /\ UNCHANGED <<log, loop, tool, began, faults>>

Crash ==
    /\ loop.pc # "idle" /\ faults < MaxFault /\ faults' = faults + 1
    /\ loop' = Idle /\ tool' = [c \in Calls |-> "none"]
    /\ UNCHANGED <<log, run, began>>

Go ==
    \/ GiveUp \/ Stream \/ Announce \/ Wave
    \/ \E verdict \in Verdict : ModelIntent(verdict) \/ ModelFailed(verdict) \/ Commit(verdict) \/ FinishUnstarted(verdict)
    \/ \E verdict \in Verdict, observed \in BOOLEAN : Settle(verdict, observed)
    \/ \E c \in Calls : StartTool(c) \/ ToolReturns(c)

Next == BeginRun \/ Go \/ Cancel \/ Crash

\* Fairness is of Go: a run goes on; models and tools return.
Spec == Init /\ [][Next]_vars

-----------------------------------------------------------------------------
(* Properties.                                                             *)

\* Tools run at the same time only when their claims are compatible, and
\* not more than allowed.
WavesAreSafe == LET running == {c \in Calls : tool[c] = "running"} IN
    /\ Cardinality(running) <= Limit
    /\ \A c, d \in running : c # d => {c, d} \notin Conflicts /\ c \notin Serial

\* What the log says of a call is true: one "not run", or declared to have no
\* effect, did not run, and one that "ran" did.
OutcomesAreTrue == \A r \in log :
    /\ r.kind = "tool_outcome" /\ r.info \in {"not run", "answered"} => r.id \notin began
    /\ r.kind = "tool_outcome" /\ r.info = "ran" => r.id \in began
    /\ r.kind = "tool_intent" /\ r.info = "no_effect" => r.id \notin began

\* The model is asked on a transcript in which every call has its result,
\* whatever happened in this run or an earlier one.
TranscriptIsPaired == loop.pc = "stream" => Ids("call") = Ids("result")

\* A run that is not hit by a fault leaves nothing open.
EndsSettled == (loop.pc = "idle" /\ faults = 0) => OpenModels = {} /\ OpenTools = {}

\* A run leaves at most the calls of one response open.  As long as no model
\* answers with more calls than recovery accepts, which nothing ensures, the
\* session can always start again.
AlwaysRecovers == loop.pc = "idle" =>
    /\ OpenTools = {} \/ \E calls \in Responses : OpenTools \subseteq {Me(c) : c \in ToSet(calls)}
    /\ Cardinality(OpenTools) <= RecoverLimit \/ \E calls \in Responses : Len(calls) > RecoverLimit

\* The transcript and the log can be relied upon, whatever fails, and when a
\* run is over another can begin.
TranscriptHolds == TranscriptIsPaired /\ EndsSettled /\ AlwaysRecovers /\ WavesAreSafe /\ OutcomesAreTrue

\* Not for ever: a run ends by itself within its turns, and when it is cancelled.
Unended == loop.pc # "idle"

\* The loop and the log implement the ledger.
Tagged(tag, S) == {<<tag, i>> : i \in S}

Ledger == INSTANCE IntentLedger WITH
    Intent  <- Tagged("model", (1 .. MaxRun) \X (1 .. MaxIter)) \cup Tagged("tool", (1 .. MaxRun) \X Calls),
    claimed <- loop.pc # "idle",
    open    <- Tagged("model", OpenModels) \cup Tagged("tool", OpenTools),
    settled <- Tagged("model", Ids("model_outcome")) \cup Tagged("tool", Ids("tool_outcome")),
    effects <- Tagged("tool", began)

ImplementsLedger == Ledger!Spec
=============================================================================
