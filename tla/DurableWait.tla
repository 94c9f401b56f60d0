---------------------------- MODULE DurableWait ----------------------------
(***************************************************************************)
(* Durable waits of the native engine (harness/durable/controller.go,      *)
(* adapters.go, apps/hub/bootstrap/wait.go, apps/hub/product/wait.go).     *)
(*                                                                         *)
(* A tool call that needs an approval, or waits for something external,    *)
(* commits a request to the native journal and ends the run.  The user     *)
(* answers while nothing runs, and a new attempt of the same turn gets the *)
(* answers and may use each approval once.  The journal record has a       *)
(* revision that every commit compares; one lease says who may commit.     *)
(* The turn that waits is a row of another database.                       *)
(***************************************************************************)
EXTENDS Integers, Sequences, FiniteSets

CONSTANTS
    Client,       \* concurrent users of the product service
    Gated,        \* tool calls with one fingerprint that need an approval
    External,     \* a request for an external result
    Call,         \* calls of one batch of tools
    MaxRequest,   \* requests and grants a record holds (16)
    MaxTurn, MaxAsk, MaxFault,   \* bounds: turns, requests, faults
    Extras        \* what happens besides: "expire", "unclean", "pump"

\* The holders of the lease that are not users, and the record's budget.
ASSUME WaitAssumption ==
    /\ Client \cap {"nobody", "engine"} = {} /\ External \notin Gated /\ MaxRequest \in Nat

VARIABLES
    rec,       \* the latest durable snapshot in the native journal
    lease,     \* who has begun a run on the native session
    turn,      \* the latest turn of the session and its attempt
    exec,      \* the engine's execution of that attempt
    client,    \* what each user looks at, and the call it makes
    expired,   \* requests whose time is over
    log,       \* history: every request, its answer, deliveries and uses
    hist       \* history: faults, unfinished work, turns given up

waitVars == <<rec, lease, turn, exec, client, expired, log, hist>>

Nobody == "nobody"
NoCall == [at |-> "none", action |-> External, id |-> 0]
NoRun  == [pc |-> "off", resume |-> 0, outcome |-> "", receipt |-> 0, cancelled |-> FALSE,
           calls |-> [k \in Call |-> NoCall]]
Blank  == [rev |-> 0, status |-> "idle", reqs |-> {}, grants |-> {}]
Away   == [at |-> "idle", kind |-> "", seen |-> Blank, n |-> 0]

WaitInit ==
    /\ rec = Blank /\ lease = Nobody
    /\ turn = [n |-> 0, status |-> "none", attempt |-> "none", receipt |-> 0]
    /\ exec = NoRun /\ client = [c \in Client |-> Away]
    /\ expired = {} /\ log = <<>>
    /\ hist = [faults |-> 0, dirty |-> FALSE, given |-> {}]

Commit(r) == rec' = [r EXCEPT !.rev = rec.rev + 1]
Goto(pc)  == exec' = [exec EXCEPT !.pc = pc]
EndWith(outcome, pc) == exec' = [NoRun EXCEPT !.pc = pc, !.outcome = outcome, !.cancelled = exec.cancelled]

-----------------------------------------------------------------------------
(* The execution of one attempt.                                           *)

\* A message, or a scheduled turn that does not go through the service.
StartTurn ==
    /\ turn.n < MaxTurn /\ exec.pc = "off" /\ turn.status \in {"none", "done"}
    /\ "pump" \in Extras \/ \A c \in Client : client[c].at \in {"idle", "shown"}
    /\ turn' = [n |-> turn.n + 1, status |-> "running", attempt |-> "running", receipt |-> 0]
    /\ exec' = [NoRun EXCEPT !.pc = "open"]
    /\ UNCHANGED <<rec, lease, client, expired, log, hist>>

Answered(r) == \A q \in r.reqs : q.answer # "" /\ q.id \notin expired

\* openHubWaits, and again drive.
Continues(rev) ==
    IF rev = 0 THEN rec.status = "idle" ELSE rec.status = "waiting" /\ rec.rev = rev /\ Answered(rec)

Open ==
    /\ exec.pc = "open"
    /\ \/ lease = Nobody /\ Continues(exec.resume) /\ lease' = "engine" /\ Goto("drive")
       \/ UNCHANGED lease /\ EndWith("failed", "closed")
    /\ UNCHANGED <<rec, turn, client, expired, log, hist>>

Delivered(r) == [r EXCEPT !.status = "running", !.reqs = {},
                          !.grants = @ \cup {q \in r.reqs : q.action # External}]

Told(r) == [i \in DOMAIN log |-> IF \E q \in r.reqs : q.id = i THEN [log[i] EXCEPT !.told = @ + 1] ELSE log[i]]

\* One commit changes the state and delivers the answers.
Drive ==
    /\ exec.pc = "drive"
    /\ IF Continues(exec.resume) /\ Cardinality(Delivered(rec).grants) <= MaxRequest
       THEN Commit(Delivered(rec)) /\ log' = Told(rec) /\ exec' = [exec EXCEPT !.pc = "model", !.resume = 0]
       ELSE EndWith("failed", "out") /\ UNCHANGED <<rec, log>>
    /\ UNCHANGED <<lease, turn, client, expired, hist>>

\* BeforeModel yields while a request is open.
Yield ==
    /\ exec.pc = "model" /\ rec.reqs # {} /\ EndWith("suspended", "stop")
    /\ UNCHANGED <<rec, lease, turn, client, expired, log, hist>>

\* The model answers and is done, or calls tools, at most MaxAsk requests
\* in all.
Finish ==
    /\ exec.pc = "model" /\ rec.reqs = {} /\ EndWith("succeeded", "stop")
    /\ UNCHANGED <<rec, lease, turn, client, expired, log, hist>>

CallTools(f) ==
    /\ exec.pc = "model" /\ rec.reqs = {} /\ Len(log) + Cardinality(Call) <= MaxAsk
    /\ exec' = [exec EXCEPT !.pc = "tools", !.calls = [k \in Call |->
                  IF f[k] = "none" THEN NoCall ELSE [at |-> "ask", action |-> f[k], id |-> 0]]]
    /\ UNCHANGED <<rec, lease, turn, client, expired, log, hist>>

Call_At(k, at)  == exec.pc = "tools" /\ exec.calls[k].at = at
CallTo(k, at)   == exec' = [exec EXCEPT !.calls[k].at = at]
Matching(a)     == {q \in rec.grants : q.action = a}
Oldest(Q)       == CHOOSE q \in Q : \A p \in Q : q.id <= p.id

\* A faulty variant that only looks the grant up.
Remaining_All(q) == rec.grants

Remaining(q) == rec.grants \ {q}

\* consume: the grant is gone before the tool runs.
Consume(k) == LET a == exec.calls[k].action q == Oldest(Matching(a)) IN
    /\ Call_At(k, "ask") /\ a # External
    /\ IF Matching(a) = {} THEN CallTo(k, "miss") /\ UNCHANGED rec
       ELSE IF q.id \in expired THEN CallTo(k, "bad") /\ UNCHANGED rec
       ELSE /\ Commit([rec EXCEPT !.grants = Remaining(q)])
            /\ exec' = [exec EXCEPT !.calls[k] = [@ EXCEPT !.id = q.id, !.at = IF q.answer = "yes" THEN "run" ELSE "over"]]
    /\ UNCHANGED <<lease, turn, client, expired, log, hist>>

\* enqueue: an approval ends the run, an external request is an answer.
Enqueue(k) == LET a == exec.calls[k].action IN
    /\ Call_At(k, IF a = External THEN "ask" ELSE "miss")
    /\ IF Cardinality(rec.reqs) >= MaxRequest THEN CallTo(k, "bad") /\ UNCHANGED <<rec, log>>
       ELSE /\ Commit([rec EXCEPT !.reqs = @ \cup {[id |-> Len(log) + 1, action |-> a, answer |-> ""]}])
            /\ log' = Append(log, [turn |-> turn.n, answer |-> "", told |-> 0, used |-> 0])
            /\ CallTo(k, IF a = External THEN "over" ELSE "stop")
    /\ UNCHANGED <<lease, turn, client, expired, hist>>

RunTool(k) ==
    /\ Call_At(k, "run") /\ CallTo(k, "over")
    /\ log' = [log EXCEPT ![exec.calls[k].id].used = @ + 1]
    /\ UNCHANGED <<rec, lease, turn, client, expired, hist>>

\* The batch is over, or stops at an error of one of its calls.
Settle == LET At(at) == {k \in Call : exec.calls[k].at = at} IN
    /\ exec.pc = "tools"
    /\ \/ At("bad") # {} /\ EndWith("failed", "stop")
       \/ At("bad") = {} /\ At("stop") # {} /\ At("run") = {} /\ EndWith("suspended", "stop")
       \/ At("none") \cup At("over") = Call /\ Goto("model")
    /\ UNCHANGED <<rec, lease, turn, client, expired, log, hist>>

\* The model, a tool or the user ends the run with an error.
Abort ==
    /\ exec.pc \in {"model", "tools"} /\ EndWith("failed", "stop")
    /\ UNCHANGED <<rec, lease, turn, client, expired, log, hist>>

CancelRun ==
    /\ exec.pc \notin {"off", "closed", "recorded"} /\ ~exec.cancelled /\ exec' = [exec EXCEPT !.cancelled = TRUE]
    /\ UNCHANGED <<rec, lease, turn, client, expired, log, hist>>

Suspends == exec.outcome = "suspended" /\ ~exec.cancelled /\ rec.reqs # {}

AfterRun ==
    CASE Suspends -> [rec EXCEPT !.status = "waiting"]
      [] ~Suspends /\ exec.outcome = "succeeded" -> Blank
      [] OTHER -> [rec EXCEPT !.status = "interrupted"]

\* drive ends: it commits what the run came to, or cannot.
DriveEnds(stored) == LET outcome == IF Suspends \/ exec.outcome = "succeeded" THEN exec.outcome ELSE "failed" IN
    /\ exec.pc = "stop"
    /\ IF stored THEN Commit(AfterRun) /\ EndWith(outcome, "out") ELSE UNCHANGED rec /\ EndWith("failed", "out")
    /\ hist' = [hist EXCEPT !.dirty = ~stored \/ outcome = "failed"]
    /\ UNCHANGED <<lease, turn, client, expired, log>>

\* The resources of the attempt are closed, then the lease is returned; if
\* they cannot be closed, the lease is kept until the program ends.
CloseRunner(clean) ==
    /\ exec.pc = "out" /\ lease' = IF clean THEN Nobody ELSE lease
    /\ LET ok == clean /\ ~exec.cancelled IN
       exec' = [exec EXCEPT !.pc = "closed", !.outcome = IF ok THEN @ ELSE "failed",
                            !.receipt = IF ok /\ exec.outcome = "suspended" THEN rec.rev ELSE 0]
    /\ UNCHANGED <<rec, turn, client, expired, log, hist>>

\* Record and FinishRun, two transactions (their failures: HubRuntime).
Record == LET waits == exec.outcome = "suspended" IN
    /\ exec.pc = "closed" /\ Goto("recorded")
    /\ turn' = [turn EXCEPT !.attempt = IF waits THEN "waiting" ELSE "done", !.receipt = exec.receipt]
    /\ UNCHANGED <<rec, lease, client, expired, log, hist>>

FinishRun ==
    /\ exec.pc = "recorded" /\ exec' = NoRun /\ turn' = [turn EXCEPT !.status = turn.attempt]
    /\ UNCHANGED <<rec, lease, client, expired, log, hist>>

-----------------------------------------------------------------------------
(* The product service: one call at a time, on what its user has seen.     *)

\* What is shown while a run executes cannot be acted on: it ends with a
\* commit.
ShowWait(c) ==
    /\ client[c].at = "idle" /\ exec.pc = "off" /\ (rec.status # "idle" \/ turn.status = "waiting")
    /\ client' = [client EXCEPT ![c] = [Away EXCEPT !.at = "shown", !.seen = rec, !.n = turn.n]]
    /\ UNCHANGED <<rec, lease, turn, exec, expired, log, hist>>

\* checkWaitTarget, and every commit.
Fresh(c) == rec.rev = client[c].seen.rev

Serves(c)      == client[c].at = "shown" /\ \A d \in Client : client[d].at \in {"idle", "shown"}
Target(c)      == Fresh(c) /\ turn.n = client[c].n /\ exec.pc = "off"
Leaves(c)      == client' = [client EXCEPT ![c] = Away]
ReturnLease(c) == lease' = IF lease = c THEN Nobody ELSE lease

Pick(c, kind) ==
    /\ Serves(c) /\ Target(c)
    /\ CASE kind = "resolve" -> turn.status = "waiting" /\ rec.status = "waiting"
         [] kind = "abandon" -> turn.status = "waiting" \/ rec.status # "idle"
    /\ client' = [client EXCEPT ![c].at = "picked", ![c].kind = kind]
    /\ UNCHANGED <<rec, lease, turn, exec, expired, log, hist>>

\* A run may have begun in between: then it has the lease, or fails without.
Claim(c) ==
    /\ client[c].at = "picked" /\ lease = Nobody /\ lease' = c
    /\ client' = [client EXCEPT ![c].at = "held"]
    /\ UNCHANGED <<rec, turn, exec, expired, log, hist>>

StepBack(c) ==
    /\ client[c].at \in {"shown", "picked", "held"} /\ Leaves(c) /\ ReturnLease(c)
    /\ UNCHANGED <<rec, turn, exec, expired, log, hist>>

Holds(c, kind) == client[c].at = "held" /\ client[c].kind = kind /\ Fresh(c)

Resolve(c, q, answer) ==
    /\ Holds(c, "resolve") /\ rec.status = "waiting" /\ q.answer = "" /\ q.id \notin expired
    /\ Commit([rec EXCEPT !.reqs = (@ \ {q}) \cup {[q EXCEPT !.answer = answer]}])
    /\ log' = [log EXCEPT ![q.id].answer = answer]
    /\ Leaves(c) /\ ReturnLease(c)
    /\ UNCHANGED <<turn, exec, expired, hist>>

\* Abandon: first the native record, then the row of the turn.
Reset(c) ==
    /\ Holds(c, "abandon") /\ Commit(Blank)
    /\ client' = [client EXCEPT ![c].at = "reset"]
    /\ hist' = [hist EXCEPT !.dirty = FALSE, !.given = @ \cup {turn.n}]
    /\ UNCHANGED <<lease, turn, exec, expired, log>>

AbandonTurn(c) ==
    /\ client[c].at = "reset" /\ Leaves(c) /\ ReturnLease(c)
    /\ turn' = IF turn.n = client[c].n /\ turn.status = "waiting" THEN [turn EXCEPT !.status = "done"] ELSE turn
    /\ UNCHANGED <<rec, exec, expired, log, hist>>

\* The database refuses: the journal is idle, and the turn still waits.
AbandonFails(c) ==
    /\ client[c].at = "reset" /\ Leaves(c) /\ ReturnLease(c)
    /\ hist.faults < MaxFault /\ hist' = [hist EXCEPT !.faults = @ + 1]
    /\ UNCHANGED <<rec, turn, exec, expired, log>>

ResumeWait(c) ==
    /\ Serves(c) /\ Target(c) /\ turn.status = "waiting" /\ Continues(client[c].seen.rev)
    /\ client[c].seen.rev >= turn.receipt
    /\ turn' = [turn EXCEPT !.status = "running", !.attempt = "running"]
    /\ exec' = [NoRun EXCEPT !.pc = "open", !.resume = client[c].seen.rev]
    /\ Leaves(c)
    /\ UNCHANGED <<rec, lease, expired, log, hist>>

-----------------------------------------------------------------------------
Expire(i) ==
    /\ "expire" \in Extras /\ i \in {q.id : q \in rec.reqs \cup rec.grants} \ expired
    /\ expired' = expired \cup {i}
    /\ UNCHANGED <<rec, lease, turn, exec, client, log, hist>>

\* A faulty variant that interrupts every running turn.
RecoveredTurn_Interrupts == IF turn.status = "running" THEN "done" ELSE turn.status

RecoveredTurn ==
    CASE turn.status # "running" -> turn.status
      [] turn.status = "running" /\ turn.attempt = "waiting" -> "waiting"
      [] OTHER -> "done"

Crash ==
    /\ hist.faults < MaxFault
    /\ lease' = Nobody /\ exec' = NoRun /\ client' = [c \in Client |-> Away]
    /\ turn' = [turn EXCEPT !.status = RecoveredTurn]
    /\ hist' = [hist EXCEPT !.faults = @ + 1, !.dirty = @ \/ exec.pc \in {"model", "tools", "stop"}]
    /\ UNCHANGED <<rec, expired, log>>

-----------------------------------------------------------------------------
Engine ==
    \/ Open \/ Drive \/ Yield \/ Finish \/ Settle \/ Abort \/ CancelRun \/ Record \/ FinishRun
    \/ \E f \in [Call -> Gated \cup {External, "none"}] : CallTools(f)
    \/ \E k \in Call : Consume(k) \/ Enqueue(k) \/ RunTool(k)
    \/ \E ok \in BOOLEAN : DriveEnds(ok)
    \/ \E clean \in {TRUE} \cup (IF "unclean" \in Extras THEN {FALSE} ELSE {}) : CloseRunner(clean)

Service(c) ==
    \/ ShowWait(c) \/ Claim(c) \/ StepBack(c) \/ Reset(c) \/ AbandonTurn(c) \/ AbandonFails(c)
    \/ ResumeWait(c)
    \/ \E kind \in {"resolve", "abandon"} : Pick(c, kind)
    \/ \E q \in rec.reqs, answer \in {"yes", "no"} : Resolve(c, q, answer)

WaitNext ==
    \/ StartTurn \/ Engine \/ Crash
    \/ \E c \in Client : Service(c)
    \/ \E i \in DOMAIN log : Expire(i)

WaitSpec == WaitInit /\ [][WaitNext]_waitVars

-----------------------------------------------------------------------------
(* Properties: those with primes are of every step.                       *)

\* Shapes; State.Validate holds of every record that is stored.
WaitTypeOK ==
    /\ rec.rev \in Nat /\ rec.status \in {"idle", "running", "waiting", "interrupted"}
    /\ rec.status = "idle" => rec.reqs \cup rec.grants = {}
    /\ rec.status = "waiting" => rec.reqs # {}
    /\ Cardinality(rec.reqs) <= MaxRequest /\ Cardinality(rec.grants) <= MaxRequest
    /\ turn.status \in {"none", "running", "waiting", "done"} /\ lease \in Client \cup {Nobody, "engine"}

\* A turn that waits has its checkpoint in the journal, no older than its
\* receipt, unless its user has begun to give it up.
WaitingHasCheckpoint == turn.status = "waiting" =>
    rec.rev >= turn.receipt /\ (rec.status = "waiting" \/ turn.n \in hist.given)

\* An attempt that was recorded as waiting stays so through a crash.
SuspensionSurvives == turn.attempt = "waiting" =>
    turn.status \in {"running", "waiting"} \/ turn.n \in hist.given

\* A tool that needs an approval runs once for each "yes", after the answer
\* was delivered, and in the turn that asked.
ApprovalsAreExact == \A i \in DOMAIN log : log'[i].used # log[i].used =>
    /\ log'[i].used = 1 /\ log[i].answer = "yes" /\ log[i].told = 1
    /\ log[i].turn = turn.n

\* The model is told every answer at most once, and no request without one.
DeliveredOnce == \A i \in DOMAIN log : log[i].told <= 1 /\ (log[i].told = 1 => log[i].answer # "")

\* Work that ended in an error or a crash is not continued, and no new work
\* begins, before somebody has given it up.
NothingGoesOnUnseen == exec.pc \in {"model", "tools"} => ~hist.dirty

\* Users answer and give up exactly the state they were shown.
ReviewedOnly == \A c \in Client :
    (client[c].at = "held" /\ rec' # rec /\ client'[c].at # "held") => rec = client[c].seen

\* Each "yes" lets one action run once, in the turn that asked; the model is
\* told every answer once; users answer exactly what they were shown.
AnswersAreExact == [](WaitTypeOK /\ DeliveredOnce) /\ [][ApprovalsAreExact /\ ReviewedOnly]_waitVars

\* A turn that waits keeps its checkpoint through crashes, and work of unknown
\* outcome is not continued before somebody has given it up.
WaitsSurvive == WaitingHasCheckpoint /\ SuspensionSurvives /\ NothingGoesOnUnseen
=============================================================================
