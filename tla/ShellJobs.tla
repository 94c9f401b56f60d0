----------------------------- MODULE ShellJobs -----------------------------
(***************************************************************************)
(* Shell processes of the native engine (extension/shell), owned by the    *)
(* application and used by one attempt after another of a native session.  *)
(*                                                                         *)
(* An attempt binds the session's owner and reserves it.  A call of its    *)
(* run takes the global lock of all host tools and hands it to the process *)
(* it starts; a background process outlives the call, and the run if that  *)
(* succeeds.  Whoever ends a failed run, resets the owner or closes the    *)
(* application kills what is left and waits for it, but not for ever.      *)
(***************************************************************************)
EXTENDS Integers, Sequences, FiniteSets

CONSTANTS
    Caller,          \* goroutines of tool calls
    MaxPerRun,     \* processes a run may start (8)
    MaxListed,     \* processes an owner keeps (64)
    MaxRun, MaxJob, MaxFault,   \* bounds: attempts, processes, failures
    ShellOps,      \* what happens besides: "late", "stuck", "tool", "reset", "close", "crash"
    NoHolder

\* Budgets and bounds are numbers, and nobody, a call and a cleanup differ.
ShellAssumption ==
    /\ MaxPerRun \in Nat /\ MaxListed \in Nat /\ MaxRun \in Nat
    /\ NoHolder \notin Caller /\ Caller \cap {"attempt", "close", "reset"} = {}

VARIABLES
    own,       \* the Plugin of the session in Sessions.entries
    gate,      \* who holds its gate: a call, a cleanup or NoHolder
    attempt,   \* attempts, by the generation of their lease, also their run
    call,      \* calls: where they are, and their process
    job,       \* processes by identity, with what the journal says of them
    tool,      \* another tool has the global lock
    cleaner,   \* cleanups under way, of an attempt, Close or Reset
    closed,    \* Sessions.Close was called
    faults     \* counts faults

shellVars == <<own, gate, attempt, call, job, tool, cleaner, closed, faults>>

Attempt == 1 .. MaxRun
NoOwner == [on |-> FALSE, closed |-> FALSE, life |-> FALSE, run |-> 0, live |-> FALSE, reserved |-> FALSE,
            gen |-> 0, started |-> 0]
NoCall  == [pc |-> "idle", background |-> FALSE, job |-> 0]
NoClean == [at |-> "off", jobs |-> {}]

ShellInit ==
    /\ own = NoOwner /\ gate = NoHolder /\ tool = FALSE /\ job = <<>> /\ closed = FALSE /\ faults = 0
    /\ attempt = [n \in Attempt |-> "none"]
    /\ call = [c \in Caller |-> NoCall]
    /\ cleaner = [k \in {"attempt", "close", "reset"} |-> NoClean]

Fault == faults < MaxFault /\ faults' = faults + 1

Listed      == {i \in DOMAIN job : job[i].listed}
Busy        == {c \in Caller : call[c].pc # "idle"}
Finished(S) == \A i \in S : job[i].at = "done" /\ job[i].watched

\* completeLocked; and an error that cleanup reports again and again.
CompleteLocked == Finished(Listed) /\ \A i \in Listed : job[i].proc = "reaped"
Spoilt   == \E i \in Listed : job[i].bad

\* checkLocked for the calls of the run, and their context.
Bound     == own.on /\ ~own.closed /\ own.run # 0 /\ own.life /\ own.live
ShellCancelled == ~own.life \/ ~own.live

Killed(S) == [i \in DOMAIN job |-> IF i \in S /\ job[i].proc = "alive" THEN [job[i] EXCEPT !.proc = "closing"]
                                   ELSE job[i]]

-----------------------------------------------------------------------------
\* Attempts: Sessions.Bind.  An owner that is cancelled or whose recipe changed
\* gives way to a new one if it has nothing left; the new one declares unknown
\* what the journal says was begun.
Free  == cleaner["reset"].at = "off" /\ ~closed /\ ~own.reserved /\ own.run = 0
Asks(n) == attempt[n] = "none" /\ (n > 1 => attempt[n - 1] # "none")
Stale(changed) == own.on /\ (changed \/ own.closed \/ ~own.life)

\* A faulty variant that replaces an owner with processes left.
Replaceable_Always == TRUE

Replaceable == CompleteLocked /\ Busy = {} /\ gate = NoHolder

Unfinished   == {i \in DOMAIN job : job[i].facts = {"intent"}}
Recovered(S) == [i \in DOMAIN job |-> [job[i] EXCEPT !.listed = FALSE,
                                        !.facts = IF i \in S THEN @ \cup {"abandoned"} ELSE @]]

Bind(n, changed) ==
    /\ Asks(n) /\ Free /\ (Stale(changed) => Replaceable /\ ~Spoilt)
    /\ LET fresh == ~own.on \/ Stale(changed) IN
       /\ job' = IF fresh THEN Recovered(Unfinished) ELSE job
       /\ own' = IF fresh THEN [NoOwner EXCEPT !.on = TRUE, !.life = TRUE, !.reserved = TRUE, !.gen = n]
                 ELSE [own EXCEPT !.reserved = TRUE, !.gen = n]
    /\ attempt' = [attempt EXCEPT ![n] = "bound"]
    /\ UNCHANGED <<gate, call, tool, cleaner, closed, faults>>

\* Closing the old owner reports an error of one of its processes.
BindSpoilt(n, changed) ==
    /\ Asks(n) /\ Free /\ Stale(changed) /\ Replaceable /\ Spoilt
    /\ own' = [own EXCEPT !.closed = TRUE, !.life = FALSE] /\ attempt' = [attempt EXCEPT ![n] = "over"]
    /\ UNCHANGED <<gate, call, job, tool, cleaner, closed, faults>>

\* The journal fails while it is told what is unknown: no owner is left.
BindFails(n, S) ==
    /\ Asks(n) /\ Free /\ (own.on => Stale(TRUE) /\ Replaceable /\ ~Spoilt)
    /\ S \subseteq Unfinished /\ Unfinished # {}
    /\ job' = Recovered(S) /\ own' = NoOwner /\ attempt' = [attempt EXCEPT ![n] = "over"] /\ Fault
    /\ UNCHANGED <<gate, call, tool, cleaner, closed>>

Mine(n) == own.on /\ own.gen = n /\ own.reserved

OnRunStart(n) ==
    /\ attempt[n] = "bound"
    /\ IF Mine(n) /\ ~own.closed /\ own.life /\ own.run = 0
         THEN /\ attempt' = [attempt EXCEPT ![n] = "running"]
              /\ own' = [own EXCEPT !.run = n, !.live = TRUE, !.started = 0]
         ELSE attempt' = [attempt EXCEPT ![n] = "ended"] /\ UNCHANGED own
    /\ UNCHANGED <<gate, call, job, tool, cleaner, closed, faults>>

CancelRun == /\ own.live /\ own' = [own EXCEPT !.live = FALSE]
             /\ UNCHANGED <<gate, attempt, call, job, tool, cleaner, closed, faults>>

\* The beginning of cleanup: what is listed is killed, to be waited for.
BeginClean(k) == /\ cleaner' = [cleaner EXCEPT ![k] = [at |-> "first", jobs |-> Listed]]
            /\ job' = Killed(Listed)

\* endRun.  The kernel ends a run when its calls have returned; processes stay
\* if it succeeded.
OnRunEnd(n, err) ==
    /\ attempt[n] = "running" /\ Busy = {}
    /\ IF ~err /\ own.live
         THEN /\ own' = [own EXCEPT !.run = 0, !.live = FALSE]
              /\ attempt' = [attempt EXCEPT ![n] = "ended"] /\ UNCHANGED <<job, cleaner>>
         ELSE own' = [own EXCEPT !.life = FALSE] /\ attempt' = [attempt EXCEPT ![n] = "ending"] /\ BeginClean("attempt")
    /\ UNCHANGED <<gate, call, tool, closed, faults>>

\* Lease.Close, which ends the run if it is not over, and once more if that
\* was in vain.
LeaseClose(n) ==
    /\ attempt[n] \in {"bound", "ended", "over"} /\ Mine(n)
    /\ IF own.run # 0
         THEN own' = [own EXCEPT !.life = FALSE] /\ attempt' = [attempt EXCEPT ![n] = "closing"] /\ BeginClean("attempt")
         ELSE /\ own' = [own EXCEPT !.reserved = FALSE] /\ attempt' = [attempt EXCEPT ![n] = "over"]
              /\ UNCHANGED <<job, cleaner>>
    /\ UNCHANGED <<gate, call, tool, closed, faults>>

-----------------------------------------------------------------------------
\* Calls of the run: Execute and launch.
Goes(c, pc) == call' = [call EXCEPT ![c].pc = pc]

\* It returns, with the lock it still has and with the gate.
Leaves(c) == call' = [call EXCEPT ![c] = NoCall] /\ gate' = IF gate = c THEN NoHolder ELSE gate

BeginCall(c) ==
    /\ call[c].pc = "idle" /\ Bound /\ Goes(c, "begun")
    /\ UNCHANGED <<own, gate, attempt, job, tool, cleaner, closed, faults>>

\* The guard asks somebody, or refuses.
Authorized(c, background) ==
    /\ call[c].pc = "begun"
    /\ call' = [call EXCEPT ![c] = [pc |-> "locking", background |-> background, job |-> 0]]
    /\ UNCHANGED <<own, gate, attempt, job, tool, cleaner, closed, faults>>
Refused(c) ==
    /\ call[c].pc = "begun" /\ Leaves(c)
    /\ UNCHANGED <<own, attempt, job, tool, cleaner, closed, faults>>

Locking(c) == call[c].pc \in {"gating", "gated", "intended", "started"}
LockFree   == ~tool /\ (\A c \in Caller : ~Locking(c)) /\ \A i \in DOMAIN job : ~job[i].held

Acquire(c) ==
    /\ call[c].pc = "locking" /\ LockFree /\ ~ShellCancelled /\ Goes(c, "gating")
    /\ UNCHANGED <<own, gate, attempt, job, tool, cleaner, closed, faults>>
TakeGate(c) ==
    /\ call[c].pc = "gating" /\ gate = NoHolder /\ gate' = c /\ Goes(c, "gated")
    /\ UNCHANGED <<own, attempt, job, tool, cleaner, closed, faults>>
CallGivesUp(c) ==
    /\ call[c].pc \in {"locking", "gating"} /\ ShellCancelled /\ Leaves(c)
    /\ UNCHANGED <<own, attempt, job, tool, cleaner, closed, faults>>

NewJob == [proc |-> "none", at |-> "new", listed |-> FALSE, held |-> FALSE, watched |-> FALSE, bad |-> FALSE,
           facts |-> {"intent"}]
Budget == own.started < MaxPerRun /\ Cardinality(Listed) < MaxListed

\* The first check, the budget, and what is written before the start.
Intend(c) ==
    /\ call[c].pc = "gated" /\ Bound /\ Budget /\ Len(job) < MaxJob
    /\ job' = Append(job, NewJob) /\ call' = [call EXCEPT ![c].pc = "intended", ![c].job = Len(job) + 1]
    /\ UNCHANGED <<own, gate, attempt, tool, cleaner, closed, faults>>

\* Not: nothing is written, or a record whose flush failed.
IntendFails(c) ==
    /\ call[c].pc = "gated" /\ Leaves(c)
    /\ \/ (~Bound \/ ~Budget \/ Len(job) = MaxJob) /\ UNCHANGED <<job, faults>>
       \/ Fault /\ UNCHANGED job
       \/ Fault /\ Len(job) < MaxJob /\ job' = Append(job, NewJob)
    /\ UNCHANGED <<own, attempt, tool, cleaner, closed>>

\* The second check and the start; a process is listed a moment later.
StartJob(c) ==
    /\ call[c].pc = "intended" /\ Bound /\ Goes(c, "started")
    /\ job' = [job EXCEPT ![call[c].job].proc = "alive"]
    /\ UNCHANGED <<own, gate, attempt, tool, cleaner, closed, faults>>

StartFails(c, told) ==
    /\ call[c].pc = "intended" /\ Leaves(c)
    /\ \/ ~Bound /\ ~told /\ UNCHANGED <<job, faults>>
       \/ /\ Bound /\ Fault
          /\ job' = IF told THEN [job EXCEPT ![call[c].job].facts = @ \cup {"failed"}] ELSE job
    /\ UNCHANGED <<own, attempt, tool, cleaner, closed>>

\* The process gets the lock; then its input is written, which may fail.
Published(i) == [job EXCEPT ![i].listed = TRUE, ![i].held = TRUE, ![i].at = "running"]
PublishJob(c, fails) ==
    /\ call[c].pc = "started" /\ own' = [own EXCEPT !.started = @ + 1]
    /\ IF fails THEN /\ job' = [Published(call[c].job) EXCEPT ![call[c].job].proc = "closing"]
                     /\ Fault /\ Leaves(c)
       ELSE /\ job' = Published(call[c].job) /\ UNCHANGED faults
            /\ IF call[c].background THEN Leaves(c) ELSE Goes(c, "waiting") /\ UNCHANGED gate
    /\ UNCHANGED <<attempt, tool, cleaner, closed>>

\* A foreground call keeps the gate until its process is done; and the tool
\* kill_shell kills one and waits without the gate.
Kill(c, i) ==
    /\ call[c].pc = "begun" /\ Bound /\ i \in Listed
    /\ job' = Killed({i}) /\ call' = [call EXCEPT ![c].pc = "killing", ![c].job = i]
    /\ UNCHANGED <<own, gate, attempt, tool, cleaner, closed, faults>>
Abort(c) ==
    /\ call[c].pc = "waiting" /\ ShellCancelled /\ Goes(c, "aborting") /\ job' = Killed({call[c].job})
    /\ UNCHANGED <<own, gate, attempt, tool, cleaner, closed, faults>>
Returns(c) ==
    /\ \/ call[c].pc \in {"waiting", "aborting", "killing"} /\ job[call[c].job].at = "done"
       \/ call[c].pc = "killing" /\ ShellCancelled
       \/ call[c].pc = "aborting" /\ "late" \in ShellOps
    /\ Leaves(c)
    /\ UNCHANGED <<own, attempt, job, tool, cleaner, closed, faults>>

-----------------------------------------------------------------------------
\* Processes.  One ends, runs out of time, or its output cannot be kept.
JobEnds(i, bad) ==
    /\ job[i].at = "running" /\ job[i].proc = "alive"
    /\ job' = [job EXCEPT ![i].proc = "closing", ![i].bad = bad]
    /\ IF bad THEN Fault ELSE UNCHANGED faults
    /\ UNCHANGED <<own, gate, attempt, call, tool, cleaner, closed>>

\* It is killed by the operator (Sessions.Stop) or as its owner is cancelled.
JobStopped(i) ==
    /\ job[i].at = "running" /\ job[i].proc = "alive" /\ job' = Killed({i})
    /\ UNCHANGED <<own, gate, attempt, call, tool, cleaner, closed, faults>>

Reap(i, stuck) ==
    /\ job[i].proc = "closing"
    /\ job' = [job EXCEPT ![i].proc = IF stuck THEN "stuck" ELSE "reaped"]
    /\ IF stuck THEN "stuck" \in ShellOps /\ Fault ELSE UNCHANGED faults
    /\ UNCHANGED <<own, gate, attempt, call, tool, cleaner, closed>>

\* A faulty variant that takes the end of the wait for the end of the process.
Lets_Late(i) == TRUE

\* releaseIfClean
Lets(i) == job[i].proc = "reaped"

\* runJob waits 5 seconds for it, and the watcher of the lease as long as it takes.
Judge(i) ==
    /\ job[i].at = "running" /\ (job[i].proc \in {"reaped", "stuck"} \/ (job[i].proc = "closing" /\ "late" \in ShellOps))
    /\ job' = [job EXCEPT ![i].at = "judged", ![i].bad = @ \/ job[i].proc = "stuck", ![i].held = @ /\ ~Lets(i)]
    /\ UNCHANGED <<own, gate, attempt, call, tool, cleaner, closed, faults>>
Watch(i) ==
    /\ job[i].listed /\ job[i].proc \in {"reaped", "stuck"} /\ ~job[i].watched
    /\ job' = [job EXCEPT ![i].watched = TRUE, ![i].held = @ /\ ~Lets(i)]
    /\ UNCHANGED <<own, gate, attempt, call, tool, cleaner, closed, faults>>

Record(i, fails, kept) ==
    /\ job[i].at = "judged" /\ (kept \/ fails)
    /\ job' = [job EXCEPT ![i].at = "done", ![i].bad = @ \/ fails,
                           ![i].facts = IF kept THEN @ \cup {"outcome"} ELSE @]
    /\ IF fails THEN Fault ELSE UNCHANGED faults
    /\ UNCHANGED <<own, gate, attempt, call, tool, cleaner, closed>>

-----------------------------------------------------------------------------
\* Cleanup: what was listed, the calls, the gate, and what was listed since.
Stage(k, at) == cleaner' = [cleaner EXCEPT ![k].at = at]

CleanFirst(k) ==
    /\ cleaner[k].at = "first" /\ Finished(cleaner[k].jobs) /\ Stage(k, "calls")
    /\ UNCHANGED <<own, gate, attempt, call, job, tool, closed, faults>>
CleanCalls(k) ==
    /\ cleaner[k].at = "calls" /\ Busy = {} /\ Stage(k, "gate")
    /\ UNCHANGED <<own, gate, attempt, call, job, tool, closed, faults>>
CleanGate(k) ==
    /\ cleaner[k].at = "gate" /\ gate = NoHolder /\ gate' = k
    /\ cleaner' = [cleaner EXCEPT ![k] = [at |-> "second", jobs |-> Listed]] /\ job' = Killed(Listed)
    /\ UNCHANGED <<own, attempt, call, tool, closed, faults>>

\* The end, of what called it too: endRun and Lease.Close, Reset, Close.
CleanEnds(k) ==
    /\ \/ cleaner[k].at = "second" /\ Finished(cleaner[k].jobs)
       \/ cleaner[k].at \in {"first", "calls", "gate", "second"} /\ "late" \in ShellOps
    /\ gate' = IF gate = k THEN NoHolder ELSE gate
    /\ Stage(k, IF k = "close" /\ cleaner[k].at = "second" /\ CompleteLocked THEN "clean" ELSE "off")
    /\ LET over  == k = "attempt" /\ CompleteLocked
           freed == over /\ attempt[own.gen] = "closing"
           drop  == k = "reset" /\ CompleteLocked /\ Busy = {} /\ gate' = NoHolder
       IN /\ own' = IF drop THEN NoOwner
                    ELSE [own EXCEPT !.run = IF over THEN 0 ELSE @, !.live = @ /\ ~over, !.reserved = @ /\ ~freed]
          /\ job' = IF drop THEN Recovered({}) ELSE job
          /\ attempt' = IF k = "attempt"
                        THEN [attempt EXCEPT ![own.gen] = IF @ = "ending" THEN "ended" ELSE "over"] ELSE attempt
    /\ UNCHANGED <<call, tool, closed, faults>>

Reset ==
    /\ "reset" \in ShellOps /\ cleaner["reset"].at = "off" /\ ~closed /\ own.on /\ ~own.reserved
    /\ own' = [own EXCEPT !.closed = TRUE, !.life = FALSE] /\ BeginClean("reset")
    /\ UNCHANGED <<gate, attempt, call, tool, closed, faults>>

ShellClose ==
    /\ "close" \in ShellOps /\ ~closed /\ cleaner["reset"].at = "off" /\ closed' = TRUE
    /\ IF own.on THEN own' = [own EXCEPT !.closed = TRUE, !.life = FALSE] /\ BeginClean("close")
       ELSE Stage("close", "clean") /\ UNCHANGED <<own, job>>
    /\ UNCHANGED <<gate, attempt, call, tool, faults>>

OtherTool ==
    /\ "tool" \in ShellOps /\ (tool \/ LockFree) /\ tool' = ~tool
    /\ UNCHANGED <<own, gate, attempt, call, job, cleaner, closed, faults>>

\* The application ends; nobody knows what became of its processes.
Crash ==
    /\ "crash" \in ShellOps /\ own.on /\ Fault
    /\ own' = NoOwner /\ gate' = NoHolder /\ tool' = FALSE /\ closed' = FALSE
    /\ attempt' = [n \in Attempt |-> IF attempt[n] = "none" THEN "none" ELSE "over"]
    /\ call' = [c \in Caller |-> NoCall] /\ cleaner' = [k \in DOMAIN cleaner |-> NoClean]
    /\ job' = [i \in DOMAIN job |-> [NewJob EXCEPT !.proc = IF job[i].proc = "none" THEN "none" ELSE "unknown",
                                                   !.facts = job[i].facts]]

-----------------------------------------------------------------------------
Attempts == \/ \E n \in Attempt : \/ OnRunStart(n) \/ LeaseClose(n)
                                  \/ \E b \in BOOLEAN : Bind(n, b) \/ BindSpoilt(n, b) \/ OnRunEnd(n, b)
                                  \/ \E S \in SUBSET Unfinished : BindFails(n, S)
            \/ CancelRun \/ Reset \/ ShellClose \/ OtherTool \/ Crash

\* A guard gives up when the call is cancelled.
CallMoves(c) == (ShellCancelled /\ Refused(c)) \/ Acquire(c) \/ TakeGate(c) \/ CallGivesUp(c) \/ Intend(c) \/ IntendFails(c)
                \/ StartJob(c) \/ StartFails(c, FALSE) \/ PublishJob(c, FALSE) \/ Abort(c) \/ Returns(c)

JobMoves(i) == Reap(i, FALSE) \/ Judge(i) \/ Watch(i) \/ Record(i, FALSE, TRUE)

CleanerMoves(k) == CleanFirst(k) \/ CleanCalls(k) \/ CleanGate(k) \/ CleanEnds(k)

ShellNext ==
    \/ Attempts
    \/ \E c \in Caller : \/ BeginCall(c) \/ Refused(c) \/ CallMoves(c) \/ StartFails(c, TRUE) \/ PublishJob(c, TRUE)
                       \/ \E b \in BOOLEAN : Authorized(c, b)
                       \/ \E i \in Listed : Kill(c, i)
    \/ \E i \in DOMAIN job : \/ JobMoves(i) \/ Reap(i, TRUE) \/ JobStopped(i) \/ \E b \in BOOLEAN : JobEnds(i, b)
                             \/ \E b \in BOOLEAN : Record(i, TRUE, b)
    \/ \E k \in DOMAIN cleaner : CleanerMoves(k)

ShellSpec == ShellInit /\ [][ShellNext]_shellVars

-----------------------------------------------------------------------------
(* Properties.                                                             *)

\* Shapes, and the two budgets.
ShellTypeOK ==
    /\ own.run \in 0 .. MaxRun /\ own.started \in 0 .. MaxPerRun
    /\ gate \in Caller \cup DOMAIN cleaner \cup {NoHolder}
    /\ \A n \in Attempt : attempt[n] \in {"none", "bound", "running", "ending", "ended", "closing", "over"}
    /\ \A i \in DOMAIN job : job[i].proc \in {"none", "alive", "closing", "reaped", "stuck", "unknown"}
    /\ Cardinality(Listed) <= MaxListed

\* The global lock: one call, tool or process at a time; a process keeps it
\* until it is reaped, between turns and after failed cleanup too.
ExclusionLasts ==
    LET processes == {i \in Listed : job[i].held \/ job[i].proc # "reaped"} IN
    /\ Cardinality(processes) + Cardinality({c \in Caller : Locking(c)}) + (IF tool THEN 1 ELSE 0) <= 1
    /\ \A i \in DOMAIN job : job[i].proc \in {"alive", "closing"} => i \in Listed \/ \E c \in Caller : call[c].job = i

\* The journal gives a process one end, declares none unknown that somebody
\* still owns, and none as not started that was.
FactsAreFinal ==
    \A i \in DOMAIN job : /\ Cardinality(job[i].facts \ {"intent"}) <= 1
                          /\ "abandoned" \in job[i].facts => job[i].at \in {"new", "done"} /\ ~job[i].listed
                          /\ "failed" \in job[i].facts => job[i].proc = "none"

\* A run that failed gives up its owner with every process reaped, and runs
\* follow each other.
FailedRunIsReaped ==
    /\ (own.on /\ ~own.closed /\ ~own.life /\ own.run = 0) => CompleteLocked /\ Busy = {}
    /\ \A n \in Attempt : attempt[n] \in {"running", "ending"} => own.on /\ own.run = n /\ own.gen = n

\* After a Close that succeeded nothing runs, starts or writes to the journal.
ClosedIsQuiet == cleaner["close"].at = "clean" => Busy = {} /\ CompleteLocked

\* Bind freezes the recipe of an owner "for the lifetime of live jobs": without
\* any, an attempt can bind it.
FrozenByLiveJobs == (Free /\ Replaceable) => \A changed \in BOOLEAN : ~(Stale(changed) /\ Spoilt)

\* Not for ever: a cleanup goes on.
Unclean(k) == cleaner[k].at \in {"first", "calls", "gate", "second"}
=============================================================================
