------------------------------ MODULE HubTeam ------------------------------
(***************************************************************************)
(* Teams of workers (apps/hub/sqlite/team.go, apps/hub/team_runtime.go,    *)
(* apps/hub/product/team.go).                                              *)
(*                                                                         *)
(* A task waits in the queue of its worker until a pump of that worker     *)
(* claims it: it becomes the live turn of the worker's session, and it     *)
(* settles in the transaction that ends that turn.  Each task claims       *)
(* files; one whose claims clash with a running task, or with an older     *)
(* task that may run, has to wait.  Pumps belong to the process: they are  *)
(* resumed and stopped by the user and lost in a crash.  The turn itself   *)
(* is HubRuntime's; here it begins, waits and ends.                        *)
(***************************************************************************)
EXTENDS Integers, Sequences, FiniteSets

CONSTANTS
    Team, Worker, TeamOf,   \* TeamOf[w] is the team that w joins
    Branch,                 \* branches of a worker's session
    AnyBranch,              \* what a task that may run on all of them says
    Claims,                 \* sets of claims [path, write] a task may come with
    Place,                  \* Place[w][p] is path p joined to w's workspace
    Within,                 \* <<x, y>>: path x is y or lies inside y
    MaxTeamWorker, MaxLocal, MaxGlobal, MaxPump,   \* 16, 32, 256 and 32
    MaxTask,                \* bound on the tasks ever queued
    Ops                     \* what happens besides adding and running tasks:
                            \* "park", "hide", "edit", "message", "wait",
                            \* "fault", "end", "stop", "leave", "close",
                            \* "crash"

\* Every worker belongs to one team; the budgets are numbers.
ASSUME TeamAssumption ==
    /\ IsFiniteSet(Worker) /\ TeamOf \in [Worker -> Team]
    /\ MaxGlobal \in Nat /\ MaxPump \in Nat

VARIABLES
    team,      \* the status of each team: "none", "active", "ended"
    life,      \* the lifecycle of each worker
    branch,    \* the active branch of each worker's session
    sess,      \* the status of each worker's session: "idle" is any outcome
    live,      \* the task whose turn is the session's live one, or 0
    task,      \* the rows of the queue, by sequence number
    run,       \* the worker's entry in the active table of the runtime
    pump,      \* the entry of each worker in the coordinator
    stopping,  \* workers for which Stop is under way
    closed,    \* TeamCoordinator.Close was called
    owed       \* history: Resume succeeded, and no pump has looked since

store   == <<team, life, branch, sess, live, task>>
process == <<run, pump, stopping, closed, owed>>
vars    == <<store, process>>

NoPump == [at |-> "none", kick |-> FALSE, cancelled |-> FALSE]

Init ==
    /\ team = [t \in Team |-> "none"]
    /\ life = [w \in Worker |-> "none"]
    /\ branch \in [Worker -> Branch]
    /\ sess = [w \in Worker |-> "idle"]
    /\ live = [w \in Worker |-> 0]
    /\ task = <<>>
    /\ run = [w \in Worker |-> "none"]
    /\ pump = [w \in Worker |-> NoPump]
    /\ stopping = {}
    /\ closed = FALSE
    /\ owed = {}

-----------------------------------------------------------------------------
(* Teams, workers and the queue: one transaction each.                     *)

Rows(w)      == {i \in DOMAIN task : task[i].worker = w}
Status(st)   == {i \in DOMAIN task : task[i].status = st}
Queued       == Status("queued")
Member(w)    == life[w] # "none"
BlocksInput(w) == sess[w] # "idle"

CreateTeam(t) ==
    /\ team[t] = "none"
    /\ team' = [team EXCEPT ![t] = "active"]
    /\ UNCHANGED <<life, branch, sess, live, task, process>>

AddWorker(w) ==
    /\ team[TeamOf[w]] = "active" /\ ~Member(w)
    /\ Cardinality({v \in Worker : Member(v) /\ TeamOf[v] = TeamOf[w]}) < MaxTeamWorker
    /\ life' = [life EXCEPT ![w] = "active"]
    /\ UNCHANGED <<team, branch, sess, live, task, process>>

MayEnd(t) == \A w \in Worker : TeamOf[w] = t => ~BlocksInput(w)

\* Queued tasks stay queued.
EndTeam(t) ==
    /\ team[t] = "active" /\ MayEnd(t)
    /\ team' = [team EXCEPT ![t] = "ended"]
    /\ life' = [w \in Worker |-> IF TeamOf[w] = t /\ Member(w) THEN "archived" ELSE life[w]]
    /\ UNCHANGED <<branch, sess, live, task, process>>

SetWorkerLifecycle(w, to) ==
    /\ team[TeamOf[w]] = "active" /\ Member(w) /\ ~BlocksInput(w)
    /\ life' = [life EXCEPT ![w] = to]
    /\ UNCHANGED <<team, branch, sess, live, task, process>>

\* b is AnyBranch, or the branch the draft was saved on.
EnqueueAccepts(w, b) ==
    /\ team[TeamOf[w]] = "active" /\ life[w] \in {"active", "hibernated"}
    /\ b \in {AnyBranch, branch[w]}
    /\ Cardinality(Queued \cap Rows(w)) < MaxLocal
    /\ Cardinality(Queued) < MaxGlobal

Enqueue(w, c, b) ==
    /\ Len(task) < MaxTask
    /\ EnqueueAccepts(w, b)
    /\ task' = Append(task, [worker |-> w, claims |-> c, branch |-> b, status |-> "queued"])
    /\ life' = [life EXCEPT ![w] = "active"]
    /\ UNCHANGED <<team, branch, sess, live, process>>

EditQueuedTask(i, c) ==
    /\ i \in Queued
    /\ task' = [task EXCEPT ![i].claims = c]
    /\ UNCHANGED <<team, life, branch, sess, live, process>>

CancelQueuedTask(i) ==
    /\ i \in Queued
    /\ task' = [task EXCEPT ![i].status = "cancelled"]
    /\ UNCHANGED <<team, life, branch, sess, live, process>>

Switch(w, b) ==
    /\ Member(w) /\ ~BlocksInput(w)
    /\ branch' = [branch EXCEPT ![w] = b]
    /\ UNCHANGED <<team, life, sess, live, task, process>>

-----------------------------------------------------------------------------
(* ClaimWorkerTask, and the end of turns.                                  *)

Overlap(x, y) == <<x, y>> \in Within \/ <<y, x>> \in Within

Clash(i, j) == \E c \in task[i].claims, d \in task[j].claims :
    /\ c.write \/ d.write
    /\ Overlap(Place[task[i].worker][c.path], Place[task[j].worker][d.path])

IsHead(i) == i \in Queued /\ \A j \in Queued \cap Rows(task[i].worker) : i <= j

OnBranch(i) == task[i].branch \in {AnyBranch, branch[task[i].worker]}

Reserves(i) ==
    /\ IsHead(i) /\ OnBranch(i)
    /\ life[task[i].worker] = "active" /\ team[TeamOf[task[i].worker]] = "active"

\* A faulty variant that respects older tasks only.
Rivals_OlderOnly(i) == {j \in DOMAIN task : j < i /\ (task[j].status = "running" \/ Reserves(j))}

Rivals(i) == {j \in DOMAIN task \ {i} : task[j].status = "running" \/ (j < i /\ Reserves(j))}

BlockedBy(i) == {j \in Rivals(i) : Clash(i, j)}

\* The task of a turn, as of the transaction that sets the turn's status.
Settled(i, to) == IF i = 0 \/ to = "waiting" THEN task ELSE [task EXCEPT ![i].status = "ended"]

Ended(w, to) ==
    /\ sess' = [sess EXCEPT ![w] = to]
    /\ live' = [live EXCEPT ![w] = IF to = "waiting" THEN @ ELSE 0]
    /\ task' = Settled(live[w], to)
    /\ UNCHANGED <<team, life, branch>>

\* The engine has returned, and the run gives up its entry afterwards.
FinishTurn(w, to) ==
    /\ run[w] = "executing" /\ sess[w] = "running"
    /\ Ended(w, to)
    /\ run' = [run EXCEPT ![w] = "leaving"]
    /\ UNCHANGED <<pump, stopping, closed, owed>>

\* The transaction fails: the turn stays live until the next restart.
FinishFails(w) ==
    /\ run[w] = "executing"
    /\ run' = [run EXCEPT ![w] = "leaving"]
    /\ UNCHANGED <<store, pump, stopping, closed, owed>>

Leave(w) ==
    /\ run[w] = "leaving"
    /\ run' = [run EXCEPT ![w] = "none"]
    /\ UNCHANGED <<store, pump, stopping, closed, owed>>

AbandonWaitingTurn(w) ==
    /\ sess[w] = "waiting" /\ Ended(w, "idle")
    /\ UNCHANGED process

\* The user talks to the worker's session: Runtime.Start with BeginTurn.
Message(w) ==
    /\ Member(w) /\ run[w] = "none" /\ sess[w] = "idle"
    /\ sess' = [sess EXCEPT ![w] = "running"]
    /\ run' = [run EXCEPT ![w] = "executing"]
    /\ UNCHANGED <<team, life, branch, live, task, pump, stopping, closed, owed>>

ResumeWait(w) ==
    /\ run[w] = "none" /\ sess[w] = "waiting"
    /\ sess' = [sess EXCEPT ![w] = "running"]
    /\ run' = [run EXCEPT ![w] = "executing"]
    /\ UNCHANGED <<team, life, branch, live, task, pump, stopping, closed, owed>>

-----------------------------------------------------------------------------
(* The pump of a worker, and its owner.                                    *)

Pumps     == {w \in Worker : pump[w].at # "none"}
Moved(w, at) == pump' = [pump EXCEPT ![w].at = at]
Exited(w)    == pump' = [pump EXCEPT ![w] = NoPump]

MayPump == Cardinality(Pumps) < MaxPump

\* Resume reads the team, then decides under the coordinator's lock.
Resume(w) ==
    /\ life[w] = "active" /\ team[TeamOf[w]] = "active"
    /\ ~closed /\ w \notin stopping
    /\ \/ pump[w].at # "none" /\ pump' = [pump EXCEPT ![w].kick = TRUE]
       \/ /\ pump[w].at = "none" /\ MayPump
          /\ pump' = [pump EXCEPT ![w] = [NoPump EXCEPT !.at = "looking"]]
    /\ owed' = owed \cup {w}
    /\ UNCHANGED <<store, run, stopping, closed>>

\* The pump's loop: a cancelled owner leaves, otherwise StartWorkerTask
\* enters the active table, or is refused because a run is there.
PumpExits(w) ==
    /\ pump[w].cancelled /\ pump[w].at \in {"looking", "blocked"}
    /\ Exited(w)
    /\ UNCHANGED <<store, run, stopping, closed, owed>>

PumpLooks(w) ==
    /\ pump[w].at = "looking" /\ ~pump[w].cancelled
    /\ IF run[w] = "none"
       THEN /\ run' = [run EXCEPT ![w] = "admitting"]
            /\ Moved(w, "claiming") /\ UNCHANGED owed
       ELSE /\ Moved(w, "failed") /\ owed' = owed \ {w}
            /\ UNCHANGED run
    /\ UNCHANGED <<store, stopping, closed>>

Claimable(w) == {i \in Rows(w) : /\ IsHead(i) /\ ~pump[w].cancelled
                                 /\ life[w] = "active" /\ team[TeamOf[w]] = "active"
                                 /\ ~BlocksInput(w) /\ OnBranch(i)}

\* What ClaimWorkerTask tells the pump of w.
ClaimOf(w) ==
    IF Claimable(w) = {} THEN "failed"
    ELSE IF \E i \in Claimable(w) : BlockedBy(i) # {} THEN "blocked" ELSE "running"

PumpClaims(w) ==
    /\ pump[w].at = "claiming" /\ ClaimOf(w) = "running"
    /\ \E i \in Claimable(w) :
          /\ task' = [task EXCEPT ![i].status = "running"]
          /\ live' = [live EXCEPT ![w] = i]
    /\ sess' = [sess EXCEPT ![w] = "running"]
    /\ run' = [run EXCEPT ![w] = "executing"]
    /\ Moved(w, "running") /\ owed' = owed \ {w}
    /\ UNCHANGED <<team, life, branch, stopping, closed>>

\* The claim was refused, or (a fault) could not be made.
PumpRefused(w, to) ==
    /\ pump[w].at = "claiming"
    /\ run' = [run EXCEPT ![w] = "none"]
    /\ Moved(w, to) /\ owed' = owed \ {w}
    /\ UNCHANGED <<store, stopping, closed>>

PumpPolls(w) ==
    /\ pump[w].at = "blocked" /\ ~pump[w].cancelled
    /\ Moved(w, "looking")
    /\ UNCHANGED <<store, run, stopping, closed, owed>>

\* A faulty variant that forgets a kick which came in between.
KickOrExit_Forgets(w) == NoPump

\* Under the lock, the pump takes a kick or leaves the coordinator.
KickOrExit(w) ==
    IF pump[w].kick THEN [pump[w] EXCEPT !.at = "looking", !.kick = FALSE] ELSE NoPump

PumpGivesUp(w) ==
    /\ pump[w].at = "failed"
    /\ pump' = [pump EXCEPT ![w] = KickOrExit(w)]
    /\ UNCHANGED <<store, run, stopping, closed, owed>>

\* The run has given up its entry: with an error it ends the pump too.
PumpReturns(w) ==
    /\ pump[w].at = "running" /\ run[w] = "none"
    /\ Moved(w, "looking") \/ pump' = [pump EXCEPT ![w] = KickOrExit(w)]
    /\ UNCHANGED <<store, run, stopping, closed, owed>>

Stop(w) ==
    /\ Member(w) /\ w \notin stopping
    /\ stopping' = stopping \cup {w}
    /\ pump' = [pump EXCEPT ![w].cancelled = pump[w].at # "none"]
    /\ owed' = owed \ {w}
    /\ UNCHANGED <<store, run, closed>>

\* Stop returns when the pump has exited or, if its caller leaves, before.
StopReturns(w) ==
    /\ w \in stopping
    /\ pump[w].at = "none" \/ "leave" \in Ops
    /\ stopping' = stopping \ {w}
    /\ UNCHANGED <<store, run, pump, closed, owed>>

Close ==
    /\ ~closed /\ closed' = TRUE
    /\ pump' = [w \in Worker |-> [pump[w] EXCEPT !.cancelled = w \in Pumps]]
    /\ owed' = {}
    /\ UNCHANGED <<store, run, stopping>>

\* Recover settles the tasks of the turns it ends.
Recovered(over) ==
    [i \in DOMAIN task |-> IF task[i].status = "running" /\ task[i].worker \in over
                           THEN [task[i] EXCEPT !.status = "ended"] ELSE task[i]]

\* The process crashes and the store is opened again; the turns of waits had
\* committed that they wait, the other live ones end.
Restart(waits) ==
    LET over == {w \in Worker : sess[w] = "running"} \ waits IN
    /\ \A w \in waits : sess[w] = "running"
    /\ task' = Recovered(over)
    /\ live' = [w \in Worker |-> IF w \in over THEN 0 ELSE live[w]]
    /\ sess' = [w \in Worker |-> CASE w \in over -> "idle" [] w \in waits -> "waiting" [] OTHER -> sess[w]]
    /\ run' = [w \in Worker |-> "none"]
    /\ pump' = [w \in Worker |-> NoPump]
    /\ stopping' = {} /\ closed' = FALSE /\ owed' = {}
    /\ UNCHANGED <<team, life, branch>>

-----------------------------------------------------------------------------
Pumping(w) == \/ PumpExits(w) \/ PumpLooks(w) \/ PumpClaims(w) \/ PumpPolls(w)
              \/ PumpGivesUp(w) \/ PumpReturns(w)
              \/ ClaimOf(w) # "running" /\ PumpRefused(w, ClaimOf(w))

Running(w) == FinishTurn(w, "idle") \/ Leave(w)

Queueing(w) == AddWorker(w) \/ \E c \in Claims : Enqueue(w, c, AnyBranch)

\* What the user does besides, and what goes wrong, as far as Ops allows.
Meddling(w) ==
    \/ "park" \in Ops    /\ \E b \in Branch, c \in Claims : Switch(w, b) \/ Enqueue(w, c, b)
    \/ "hide" \in Ops    /\ \E to \in {"active", "hibernated", "archived"} : SetWorkerLifecycle(w, to)
    \/ "message" \in Ops /\ Message(w)
    \/ "wait" \in Ops    /\ (FinishTurn(w, "waiting") \/ ResumeWait(w) \/ AbandonWaitingTurn(w))
    \/ "fault" \in Ops   /\ (FinishFails(w) \/ PumpRefused(w, "failed"))
    \/ "stop" \in Ops    /\ (Stop(w) \/ StopReturns(w))

Next ==
    \/ \E w \in Worker : Queueing(w) \/ Resume(w) \/ Pumping(w) \/ Running(w) \/ Meddling(w)
    \/ \E t \in Team : CreateTeam(t) \/ ("end" \in Ops /\ EndTeam(t))
    \/ "edit" \in Ops /\ \E i \in DOMAIN task : CancelQueuedTask(i) \/ \E c \in Claims : EditQueuedTask(i, c)
    \/ "close" \in Ops /\ Close
    \/ "crash" \in Ops /\ \E waits \in SUBSET Worker : ("wait" \in Ops \/ waits = {}) /\ Restart(waits)

\* Fairness is of Pumping(w) and Running(w): goroutines of the process run,
\* and turns end.
Spec == Init /\ [][Next]_vars

-----------------------------------------------------------------------------
(* Properties: those with primes are of every step.                       *)

\* Shapes and budgets: the counts that are checked before something is added
\* hold afterwards, whoever else adds (team.go: 16 workers, 32 and 256
\* queued tasks; product/team.go: 32 pumps).
TeamTypeOK ==
    /\ team \in [Team -> {"none", "active", "ended"}]
    /\ life \in [Worker -> {"none", "active", "hibernated", "archived"}]
    /\ sess \in [Worker -> {"idle", "running", "waiting"}]
    /\ run \in [Worker -> {"none", "admitting", "executing", "leaving"}]
    /\ live \in [Worker -> 0..Len(task)]
    /\ \A i \in DOMAIN task : task[i].status \in {"queued", "running", "ended", "cancelled"}
    /\ Cardinality(Queued) <= MaxGlobal /\ Cardinality(Pumps) <= MaxPump

\* No two running tasks have clashing claims, whatever their teams, and
\* even while the turn of one of them waits (ClaimWorkerTask).
RunningApart == \A i, j \in Status("running") : i # j => ~Clash(i, j)

\* A task is running exactly as long as it is the live turn of its worker's
\* session: no outcome is lost, none comes early (settleWorkerTask).
LiveTurnMatches ==
    /\ \A i \in Status("running") : live[task[i].worker] = i
    /\ \A w \in Worker : live[w] # 0 =>
          task[live[w]].worker = w /\ task[live[w]].status = "running" /\ BlocksInput(w)

\* A task that ended or was cancelled keeps its outcome, and one that ran is
\* never queued again: no task is executed twice, whatever crashes.
TaskHistoryIsFinal == \A i \in DOMAIN task :
    /\ task[i].status \in {"ended", "cancelled"} => task'[i] = task[i]
    /\ task[i].status = "running" => task'[i].status \in {"running", "ended"}

\* In a team that ended every worker is archived and no task runs or will.
EndedIsQuiet == \A w \in Worker :
    (team[TeamOf[w]] = "ended" /\ Member(w)) => life[w] = "archived" /\ live[w] = 0

\* The rows of a team agree: no two running tasks clash, a task runs exactly
\* as long as it is the live turn of its worker, none comes back once it ended,
\* and a team that ended is quiet (team.go, one transaction each).
TasksRunApart ==
    /\ [](TeamTypeOK /\ RunningApart /\ LiveTurnMatches /\ EndedIsQuiet)
    /\ [][TaskHistoryIsFinal]_vars

\* A Resume that succeeded is followed by a look at the queue, unless the
\* user stops the worker: the pump that got the kick does not leave without
\* it (product/team.go, "Atomically resolve Resume's kick").
KickIsOwed == \A w \in owed : pump[w].at # "none"

\* Tasks that wait for each other's files are all served, if workers with
\* work are resumed (pump budget, errors) again and again: heads do not
\* block each other in a circle.
Unpumped(w) == w \notin Pumps /\ \E i \in Rows(w) : Reserves(i)
Unserved(i) == i \in DOMAIN task /\ Reserves(i)
=============================================================================
