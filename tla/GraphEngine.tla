---------------------------- MODULE GraphEngine ----------------------------
(***************************************************************************)
(* The super-step engine of sdk/agent/graph/engine.go with its checkpoints. *)
(* A drive runs every node of the frontier in its own goroutine, at most   *)
(* MaxParallel at a time, waits for all of them, merges their updates in   *)
(* task order, runs the Sends they returned one level deeper, and saves a  *)
(* checkpoint.  A drive that failed, was cancelled or died with its        *)
(* process is resumed from a checkpoint.  A graph state is the sequence of *)
(* the marks its nodes left.                                               *)
(***************************************************************************)
EXTENDS Naturals, Sequences, FiniteSets, SequencesExt

CONSTANTS
  NodeOrder,      \* the registered nodes, in the order of their names
  Entry, End,
  Result(_, _),   \* what a node returns for a state: an update or Sends
  Targets(_, _),  \* where its edges and routers lead from a state
  HasMerge,       \* whether the graph was compiled with a merge function
  MaxSteps, MaxParallel, MaxSendDepth, MaxTasks, MaxRetries,
  MaxFaults,      \* bound: attempts and saves that fail
  MaxResumes      \* bound: Resume calls

VARIABLES
  phase,    \* "head", "tasks", "saving", or how the drive ended: see Ended
  state, frontier, step, budget,
  level,    \* [base, tasks, depth, next]: the executeTasks call that runs
  task,     \* for each task of the level: "queued", "running", "ok" or "err"
  tries,    \* for each task of the level: failed attempts
  finish,   \* history: the tasks of the level in the order they finished
  cancelled,
  saved,    \* the checkpoint store: step -> [state, frontier]
  ran,      \* history: tasks this drive admitted
  faults, resumes

vars == <<phase, state, frontier, step, budget, level, task, tries, finish,
          cancelled, saved, ran, faults, resumes>>

Nodes == ToSet(NodeOrder)
Ended == {"completed", "failed", "cancelled", "lost"}
NoLevel == [base |-> <<>>, tasks |-> <<>>, depth |-> 0, next |-> {}]

\* The marks each update added to the base, in order.
Combine(base, updates) ==
  base \o FlattenSeq([i \in DOMAIN updates |->
                        SubSeq(updates[i], Len(base) + 1, Len(updates[i]))])

\* uniqueNodes: without End and duplicates, in the order of the names.
Admitted(names) == SelectSeq(NodeOrder, LAMBDA n : n \in names)

Sent(tasks) ==
  FlattenSeq([i \in DOMAIN tasks |->
    LET r == Result(tasks[i].node, tasks[i].state)
    IN IF r.kind = "sends" THEN r.sends ELSE <<>>])

Updates(tasks, order) ==
  LET Updating(i) == Result(tasks[i].node, tasks[i].state).kind = "update"
      who == SelectSeq(order, Updating)
  IN [k \in DOMAIN who |-> Result(tasks[who[k]].node, tasks[who[k]].state).state]

Merged(base, tasks, order) ==
  LET updates == Updates(tasks, order) IN
  IF updates = <<>>           THEN base
  ELSE IF Len(tasks) = 1      THEN updates[1]
  ELSE IF HasMerge            THEN Combine(base, updates)
  ELSE Last(updates)

\* A task that was Sent next to others routes by its own result, any other by
\* the merged state.
Routed(tasks, merged, dynamic) ==
  UNION {LET r == Result(tasks[i].node, tasks[i].state)
         IN IF r.kind # "update" THEN {}
            ELSE Targets(tasks[i].node,
                         IF dynamic /\ Len(tasks) > 1 THEN r.state ELSE merged)
         : i \in DOMAIN tasks}

InOrder(tasks) == [i \in DOMAIN tasks |-> i]

-----------------------------------------------------------------------------
\* Reference: what n super-steps compute when nothing is concurrent or fails.

RECURSIVE Sequential(_, _, _)
Sequential(base, tasks, dynamic) ==
  LET merged == Merged(base, tasks, InOrder(tasks))
      next == Routed(tasks, merged, dynamic)
      sends == Sent(tasks)
  IN IF sends = <<>> THEN [state |-> merged, frontier |-> next]
     ELSE LET nested == Sequential(merged, sends, TRUE)
          IN [state |-> nested.state, frontier |-> next \cup nested.frontier]

\* It is only used of graphs whose Sends nest finitely.
RECURSIVE After(_)
After(n) ==
  IF n = 0 THEN [state |-> <<>>, frontier |-> {Entry}]
  ELSE LET s == After(n - 1)
           names == Admitted(s.frontier)
           r == Sequential(s.state,
                  [i \in DOMAIN names |-> [node |-> names[i], state |-> s.state]], FALSE)
       IN [r EXCEPT !.frontier = r.frontier \ {End}]

-----------------------------------------------------------------------------

Init ==
  /\ phase = "head"
  /\ state = <<>> /\ frontier = {Entry} /\ step = 0 /\ budget = MaxTasks
  /\ level = NoLevel /\ task = <<>> /\ tries = <<>> /\ finish = <<>>
  /\ cancelled = FALSE
  /\ saved = <<>>
  /\ ran = 0 /\ faults = 0 /\ resumes = 0

Leave(how) ==
  /\ phase' = how
  /\ level' = NoLevel /\ task' = <<>> /\ tries' = <<>> /\ finish' = <<>>
  /\ UNCHANGED <<budget, ran>>

\* The start of executeTasks.
Launch(base, tasks, depth, next) ==
  IF depth > MaxSendDepth \/ Len(tasks) > budget \/ ~(\A i \in DOMAIN tasks : tasks[i].node \in Nodes)
  THEN Leave("failed")
  ELSE /\ phase' = "tasks"
       /\ budget' = budget - Len(tasks)
       /\ ran' = ran + Len(tasks)
       /\ level' = [base |-> base, tasks |-> tasks, depth |-> depth, next |-> next]
       /\ task' = [i \in DOMAIN tasks |-> "queued"]
       /\ tries' = [i \in DOMAIN tasks |-> 0]
       /\ finish' = <<>>

\* The head of drive's loop.
Superstep ==
  /\ phase = "head"
  /\ LET names == Admitted(frontier) IN
     IF cancelled             THEN Leave("cancelled") /\ UNCHANGED step
     ELSE IF names = <<>>     THEN Leave("completed") /\ UNCHANGED step
     ELSE IF step >= MaxSteps THEN Leave("failed") /\ UNCHANGED step
     ELSE   /\ step' = step + 1
            /\ Launch(state, [i \in DOMAIN names |-> [node |-> names[i], state |-> state]], 0, {})
  /\ UNCHANGED <<state, frontier, cancelled, saved, faults, resumes>>

Running == {i \in DOMAIN task : task[i] = "running"}

Settle(i, how) ==
  /\ task' = [task EXCEPT ![i] = how]
  /\ finish' = Append(finish, i)

StartNode(i) ==
  /\ phase = "tasks" /\ task[i] = "queued"
  /\ Cardinality(Running) < MaxParallel
  /\ task' = [task EXCEPT ![i] = "running"]
  /\ UNCHANGED <<phase, state, frontier, step, budget, level, tries, finish, cancelled, saved, ran, faults, resumes>>

\* Cancellation reaches a task before its node is called, between attempts, or
\* when the node returns.
StopNode(i) ==
  /\ phase = "tasks" /\ task[i] \in {"queued", "running"}
  /\ cancelled
  /\ Settle(i, "err")
  /\ UNCHANGED <<phase, state, frontier, step, budget, level, tries, cancelled, saved, ran, faults, resumes>>

NodeReturns(i) ==
  /\ phase = "tasks" /\ task[i] = "running"
  /\ ~cancelled
  /\ Settle(i, "ok")
  /\ UNCHANGED <<phase, state, frontier, step, budget, level, tries, cancelled, saved, ran, faults, resumes>>

\* A failed attempt is tried again while the error is retryable.
NodeFails(i, retryable) ==
  /\ phase = "tasks" /\ task[i] = "running"
  /\ faults < MaxFaults
  /\ faults' = faults + 1
  /\ IF retryable /\ tries[i] < MaxRetries
     THEN tries' = [tries EXCEPT ![i] = @ + 1] /\ UNCHANGED <<task, finish>>
     ELSE Settle(i, "err") /\ UNCHANGED tries
  /\ UNCHANGED <<phase, state, frontier, step, budget, level, cancelled, saved, ran, resumes>>

\* After the wait: any failure ends the drive, otherwise the results are
\* merged and routed, and the Sends run on the merged state.
Joined == \A i \in DOMAIN task : task[i] \in {"ok", "err"}

MergeOrder_Finish == SelectSeq(finish, LAMBDA i : task[i] = "ok")
MergeOrder == InOrder(level.tasks)

Collect ==
  /\ phase = "tasks"
  /\ Joined
  /\ LET merged == Merged(level.base, level.tasks, MergeOrder)
         next == level.next \cup Routed(level.tasks, merged, level.depth > 0)
         sends == Sent(level.tasks)
     IN IF cancelled \/ \E i \in DOMAIN task : task[i] = "err"
        THEN Leave(IF cancelled THEN "cancelled" ELSE "failed") /\ UNCHANGED <<state, frontier>>
        ELSE IF sends # <<>>
             THEN Launch(merged, sends, level.depth + 1, next) /\ UNCHANGED <<state, frontier>>
             ELSE Leave("saving") /\ state' = merged /\ frontier' = next \ {End}
  /\ UNCHANGED <<step, cancelled, saved, faults, resumes>>

\* The checkpoint of the step; a failed or cancelled Save may have stored it.
Store == [state |-> state, frontier |-> frontier]

Save(stored, failed) ==
  /\ phase = "saving"
  /\ IF failed THEN faults < MaxFaults /\ faults' = faults + 1
               ELSE stored /\ UNCHANGED faults
  /\ saved' = IF stored THEN [n \in DOMAIN saved \cup {step} |-> IF n = step THEN Store ELSE saved[n]]
                        ELSE saved
  /\ phase' = IF cancelled THEN "cancelled" ELSE IF failed THEN "failed" ELSE "head"
  /\ UNCHANGED <<state, frontier, step, budget, level, task, tries, finish, cancelled, ran, resumes>>

Cancel ==
  /\ phase \notin Ended /\ ~cancelled
  /\ cancelled' = TRUE
  /\ UNCHANGED <<phase, state, frontier, step, budget, level, task, tries, finish, saved, ran, faults, resumes>>

\* The process dies; what the store holds survives.
Crash ==
  /\ phase \notin Ended
  /\ resumes < MaxResumes
  /\ Leave("lost")
  /\ UNCHANGED <<state, frontier, step, cancelled, saved, faults, resumes>>

Resume(n) ==
  /\ phase \in Ended /\ Running = {}
  /\ resumes < MaxResumes
  /\ n \in DOMAIN saved
  /\ resumes' = resumes + 1
  /\ phase' = "head"
  /\ state' = saved[n].state /\ frontier' = saved[n].frontier /\ step' = n
  /\ budget' = MaxTasks /\ ran' = 0
  /\ cancelled' = FALSE
  /\ UNCHANGED <<level, task, tries, finish, saved, faults>>

Next ==
  \/ Superstep \/ Collect \/ Cancel \/ Crash
  \/ \E i \in DOMAIN task : StartNode(i) \/ StopNode(i) \/ NodeReturns(i)
  \/ \E i \in DOMAIN task, retryable \in BOOLEAN : NodeFails(i, retryable)
  \/ \E stored, failed \in BOOLEAN : Save(stored, failed)
  \/ \E n \in DOMAIN saved : Resume(n)

Spec == Init /\ [][Next]_vars

\* Fairness is of these: nodes, merges, routers and saves return; the
\* scheduler runs the goroutines.
DriveMoves == Superstep \/ Collect \/ Save(TRUE, FALSE)
NodeMoves(i) == i \in DOMAIN task /\ (StartNode(i) \/ NodeReturns(i) \/ StopNode(i))

-----------------------------------------------------------------------------

GraphTypeOK ==
  /\ phase \in Ended \cup {"head", "tasks", "saving"}
  /\ frontier \subseteq Nodes /\ step \in 0 .. MaxSteps
  /\ DOMAIN task = DOMAIN level.tasks
  /\ ToSet(finish) = {i \in DOMAIN task : task[i] \in {"ok", "err"}}

\* Whatever order the nodes of a step finish in, and however often the run was
\* interrupted and resumed, the state and the frontier between steps are those
\* of the sequential reference; a step that fails or is cancelled halfway,
\* even below a Send, leaves those of the step before.
StepsAreExact ==
  LET Committed == {n \in 0 .. MaxSteps : state = After(n).state /\ frontier = After(n).frontier}
  IN /\ phase \in {"head", "saving", "completed"} => step \in Committed
     /\ phase \in {"tasks"} => step - 1 \in Committed
     /\ phase \in {"failed", "cancelled", "lost"} => {step - 1, step} \cap Committed # {}

\* A checkpoint carries the state and the frontier of its own step, so that a
\* resumed drive goes on exactly where the saved step ended.
CheckpointsAreExact == \A n \in DOMAIN saved : saved[n] = After(n)

\* The concurrency and task budgets bound a drive, whatever the nodes Send.
WithinBudget ==
  /\ Cardinality(Running) <= MaxParallel
  /\ ran <= MaxTasks

\* A drive that returned left no node running: it joined all of them, also
\* when one failed early.
ReturnsQuiet == phase \in Ended => Running = {}

\* Not for ever: a drive ends, also in a graph that routes or Sends in a cycle.
Unended == phase \notin Ended
=============================================================================
