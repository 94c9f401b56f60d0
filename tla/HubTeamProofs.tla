--------------------------- MODULE HubTeamProofs ---------------------------
(***************************************************************************)
(* Proofs about HubTeam and HubWorktree.                                   *)
(*                                                                         *)
(* HubTeam: the rows of a team agree in every state, the history of a      *)
(* task is final, and a kick that Resume gave is followed by a look at the *)
(* queue.  The invariant has three parts that hardly touch: the queue and  *)
(* the live turns (RowInv), teams and their members (MemberInv), and the   *)
(* pumps of the process (PumpShape).                                       *)
(*                                                                         *)
(* HubWorktree: adoption and removal touch what their user was shown and   *)
(* nothing else.  The invariant says what a worker's row claims about its  *)
(* session and its directory (TreeHolds) and what a call may rely on while *)
(* it is inside (CallHolds).                                               *)
(***************************************************************************)
EXTENDS HubTeam, HubWorktree, FiniteSetTheorems, SequenceTheorems, TLAPS

Row == [worker : Worker, claims : Claims, branch : Branch \cup {AnyBranch},
        status : {"queued", "running", "ended", "cancelled"}]

\* The queue and the turns that its tasks became.
RowShape ==
  /\ task \in Seq(Row)
  /\ live \in [Worker -> 0..Len(task)]
  /\ sess \in [Worker -> {"idle", "running", "waiting"}]
  /\ branch \in [Worker -> Branch]

RowInv == RowShape /\ Cardinality(Queued) <= MaxGlobal /\ RunningApart /\ LiveTurnMatches

MemberInv ==
  /\ team \in [Team -> {"none", "active", "ended"}]
  /\ life \in [Worker -> {"none", "active", "hibernated", "archived"}]
  /\ EndedIsQuiet

Entry == [at : {"none", "looking", "claiming", "blocked", "failed", "running"}, kick : BOOLEAN, cancelled : BOOLEAN]

\* The pumps and their owner.
PumpShape ==
  /\ run \in [Worker -> {"none", "admitting", "executing", "leaving"}]
  /\ pump \in [Worker -> Entry]
  /\ stopping \subseteq Worker /\ closed \in BOOLEAN /\ owed \subseteq Worker
  /\ Cardinality(Pumps) <= MaxPump
  /\ \A w \in Worker : pump[w].at = "none" => ~pump[w].cancelled

IInv == RowInv /\ MemberInv /\ PumpShape

\* Who is cancelled is being stopped, and is owed nothing; a pump that may be
\* about to exit has the kick of whoever is owed a look.
Kicked ==
  /\ \A w \in Worker : pump[w].cancelled => w \notin owed /\ (w \in stopping \/ closed)
  /\ \A w \in owed : /\ pump[w].at # "none"
                     /\ pump[w].at \in {"failed", "running"} => pump[w].kick

-----------------------------------------------------------------------------
(* The queue.                                                              *)

\* A step that rewrites rows one by one keeps their number.
LEMMA Rewritten ==
  ASSUME RowShape, NEW f \in [DOMAIN task -> Row], task' = f
  PROVE  /\ task' \in Seq(Row) /\ Len(task') = Len(task) /\ DOMAIN task' = DOMAIN task
         /\ DOMAIN task = 1..Len(task) /\ Len(task) \in Nat
         /\ \A i \in DOMAIN task : task'[i] = f[i]
  <1>1. Len(task) \in Nat /\ DOMAIN task = 1..Len(task)
    BY DEF RowShape
  <1>2. f \in Seq(Row) /\ Len(f) = Len(task)
    BY <1>1
  <1> QED BY <1>1, <1>2

\* The queue is finite, and shrinks when rows leave it.
LEMMA QueueIsFinite ==
  ASSUME RowShape PROVE IsFiniteSet(Queued) /\ Cardinality(Queued) \in Nat
  <1>1. Len(task) \in Nat /\ DOMAIN task = 1..Len(task)
    BY DEF RowShape
  <1>2. IsFiniteSet(DOMAIN task)
    BY <1>1, FS_Interval
  <1> QED BY <1>2, FS_Subset, FS_CardinalityType DEF Queued, Status

LEMMA QueueShrinks ==
  ASSUME RowShape, Cardinality(Queued) <= MaxGlobal, Queued' \subseteq Queued
  PROVE  Cardinality(Queued') <= MaxGlobal
  <1>1. Cardinality(Queued') <= Cardinality(Queued) /\ Cardinality(Queued') \in Nat
    BY QueueIsFinite, FS_Subset, FS_CardinalityType
  <1> QED BY <1>1, QueueIsFinite, TeamAssumption

\* Whether two rows clash is a matter of their workers and their claims.
LEMMA ClashKept ==
  ASSUME NEW i, NEW j, task'[i].worker = task[i].worker, task'[i].claims = task[i].claims,
         task'[j].worker = task[j].worker, task'[j].claims = task[j].claims
  PROVE  Clash(i, j)' <=> Clash(i, j)
  BY DEF Clash

LEMMA ClashBothWays ==
  ASSUME NEW i, NEW j PROVE Clash(i, j) <=> Clash(j, i)
  BY DEF Clash, Overlap

\* A step after which no row is queued or running that was not before keeps
\* the budget and the peace.
LEMMA NoNewWork ==
  ASSUME RowInv, DOMAIN task' = DOMAIN task,
         \A i \in DOMAIN task :
            /\ task'[i].status = "queued" => task[i].status = "queued"
            /\ task'[i].status = "running" => /\ task[i].status = "running"
                                              /\ task'[i].worker = task[i].worker
                                              /\ task'[i].claims = task[i].claims
  PROVE  Cardinality(Queued') <= MaxGlobal /\ RunningApart'
  <1>1. Queued' \subseteq Queued
    BY DEF Queued, Status
  <1>2. Cardinality(Queued') <= MaxGlobal
    BY <1>1, QueueShrinks DEF RowInv
  <1>3. ASSUME NEW i \in Status("running")', NEW j \in Status("running")', i # j PROVE ~Clash(i, j)'
    <2>1. i \in Status("running") /\ j \in Status("running")
      BY <1>3 DEF Status
    <2>2. ~Clash(i, j)
      BY <1>3, <2>1 DEF RowInv, RunningApart
    <2>3. /\ task'[i].worker = task[i].worker /\ task'[i].claims = task[i].claims
          /\ task'[j].worker = task[j].worker /\ task'[j].claims = task[j].claims
      BY <1>3 DEF Status
    <2> QED BY <2>2, <2>3, ClashKept
  <1> QED BY <1>2, <1>3 DEF RunningApart

\* Steps that leave the queue and the live turns alone.
LEMMA RowsAlone ==
  ASSUME RowInv, UNCHANGED <<sess, live, task>>, branch' \in [Worker -> Branch]
  PROVE  RowInv'
  <1>1. Cardinality(Queued') <= MaxGlobal /\ RunningApart'
    BY NoNewWork
  <1>2. RowShape' /\ LiveTurnMatches'
    BY DEF RowInv, RowShape, LiveTurnMatches, Status, BlocksInput
  <1> QED BY <1>1, <1>2 DEF RowInv

\* A session goes on, with or without a live task.
LEMMA SessionRuns ==
  ASSUME RowInv, NEW w \in Worker, sess' = [sess EXCEPT ![w] = "running"], UNCHANGED <<branch, live, task>>
  PROVE  RowInv'
  <1>1. Cardinality(Queued') <= MaxGlobal /\ RunningApart'
    BY NoNewWork
  <1>2. RowShape'
    BY DEF RowInv, RowShape
  <1>3. \A v \in Worker : BlocksInput(v) => BlocksInput(v)'
    BY DEF RowInv, RowShape, BlocksInput
  <1>4. LiveTurnMatches'
    BY <1>3 DEF RowInv, LiveTurnMatches, Status
  <1> QED BY <1>1, <1>2, <1>4 DEF RowInv

LEMMA EditRow == ASSUME RowInv, NEW i \in DOMAIN task, NEW c \in Claims, EditQueuedTask(i, c) PROVE RowInv'
  <1> DEFINE f == [task EXCEPT ![i].claims = c]
  <1>1. /\ RowShape /\ Len(task) \in Nat /\ DOMAIN task = 1..Len(task)
        /\ \A j \in DOMAIN task : task[j] \in Row
    BY DEF RowInv, RowShape
  <1>2. f \in [DOMAIN task -> Row]
    BY <1>1 DEF Row
  <1>3. task' = f
    BY DEF EditQueuedTask
  <1>4. /\ task' \in Seq(Row) /\ Len(task') = Len(task) /\ DOMAIN task' = DOMAIN task
    BY ONLY <1>1, <1>2, <1>3, Rewritten
  <1>5. \A j \in DOMAIN task : /\ task'[j].worker = task[j].worker /\ task'[j].status = task[j].status
                               /\ task[j].status = "running" => task'[j] = task[j]
    BY <1>1, <1>3 DEF EditQueuedTask, Queued, Status, Row
  <1>6. Cardinality(Queued') <= MaxGlobal /\ RunningApart'
    BY <1>4, <1>5, NoNewWork
  <1>7. RowShape'
    BY <1>1, <1>4 DEF RowShape, EditQueuedTask
  <1>8. LiveTurnMatches'
    BY <1>1, <1>4, <1>5 DEF RowInv, RowShape, LiveTurnMatches, Status, BlocksInput, EditQueuedTask
  <1> QED BY <1>6, <1>7, <1>8 DEF RowInv

LEMMA CancelRow == ASSUME RowInv, NEW i \in DOMAIN task, CancelQueuedTask(i) PROVE RowInv'
  <1> DEFINE f == [task EXCEPT ![i].status = "cancelled"]
  <1>1. /\ RowShape /\ Len(task) \in Nat /\ DOMAIN task = 1..Len(task)
        /\ \A j \in DOMAIN task : task[j] \in Row
    BY DEF RowInv, RowShape
  <1>2. f \in [DOMAIN task -> Row]
    BY <1>1 DEF Row
  <1>3. task' = f
    BY DEF CancelQueuedTask
  <1>4. /\ task' \in Seq(Row) /\ Len(task') = Len(task) /\ DOMAIN task' = DOMAIN task
    BY ONLY <1>1, <1>2, <1>3, Rewritten
  <1>5. \A j \in DOMAIN task : /\ task'[j].worker = task[j].worker /\ task'[j].claims = task[j].claims
                               /\ task'[j].status \in {task[j].status, "cancelled"}
                               /\ task[j].status = "running" => task'[j] = task[j]
    BY <1>1, <1>3 DEF CancelQueuedTask, Queued, Status, Row
  <1>6. Cardinality(Queued') <= MaxGlobal /\ RunningApart'
    BY <1>4, <1>5, NoNewWork
  <1>7. RowShape'
    BY <1>1, <1>4 DEF RowShape, CancelQueuedTask
  <1>8. LiveTurnMatches'
    <2>1. ASSUME NEW j \in Status("running")' PROVE live'[task'[j].worker] = j
      BY <1>4, <1>5, <2>1 DEF RowInv, LiveTurnMatches, Status, CancelQueuedTask
    <2>2. ASSUME NEW w \in Worker, live'[w] # 0
          PROVE  task'[live'[w]].worker = w /\ task'[live'[w]].status = "running" /\ BlocksInput(w)'
      <3>1. live[w] \in DOMAIN task /\ task[live[w]].worker = w /\ task[live[w]].status = "running" /\ BlocksInput(w)
        BY <1>1, <2>2 DEF RowInv, RowShape, LiveTurnMatches, CancelQueuedTask
      <3> QED BY <3>1, <1>5 DEF CancelQueuedTask, BlocksInput
    <2> QED BY <2>1, <2>2 DEF LiveTurnMatches
  <1> QED BY <1>6, <1>7, <1>8 DEF RowInv

LEMMA EnqueueRow ==
  ASSUME RowInv, NEW w \in Worker, NEW c \in Claims, NEW b \in Branch \cup {AnyBranch}, Enqueue(w, c, b)
  PROVE  RowInv'
  <1> DEFINE row == [worker |-> w, claims |-> c, branch |-> b, status |-> "queued"]
             n == Len(task) + 1
  <1>1. RowShape /\ Len(task) \in Nat /\ DOMAIN task = 1..Len(task)
    BY DEF RowInv, RowShape
  <1>2. /\ task' = Append(task, row) /\ UNCHANGED <<branch, sess, live>>
        /\ Cardinality(Queued) < MaxGlobal
    BY DEF Enqueue, EnqueueAccepts
  <1>3. row \in Row
    BY DEF Row
  <1>4. /\ task' \in Seq(Row) /\ Len(task') = n /\ DOMAIN task' = DOMAIN task \cup {n}
        /\ \A i \in DOMAIN task : task'[i] = task[i]
        /\ task'[n] = row /\ n \notin DOMAIN task /\ n \in Nat
    BY <1>1, <1>2, <1>3 DEF RowShape
  <1> HIDE DEF row, n
  <1>5. RowShape'
    <2>1. live' \in [Worker -> 0..Len(task')]
      BY <1>1, <1>2, <1>4 DEF RowShape, n
    <2> QED BY <1>1, <1>2, <1>4, <2>1 DEF RowShape
  <1>6. row.status = "queued"
    BY DEF row
  <1>7. Status("running")' = Status("running")
    BY <1>4, <1>6 DEF Status
  <1>8. Cardinality(Queued') <= MaxGlobal
    <2>1. Queued' = Queued \cup {n} /\ n \notin Queued
      BY <1>4, <1>6 DEF Queued, Status
    <2>2. Cardinality(Queued') = Cardinality(Queued) + 1
      BY <1>1, <2>1, QueueIsFinite, FS_AddElement
    <2> QED BY <1>1, <1>2, <2>2, QueueIsFinite, TeamAssumption
  <1>9. RunningApart'
    <2> SUFFICES ASSUME NEW i \in Status("running"), NEW j \in Status("running"), i # j PROVE ~Clash(i, j)'
      BY <1>7 DEF RunningApart
    <2>1. task'[i] = task[i] /\ task'[j] = task[j]
      BY <1>4 DEF Status
    <2> QED BY <2>1, ClashKept DEF RowInv, RunningApart
  <1>10. LiveTurnMatches'
    <2>1. ASSUME NEW j \in Status("running")' PROVE live'[task'[j].worker] = j
      BY <1>2, <1>4, <1>7, <2>1 DEF RowInv, LiveTurnMatches, Status
    <2>2. ASSUME NEW v \in Worker, live'[v] # 0
          PROVE  task'[live'[v]].worker = v /\ task'[live'[v]].status = "running" /\ BlocksInput(v)'
      <3>1. live[v] \in DOMAIN task /\ task[live[v]].worker = v /\ task[live[v]].status = "running" /\ BlocksInput(v)
        BY <1>1, <1>2, <2>2 DEF RowInv, RowShape, LiveTurnMatches
      <3> QED BY <3>1, <1>2, <1>4 DEF BlocksInput
    <2> QED BY <2>1, <2>2 DEF LiveTurnMatches
  <1> QED BY <1>5, <1>8, <1>9, <1>10 DEF RowInv

\* The end of a turn settles the task that it stands for.
LEMMA EndRow ==
  ASSUME RowInv, NEW w \in Worker, NEW to \in {"idle", "waiting"}, Ended(w, to)
  PROVE  RowInv'
  <1>1. /\ RowShape /\ Len(task) \in Nat /\ DOMAIN task = 1..Len(task)
        /\ \A j \in DOMAIN task : task[j] \in Row
        /\ live[w] \in 0..Len(task)
    BY DEF RowInv, RowShape
  <1>2. CASE to = "waiting"
    <2>1. sess' = [sess EXCEPT ![w] = "waiting"] /\ live' = live /\ task' = task /\ branch' = branch
      BY <1>1, <1>2 DEF Ended, Settled, RowShape
    <2>2. Cardinality(Queued') <= MaxGlobal /\ RunningApart'
      BY <2>1, NoNewWork
    <2>3. RowShape'
      BY <2>1 DEF RowInv, RowShape
    <2>4. LiveTurnMatches'
      BY <2>1 DEF RowInv, RowShape, LiveTurnMatches, Status, BlocksInput
    <2> QED BY <2>2, <2>3, <2>4 DEF RowInv
  <1>3. CASE to = "idle"
    <2>1. PICK f \in [DOMAIN task -> Row] :
            /\ task' = f
            /\ \A j \in DOMAIN task : /\ j = live[w] => f[j] = [task[j] EXCEPT !.status = "ended"]
                                      /\ j # live[w] => f[j] = task[j]
      <3>1. CASE live[w] = 0
        <4>1. task' = task /\ task \in [DOMAIN task -> Row] /\ live[w] \notin DOMAIN task
          BY <3>1, <1>1, <1>3 DEF Ended, Settled, RowShape
        <4> QED BY <4>1
      <3>2. CASE live[w] # 0
        <4> DEFINE f == [task EXCEPT ![live[w]].status = "ended"]
        <4>1. f \in [DOMAIN task -> Row]
          BY <1>1, <3>2 DEF Row
        <4>2. task' = f
          BY <1>3, <3>2 DEF Ended, Settled
        <4> QED BY <4>1, <4>2, <1>1, <3>2
      <3> QED BY <3>1, <3>2
    <2>2. task' \in Seq(Row) /\ Len(task') = Len(task) /\ DOMAIN task' = DOMAIN task
      BY ONLY <1>1, <2>1, Rewritten
    <2>3. \A j \in DOMAIN task : /\ j = live[w] => task'[j].status = "ended"
                                 /\ j # live[w] => task'[j] = task[j]
      BY <1>1, <2>1 DEF Row
    <2>4. Cardinality(Queued') <= MaxGlobal /\ RunningApart'
      BY <2>2, <2>3, NoNewWork
    <2>5. /\ live' = [live EXCEPT ![w] = 0] /\ sess' = [sess EXCEPT ![w] = "idle"] /\ branch' = branch
      BY <1>3 DEF Ended
    <2>6. RowShape'
      BY <1>1, <2>2, <2>5 DEF RowShape
    <2>7. ASSUME NEW j \in Status("running")' PROVE live'[task'[j].worker] = j
      <3>1. j \in DOMAIN task /\ j # live[w] /\ task'[j] = task[j] /\ task[j].status = "running"
        BY <2>2, <2>3, <2>7 DEF Status
      <3>2. live[task[j].worker] = j /\ task[j].worker \in Worker
        BY <1>1, <3>1 DEF RowInv, LiveTurnMatches, Status, Row
      <3> QED BY <3>1, <3>2, <2>5, <1>1 DEF RowShape
    <2>8. ASSUME NEW v \in Worker, live'[v] # 0
          PROVE  task'[live'[v]].worker = v /\ task'[live'[v]].status = "running" /\ BlocksInput(v)'
      <3>1. v # w /\ live'[v] = live[v] /\ sess'[v] = sess[v]
        BY <1>1, <2>5, <2>8 DEF RowShape
      <3>2. live[v] \in DOMAIN task /\ task[live[v]].worker = v /\ task[live[v]].status = "running" /\ BlocksInput(v)
        BY <1>1, <2>8, <3>1 DEF RowInv, RowShape, LiveTurnMatches
      <3>3. live[v] # live[w]
        BY <1>1, <3>1, <3>2 DEF RowInv, LiveTurnMatches, RowShape
      <3> QED BY <3>1, <3>2, <3>3, <2>3 DEF BlocksInput
    <2> QED BY <2>4, <2>6, <2>7, <2>8 DEF RowInv, LiveTurnMatches
  <1> QED BY <1>2, <1>3

\* The claim is made in one transaction: the head of a queue begins to run only
\* if it clashes with nothing that runs.
LEMMA ClaimRow ==
  ASSUME RowInv, NEW w \in Worker, PumpClaims(w)
  PROVE  /\ RowInv' /\ life[w] = "active" /\ team[TeamOf[w]] = "active"
         /\ \A v \in Worker : v # w => live'[v] = live[v]
  <1>1. /\ RowShape /\ Len(task) \in Nat /\ DOMAIN task = 1..Len(task)
        /\ \A j \in DOMAIN task : task[j] \in Row
        /\ live[w] \in 0..Len(task)
    BY DEF RowInv, RowShape
  <1>2. PICK i \in Claimable(w) :
          /\ task' = [task EXCEPT ![i].status = "running"]
          /\ live' = [live EXCEPT ![w] = i]
    BY DEF PumpClaims
  <1>3. sess' = [sess EXCEPT ![w] = "running"] /\ branch' = branch
    BY DEF PumpClaims
  <1>4. /\ i \in DOMAIN task /\ task[i].worker = w /\ task[i].status = "queued"
        /\ ~BlocksInput(w) /\ life[w] = "active" /\ team[TeamOf[w]] = "active"
    BY <1>2 DEF Claimable, IsHead, Rows, Queued, Status
  <1>5. BlockedBy(i) = {}
    BY <1>2 DEF PumpClaims, ClaimOf
  <1>6. \A j \in Status("running") : j # i => ~Clash(i, j)
    BY <1>5 DEF BlockedBy, Rivals, Status
  <1>7. live[w] = 0
    BY <1>4 DEF RowInv, LiveTurnMatches
  <1> DEFINE f == [task EXCEPT ![i].status = "running"]
  <1>8. f \in [DOMAIN task -> Row]
    BY <1>1, <1>4 DEF Row
  <1>9. task' = f
    BY <1>2
  <1>10. task' \in Seq(Row) /\ Len(task') = Len(task) /\ DOMAIN task' = DOMAIN task
    BY ONLY <1>1, <1>8, <1>9, Rewritten
  <1>11. /\ \A j \in DOMAIN task : j # i => task'[j] = task[j]
         /\ task'[i].status = "running" /\ task'[i].worker = w /\ task'[i].claims = task[i].claims
    BY <1>1, <1>4, <1>9 DEF Row
  <1> HIDE DEF f
  <1>12. RowShape'
    BY <1>1, <1>2, <1>3, <1>4, <1>10 DEF RowShape
  <1>13. Cardinality(Queued') <= MaxGlobal
    <2>1. Queued' \subseteq Queued
      BY <1>10, <1>11 DEF Queued, Status
    <2> QED BY <2>1, QueueShrinks DEF RowInv
  <1>14. RunningApart'
    <2> SUFFICES ASSUME NEW j \in Status("running")', NEW k \in Status("running")', j # k PROVE ~Clash(j, k)'
      BY DEF RunningApart
    <2>1. /\ j \in DOMAIN task /\ k \in DOMAIN task
          /\ j # i => j \in Status("running")
          /\ k # i => k \in Status("running")
      BY <1>10, <1>11 DEF Status
    <2>2. ~Clash(j, k)
      <3>1. CASE j = i
        <4>1. k \in Status("running") /\ k # i
          BY <2>1, <3>1
        <4>2. ~Clash(i, k)
          BY <1>6, <4>1
        <4> QED BY <4>2, <3>1
      <3>2. CASE j # i /\ k = i
        <4>1. j \in Status("running") /\ j # i
          BY <2>1, <3>2
        <4>2. ~Clash(i, j)
          BY <1>6, <4>1
        <4> QED BY <4>2, <3>2, ClashBothWays
      <3>3. CASE j # i /\ k # i
        BY <2>1, <3>3 DEF RowInv, RunningApart
      <3> QED BY <3>1, <3>2, <3>3
    <2>3. /\ task'[j].worker = task[j].worker /\ task'[j].claims = task[j].claims
          /\ task'[k].worker = task[k].worker /\ task'[k].claims = task[k].claims
      BY <1>4, <1>11, <2>1
    <2> QED BY <2>2, <2>3, ClashKept
  <1>15. LiveTurnMatches'
    <2>1. ASSUME NEW j \in Status("running")' PROVE live'[task'[j].worker] = j
      <3>1. CASE j = i
        BY <3>1, <1>1, <1>2, <1>11 DEF RowShape
      <3>2. CASE j # i
        <4>1. j \in Status("running") /\ task'[j] = task[j]
          BY <3>2, <2>1, <1>10, <1>11 DEF Status
        <4>2. live[task[j].worker] = j /\ j # 0
          BY <4>1, <1>1 DEF RowInv, LiveTurnMatches, Status
        <4>3. task[j].worker # w
          BY <4>2, <1>7
        <4> QED BY <4>1, <4>2, <4>3, <1>2
      <3> QED BY <3>1, <3>2
    <2>2. ASSUME NEW v \in Worker, live'[v] # 0
          PROVE  task'[live'[v]].worker = v /\ task'[live'[v]].status = "running" /\ BlocksInput(v)'
      <3>1. CASE v = w
        BY <3>1, <1>1, <1>2, <1>3, <1>11 DEF RowShape, BlocksInput
      <3>2. CASE v # w
        <4>1. live'[v] = live[v] /\ sess'[v] = sess[v]
          BY <3>2, <1>1, <1>2, <1>3 DEF RowShape
        <4>2. live[v] \in DOMAIN task /\ task[live[v]].worker = v /\ task[live[v]].status = "running" /\ BlocksInput(v)
          BY <1>1, <2>2, <4>1 DEF RowInv, RowShape, LiveTurnMatches
        <4> QED BY <4>1, <4>2, <3>2, <1>4, <1>11 DEF BlocksInput
      <3> QED BY <3>1, <3>2
    <2> QED BY <2>1, <2>2 DEF LiveTurnMatches
  <1>16. \A v \in Worker : v # w => live'[v] = live[v]
    BY <1>1, <1>2 DEF RowShape
  <1> QED BY <1>4, <1>12, <1>13, <1>14, <1>15, <1>16 DEF RowInv

\* A restart ends the turns that ran, and the tasks with them.
LEMMA RestartRow ==
  ASSUME RowInv, NEW waits \in SUBSET Worker, Restart(waits)
  PROVE  RowInv' /\ \A v \in Worker : live'[v] \in {0, live[v]}
  <1>1. /\ RowShape /\ Len(task) \in Nat /\ DOMAIN task = 1..Len(task)
        /\ \A j \in DOMAIN task : task[j] \in Row
    BY DEF RowInv, RowShape
  <1>2. PICK over : /\ over = {w \in Worker : sess[w] = "running"} \ waits
                    /\ task' = Recovered(over)
                    /\ live' = [w \in Worker |-> IF w \in over THEN 0 ELSE live[w]]
                    /\ sess' = [w \in Worker |-> CASE w \in over -> "idle" [] w \in waits -> "waiting" [] OTHER -> sess[w]]
                    /\ branch' = branch
    BY DEF Restart
  <1>3. Recovered(over) \in [DOMAIN task -> Row]
    BY <1>1 DEF Recovered, Row
  <1>4. task' \in Seq(Row) /\ Len(task') = Len(task) /\ DOMAIN task' = DOMAIN task
    BY ONLY <1>1, <1>2, <1>3, Rewritten
  <1>5. \A j \in DOMAIN task :
          /\ task[j].status = "running" /\ task[j].worker \in over => task'[j].status = "ended"
          /\ ~(task[j].status = "running" /\ task[j].worker \in over) => task'[j] = task[j]
    BY <1>1, <1>2 DEF Recovered, Row
  <1>6. Cardinality(Queued') <= MaxGlobal /\ RunningApart'
    BY <1>4, <1>5, NoNewWork
  <1>7. \A v \in Worker : /\ v \in over => live'[v] = 0 /\ sess'[v] = "idle"
                          /\ v \notin over => /\ live'[v] = live[v]
                                              /\ sess'[v] = sess[v] \/ sess'[v] = "waiting"
    BY <1>2
  <1>8. RowShape'
    <2>1. live' \in [Worker -> 0..Len(task')]
      <3>1. \A v \in Worker : live[v] \in 0..Len(task')
        BY <1>1, <1>4 DEF RowShape
      <3>2. 0 \in 0..Len(task')
        BY <1>1, <1>4
      <3> QED BY <1>2, <3>1, <3>2
    <2>2. sess' \in [Worker -> {"idle", "running", "waiting"}]
      BY <1>1, <1>2 DEF RowShape
    <2> QED BY <1>1, <1>2, <1>4, <2>1, <2>2 DEF RowShape
  <1>9. ASSUME NEW j \in Status("running")' PROVE live'[task'[j].worker] = j
    <2>1. j \in DOMAIN task /\ task[j].status = "running" /\ task[j].worker \notin over /\ task'[j] = task[j]
      BY <1>4, <1>5, <1>9 DEF Status
    <2>2. live[task[j].worker] = j /\ task[j].worker \in Worker
      BY <1>1, <2>1 DEF RowInv, LiveTurnMatches, Status, Row
    <2> QED BY <1>7, <2>1, <2>2
  <1>10. ASSUME NEW v \in Worker, live'[v] # 0
         PROVE  task'[live'[v]].worker = v /\ task'[live'[v]].status = "running" /\ BlocksInput(v)'
    <2>1. v \notin over /\ live'[v] = live[v]
      BY <1>7, <1>10
    <2>2. live[v] \in DOMAIN task /\ task[live[v]].worker = v /\ task[live[v]].status = "running" /\ BlocksInput(v)
      BY <1>1, <1>10, <2>1 DEF RowInv, RowShape, LiveTurnMatches
    <2> QED BY <1>5, <1>7, <2>1, <2>2 DEF BlocksInput
  <1> QED BY <1>6, <1>7, <1>8, <1>9, <1>10 DEF RowInv, LiveTurnMatches

-----------------------------------------------------------------------------
(* Teams and their members.                                                *)

\* Steps that leave teams and lifecycles alone and begin no task.
LEMMA MembersAlone ==
  ASSUME MemberInv, UNCHANGED <<team, life>>, \A v \in Worker : live'[v] \in {0, live[v]}
  PROVE  MemberInv'
  BY DEF MemberInv, EndedIsQuiet, Member

LEMMA CreateMembers == ASSUME MemberInv, NEW t \in Team, CreateTeam(t) PROVE MemberInv'
  <1>1. /\ team' = [team EXCEPT ![t] = "active"] /\ UNCHANGED <<life, live>>
    BY DEF CreateTeam
  <1>2. team' \in [Team -> {"none", "active", "ended"}]
    BY <1>1 DEF MemberInv
  <1>3. \A s \in Team : team'[s] = "ended" => team[s] = "ended"
    BY <1>1 DEF MemberInv
  <1>4. \A w \in Worker : TeamOf[w] \in Team
    BY TeamAssumption
  <1> QED BY <1>1, <1>2, <1>3, <1>4 DEF MemberInv, EndedIsQuiet, Member

\* A worker of an active team may come, go and come back.
LEMMA ActiveMembers ==
  ASSUME MemberInv, NEW w \in Worker, NEW to \in {"active", "hibernated", "archived"},
         team[TeamOf[w]] = "active", life' = [life EXCEPT ![w] = to], UNCHANGED <<team, live>>
  PROVE  MemberInv'
  <1>1. \A v \in Worker : v # w => life'[v] = life[v]
    BY DEF MemberInv
  <1>2. life' \in [Worker -> {"none", "active", "hibernated", "archived"}]
    BY DEF MemberInv
  <1> QED BY <1>1, <1>2 DEF MemberInv, EndedIsQuiet, Member

LEMMA EndMembers == ASSUME RowInv, MemberInv, NEW t \in Team, EndTeam(t) PROVE MemberInv'
  <1>1. /\ team' = [team EXCEPT ![t] = "ended"]
        /\ life' = [w \in Worker |-> IF TeamOf[w] = t /\ Member(w) THEN "archived" ELSE life[w]]
        /\ live' = live /\ MayEnd(t)
    BY DEF EndTeam
  <1>2. \A w \in Worker : TeamOf[w] = t => live[w] = 0
    BY <1>1 DEF MayEnd, RowInv, LiveTurnMatches
  <1>3. \A w \in Worker : TeamOf[w] \in Team
    BY TeamAssumption
  <1>4. /\ team' \in [Team -> {"none", "active", "ended"}]
        /\ life' \in [Worker -> {"none", "active", "hibernated", "archived"}]
    BY <1>1 DEF MemberInv
  <1>5. ASSUME NEW w \in Worker, team'[TeamOf[w]] = "ended", Member(w)'
        PROVE  life'[w] = "archived" /\ live'[w] = 0
    <2>1. CASE TeamOf[w] = t
      <3>1. Member(w)
        BY <1>1, <1>5 DEF Member
      <3> QED BY <2>1, <3>1, <1>1, <1>2
    <2>2. CASE TeamOf[w] # t
      <3>1. team[TeamOf[w]] = "ended" /\ life'[w] = life[w]
        BY <2>2, <1>1, <1>3, <1>5 DEF MemberInv
      <3> QED BY <3>1, <1>1, <1>5 DEF MemberInv, EndedIsQuiet, Member
    <2> QED BY <2>1, <2>2
  <1> QED BY <1>4, <1>5 DEF MemberInv, EndedIsQuiet

LEMMA ClaimMembers == ASSUME RowInv, MemberInv, NEW w \in Worker, PumpClaims(w) PROVE MemberInv'
  <1>1. /\ team[TeamOf[w]] = "active" /\ UNCHANGED <<team, life>>
        /\ \A v \in Worker : v # w => live'[v] = live[v]
    BY ClaimRow DEF PumpClaims
  <1> QED BY <1>1 DEF MemberInv, EndedIsQuiet, Member

-----------------------------------------------------------------------------
(* The pumps.                                                              *)

LEMMA PumpsAreFinite ==
  ASSUME NEW S \in SUBSET Worker PROVE IsFiniteSet(S) /\ Cardinality(S) \in Nat
  BY TeamAssumption, FS_Subset, FS_CardinalityType

\* What a pump does to its entry never makes it a pump more.
LEMMA PumpSet ==
  ASSUME PumpShape, NEW w \in Worker, NEW e \in Entry, pump' = [pump EXCEPT ![w] = e],
         e.at # "none" => pump[w].at # "none", e.at = "none" => ~e.cancelled,
         run' \in [Worker -> {"none", "admitting", "executing", "leaving"}],
         stopping' \subseteq Worker, closed' \in BOOLEAN, owed' \subseteq Worker
  PROVE  PumpShape'
  <1>1. \A v \in Worker : v # w => pump'[v] = pump[v]
    BY DEF PumpShape
  <1>2. pump'[w] = e /\ pump' \in [Worker -> Entry]
    BY DEF PumpShape
  <1>3. Pumps' \subseteq Pumps /\ Pumps \subseteq Worker
    BY <1>1, <1>2 DEF Pumps
  <1>4. Cardinality(Pumps') <= MaxPump
    <2>1. /\ Cardinality(Pumps') <= Cardinality(Pumps)
          /\ Cardinality(Pumps) \in Nat /\ Cardinality(Pumps') \in Nat
      BY <1>3, PumpsAreFinite, FS_Subset
    <2> QED BY <2>1, TeamAssumption DEF PumpShape
  <1> QED BY <1>1, <1>2, <1>4 DEF PumpShape

\* What a pump does to its entry keeps what it owes.
LEMMA KickSet ==
  ASSUME PumpShape, Kicked, NEW w \in Worker, NEW e \in Entry, pump' = [pump EXCEPT ![w] = e],
         UNCHANGED <<stopping, closed>>, owed' \in {owed, owed \ {w}},
         e.cancelled => pump[w].cancelled,
         w \in owed' => e.at # "none" /\ (e.at \in {"failed", "running"} => e.kick)
  PROVE  Kicked'
  <1>1. \A v \in Worker : v # w => pump'[v] = pump[v]
    BY DEF PumpShape
  <1>2. pump'[w] = e
    BY DEF PumpShape
  <1>3. owed' \subseteq owed /\ owed \subseteq Worker
    BY DEF PumpShape
  <1>4. ASSUME NEW v \in Worker, pump'[v].cancelled PROVE v \notin owed' /\ (v \in stopping' \/ closed')
    <2>1. pump[v].cancelled
      BY <1>1, <1>2, <1>4
    <2> QED BY <2>1, <1>3 DEF Kicked
  <1>5. ASSUME NEW v \in owed' PROVE pump'[v].at # "none" /\ (pump'[v].at \in {"failed", "running"} => pump'[v].kick)
    <2>1. CASE v = w
      BY <2>1, <1>2, <1>5
    <2>2. CASE v # w
      BY <2>2, <1>1, <1>3, <1>5 DEF Kicked
    <2> QED BY <2>1, <2>2
  <1> QED BY <1>4, <1>5 DEF Kicked

\* A step of the pump of w after which its entry is e.
Moves(w, e) ==
  /\ e \in Entry /\ pump[w].at # "none" /\ pump' = [pump EXCEPT ![w] = e]
  /\ run' \in [Worker -> {"none", "admitting", "executing", "leaving"}]
  /\ UNCHANGED <<stopping, closed>> /\ owed' \in {owed, owed \ {w}}
  /\ e.at = "none" => ~e.cancelled
  /\ e.cancelled => pump[w].cancelled
  /\ Kicked /\ w \in owed' => e.at # "none" /\ (e.at \in {"failed", "running"} => e.kick)

LEMMA MovesKeep ==
  ASSUME PumpShape, NEW w \in Worker, NEW e \in Entry, Moves(w, e)
  PROVE  PumpShape' /\ (Kicked => Kicked')
  <1>1. stopping' \subseteq Worker /\ closed' \in BOOLEAN /\ owed' \subseteq Worker
    BY DEF Moves, PumpShape
  <1>2. PumpShape'
    BY <1>1, PumpSet DEF Moves
  <1>3. ASSUME Kicked PROVE Kicked'
    BY <1>3, KickSet DEF Moves
  <1> QED BY <1>2, <1>3

LEMMA EntryFields ==
  ASSUME PumpShape, NEW w \in Worker, NEW at \in {"none", "looking", "claiming", "blocked", "failed", "running"}
  PROVE  LET e == [pump[w] EXCEPT !.at = at] IN
         /\ e \in Entry /\ e.at = at /\ e.kick = pump[w].kick /\ e.cancelled = pump[w].cancelled
         /\ [pump EXCEPT ![w].at = at] = [pump EXCEPT ![w] = e]
  BY DEF PumpShape, Entry

LEMMA ExitsMove == ASSUME PumpShape, NEW w \in Worker, PumpExits(w) PROVE Moves(w, NoPump)
  <1>1. NoPump \in Entry /\ NoPump.at = "none" /\ ~NoPump.cancelled
    BY DEF NoPump, Entry
  <1>2. Kicked => w \notin owed
    BY DEF Kicked, PumpExits
  <1> QED BY <1>1, <1>2 DEF Moves, PumpExits, Exited, PumpShape

LEMMA LooksMove == ASSUME PumpShape, NEW w \in Worker, PumpLooks(w) PROVE \E e \in Entry : Moves(w, e)
  <1>1. CASE run[w] = "none"
    <2>1. PICK e \in Entry : /\ e.at = "claiming" /\ e.cancelled = pump[w].cancelled
                             /\ pump' = [pump EXCEPT ![w] = e]
      BY <1>1, EntryFields DEF PumpLooks, Moved
    <2>2. run' \in [Worker -> {"none", "admitting", "executing", "leaving"}]
      BY <1>1 DEF PumpLooks, PumpShape
    <2>3. UNCHANGED <<stopping, closed, owed>> /\ pump[w].at = "looking"
      BY <1>1 DEF PumpLooks
    <2> QED BY <2>1, <2>2, <2>3 DEF Moves
  <1>2. CASE run[w] # "none"
    <2>1. PICK e \in Entry : /\ e.at = "failed" /\ e.cancelled = pump[w].cancelled
                             /\ pump' = [pump EXCEPT ![w] = e]
      BY <1>2, EntryFields DEF PumpLooks, Moved
    <2>2. UNCHANGED <<run, stopping, closed>> /\ owed' = owed \ {w} /\ pump[w].at = "looking"
      BY <1>2 DEF PumpLooks
    <2> QED BY <2>1, <2>2 DEF Moves, PumpShape
  <1> QED BY <1>1, <1>2

LEMMA ClaimsMove == ASSUME PumpShape, NEW w \in Worker, PumpClaims(w) PROVE \E e \in Entry : Moves(w, e)
  <1>1. PICK e \in Entry : /\ e.at = "running" /\ e.cancelled = pump[w].cancelled
                           /\ pump' = [pump EXCEPT ![w] = e]
    BY EntryFields DEF PumpClaims, Moved
  <1>2. run' \in [Worker -> {"none", "admitting", "executing", "leaving"}]
    BY DEF PumpClaims, PumpShape
  <1>3. UNCHANGED <<stopping, closed>> /\ owed' = owed \ {w} /\ pump[w].at = "claiming"
    BY DEF PumpClaims
  <1> QED BY <1>1, <1>2, <1>3 DEF Moves

LEMMA RefusedMove ==
  ASSUME PumpShape, NEW w \in Worker, NEW to \in {"failed", "blocked"}, PumpRefused(w, to)
  PROVE  \E e \in Entry : Moves(w, e)
  <1>1. PICK e \in Entry : /\ e.at = to /\ e.cancelled = pump[w].cancelled
                           /\ pump' = [pump EXCEPT ![w] = e]
    BY EntryFields DEF PumpRefused, Moved
  <1>2. run' \in [Worker -> {"none", "admitting", "executing", "leaving"}]
    BY DEF PumpRefused, PumpShape
  <1>3. UNCHANGED <<stopping, closed>> /\ owed' = owed \ {w} /\ pump[w].at = "claiming"
    BY DEF PumpRefused
  <1> QED BY <1>1, <1>2, <1>3 DEF Moves

LEMMA PollsMove == ASSUME PumpShape, NEW w \in Worker, PumpPolls(w) PROVE \E e \in Entry : Moves(w, e)
  <1>1. PICK e \in Entry : /\ e.at = "looking" /\ e.cancelled = pump[w].cancelled
                           /\ pump' = [pump EXCEPT ![w] = e]
    BY EntryFields DEF PumpPolls, Moved
  <1>2. UNCHANGED <<run, stopping, closed, owed>> /\ pump[w].at = "blocked"
    BY DEF PumpPolls
  <1> QED BY <1>1, <1>2 DEF Moves, PumpShape

\* Who is owed a look has given its kick to the pump that resolves it.
LEMMA Resolves ==
  ASSUME PumpShape, NEW w \in Worker, pump[w].at \in {"failed", "running"}, pump' = [pump EXCEPT ![w] = KickOrExit(w)],
         UNCHANGED <<run, stopping, closed, owed>>
  PROVE  \E e \in Entry : Moves(w, e)
  <1>1. CASE pump[w].kick
    <2>1. PICK e \in Entry : /\ e.at = "looking" /\ e.cancelled = pump[w].cancelled /\ e = KickOrExit(w)
      BY <1>1 DEF KickOrExit, PumpShape, Entry
    <2> QED BY <2>1 DEF Moves, PumpShape
  <1>2. CASE ~pump[w].kick
    <2>1. PICK e \in Entry : e.at = "none" /\ ~e.cancelled /\ e = KickOrExit(w)
      BY <1>2 DEF KickOrExit, NoPump, Entry
    <2>2. Kicked => w \notin owed
      BY <1>2 DEF Kicked
    <2> QED BY <2>1, <2>2 DEF Moves, PumpShape
  <1> QED BY <1>1, <1>2

LEMMA ReturnsMove == ASSUME PumpShape, NEW w \in Worker, PumpReturns(w) PROVE \E e \in Entry : Moves(w, e)
  <1>1. pump[w].at = "running" /\ UNCHANGED <<run, stopping, closed, owed>>
    BY DEF PumpReturns
  <1>2. CASE Moved(w, "looking")
    <2>1. PICK e \in Entry : /\ e.at = "looking" /\ e.cancelled = pump[w].cancelled
                             /\ pump' = [pump EXCEPT ![w] = e]
      BY <1>2, EntryFields DEF Moved
    <2> QED BY <1>1, <2>1 DEF Moves, PumpShape
  <1>3. CASE pump' = [pump EXCEPT ![w] = KickOrExit(w)]
    BY <1>1, <1>3, Resolves
  <1> QED BY <1>2, <1>3 DEF PumpReturns

LEMMA PumpingMoves ==
  ASSUME PumpShape, NEW w \in Worker, Pumping(w) \/ PumpRefused(w, "failed")
  PROVE  PumpShape' /\ (Kicked => Kicked')
  <1>1. \E e \in Entry : Moves(w, e)
    <2>1. CASE PumpExits(w)
      BY <2>1, ExitsMove DEF Moves
    <2>2. CASE ClaimOf(w) # "running" /\ PumpRefused(w, ClaimOf(w))
      <3>1. ClaimOf(w) \in {"failed", "blocked"}
        BY <2>2 DEF ClaimOf
      <3> QED BY <2>2, <3>1, RefusedMove
    <2>3. CASE PumpGivesUp(w)
      BY <2>3, Resolves DEF PumpGivesUp
    <2> QED BY <2>1, <2>2, <2>3, LooksMove, ClaimsMove, PollsMove, ReturnsMove, RefusedMove DEF Pumping
  <1> QED BY <1>1, MovesKeep

\* Resume kicks the pump that is there, or adds one within the budget.
LEMMA ResumeKicks ==
  ASSUME PumpShape, NEW w \in Worker, Resume(w)
  PROVE  PumpShape' /\ (Kicked => Kicked')
  <1>1. UNCHANGED <<run, stopping, closed>> /\ owed' = owed \cup {w} /\ ~closed /\ w \notin stopping
    BY DEF Resume
  <1>2. CASE pump[w].at # "none" /\ pump' = [pump EXCEPT ![w].kick = TRUE]
    <2>1. PICK e \in Entry : /\ e.at = pump[w].at /\ e.kick /\ e.cancelled = pump[w].cancelled
                             /\ pump' = [pump EXCEPT ![w] = e]
      BY <1>2 DEF PumpShape, Entry
    <2>2. PumpShape'
      BY <1>1, <1>2, <2>1, PumpSet DEF PumpShape
    <2>3. ASSUME Kicked PROVE Kicked'
      <3>1. \A v \in Worker : v # w => pump'[v] = pump[v]
        BY <2>1 DEF PumpShape
      <3>2. pump'[w] = e /\ ~e.cancelled
        BY <1>1, <2>1, <2>3 DEF PumpShape, Kicked
      <3> QED BY <1>1, <1>2, <2>1, <2>3, <3>1, <3>2 DEF Kicked, PumpShape
    <2> QED BY <2>2, <2>3
  <1>3. CASE pump[w].at = "none" /\ MayPump /\ pump' = [pump EXCEPT ![w] = [NoPump EXCEPT !.at = "looking"]]
    <2>1. PICK e \in Entry : e.at = "looking" /\ ~e.cancelled /\ pump' = [pump EXCEPT ![w] = e]
      BY <1>3 DEF NoPump, Entry
    <2>2. /\ \A v \in Worker : v # w => pump'[v] = pump[v]
          /\ pump'[w] = e /\ pump' \in [Worker -> Entry]
      BY <2>1 DEF PumpShape
    <2>3. Pumps' = Pumps \cup {w} /\ w \notin Pumps /\ Pumps \subseteq Worker
      BY <1>3, <2>1, <2>2 DEF Pumps
    <2>4. Cardinality(Pumps') <= MaxPump
      <3>1. IsFiniteSet(Pumps) /\ Cardinality(Pumps) \in Nat
        BY <2>3, PumpsAreFinite
      <3>2. Cardinality(Pumps') = Cardinality(Pumps) + 1
        BY <2>3, <3>1, FS_AddElement
      <3> QED BY <1>3, <3>1, <3>2, TeamAssumption DEF MayPump
    <2>5. PumpShape'
      BY <1>1, <2>1, <2>2, <2>4 DEF PumpShape
    <2>6. ASSUME Kicked PROVE Kicked'
      BY <1>1, <2>1, <2>2, <2>6 DEF Kicked, PumpShape
    <2> QED BY <2>5, <2>6
  <1> QED BY <1>2, <1>3 DEF Resume

LEMMA StopCancels ==
  ASSUME PumpShape, NEW w \in Worker, Stop(w)
  PROVE  PumpShape' /\ (Kicked => Kicked')
  <1>1. /\ UNCHANGED <<run, closed>> /\ owed' = owed \ {w} /\ stopping' = stopping \cup {w}
        /\ pump' = [pump EXCEPT ![w].cancelled = pump[w].at # "none"]
    BY DEF Stop
  <1>2. PICK c \in BOOLEAN : c = (pump[w].at # "none")
    OBVIOUS
  <1>3. PICK e \in Entry : /\ e.at = pump[w].at /\ e.kick = pump[w].kick /\ e.cancelled = c
                           /\ pump' = [pump EXCEPT ![w] = e]
    <2>1. pump' = [pump EXCEPT ![w].cancelled = c]
      BY <1>1, <1>2
    <2> QED BY <2>1 DEF PumpShape, Entry
  <1>4. PumpShape'
    BY <1>1, <1>2, <1>3, PumpSet DEF PumpShape
  <1>5. ASSUME Kicked PROVE Kicked'
    <2>1. /\ \A v \in Worker : v # w => pump'[v] = pump[v]
          /\ pump'[w] = e
      BY <1>3 DEF PumpShape
    <2> QED BY <1>1, <1>5, <2>1 DEF Kicked, PumpShape
  <1> QED BY <1>4, <1>5

\* Close cancels all pumps at once, and no kick is owed any more.
LEMMA CloseCancels == ASSUME PumpShape, Close PROVE PumpShape' /\ Kicked'
  <1>1. /\ pump' = [w \in Worker |-> [pump[w] EXCEPT !.cancelled = w \in Pumps]]
        /\ closed' = TRUE /\ owed' = {} /\ UNCHANGED <<run, stopping>>
    BY DEF Close
  <1>2. ASSUME NEW w \in Worker
        PROVE  /\ pump'[w] \in Entry /\ pump'[w].at = pump[w].at
               /\ pump'[w].cancelled <=> w \in Pumps
    <2>1. pump'[w] = [pump[w] EXCEPT !.cancelled = w \in Pumps]
      BY <1>1
    <2>2. CASE w \in Pumps
      <3>1. (w \in Pumps) = TRUE
        BY <2>2
      <3>2. pump'[w] = [pump[w] EXCEPT !.cancelled = TRUE]
        BY <2>1, <3>1
      <3> QED BY <2>2, <3>2 DEF PumpShape, Entry
    <2>3. CASE w \notin Pumps
      <3>1. (w \in Pumps) = FALSE
        BY <2>3
      <3>2. pump'[w] = [pump[w] EXCEPT !.cancelled = FALSE]
        BY <2>1, <3>1
      <3> QED BY <2>3, <3>2 DEF PumpShape, Entry
    <2> QED BY <2>2, <2>3
  <1>3. Pumps' = Pumps
    BY <1>2 DEF Pumps
  <1>4. pump' \in [Worker -> Entry]
    <2>1. pump' = [w \in Worker |-> pump'[w]]
      BY <1>1
    <2> QED BY <1>2, <2>1
  <1>5. \A w \in Worker : pump'[w].at = "none" => ~pump'[w].cancelled
    BY <1>2, <1>3 DEF Pumps
  <1>6. PumpShape'
    BY <1>1, <1>3, <1>4, <1>5 DEF PumpShape
  <1>7. Kicked'
    BY <1>1 DEF Kicked
  <1> QED BY <1>6, <1>7

LEMMA RestartCancels == ASSUME PumpShape, NEW waits \in SUBSET Worker, Restart(waits) PROVE PumpShape' /\ Kicked'
  <1>1. /\ pump' = [w \in Worker |-> NoPump] /\ run' = [w \in Worker |-> "none"]
        /\ stopping' = {} /\ closed' = FALSE /\ owed' = {}
    BY DEF Restart
  <1>2. \A w \in Worker : pump'[w].at = "none" /\ ~pump'[w].cancelled
    BY <1>1 DEF NoPump
  <1>3. Pumps' = {}
    BY <1>2 DEF Pumps
  <1>4. Cardinality(Pumps') <= MaxPump
    BY <1>3, FS_EmptySet, TeamAssumption
  <1>5. NoPump \in Entry
    BY DEF NoPump, Entry
  <1> QED BY <1>1, <1>2, <1>4, <1>5 DEF PumpShape, Kicked

\* Steps that leave the pumps alone.
LEMMA PumpsAlone ==
  ASSUME PumpShape, run' \in [Worker -> {"none", "admitting", "executing", "leaving"}],
         UNCHANGED <<pump, stopping, closed, owed>>
  PROVE  PumpShape' /\ (Kicked => Kicked')
  BY DEF PumpShape, Kicked, Pumps

\* A caller of Stop that stays until the pump has exited leaves no kick behind.
LEMMA StopEnds ==
  ASSUME PumpShape, NEW w \in Worker, StopReturns(w)
  PROVE  PumpShape' /\ ("leave" \notin Ops /\ Kicked => Kicked')
  <1>1. stopping' = stopping \ {w} /\ UNCHANGED <<run, pump, closed, owed>>
    BY DEF StopReturns
  <1>2. PumpShape'
    BY <1>1 DEF PumpShape, Pumps
  <1>3. ASSUME "leave" \notin Ops, Kicked PROVE Kicked'
    <2>1. ~pump[w].cancelled
      BY <1>3 DEF StopReturns, PumpShape
    <2> QED BY <1>1, <1>3, <2>1 DEF Kicked
  <1> QED BY <1>2, <1>3

-----------------------------------------------------------------------------
(* The invariant.                                                          *)

LEMMA InitInv == Init => IInv /\ Kicked
  <1> SUFFICES ASSUME Init PROVE IInv /\ Kicked
    OBVIOUS
  <1>1. RowInv
    <2>1. RowShape
      BY DEF Init, RowShape
    <2>2. Queued = {} /\ Status("running") = {}
      BY DEF Init, Queued, Status
    <2>3. Cardinality(Queued) <= MaxGlobal
      BY <2>2, FS_EmptySet, TeamAssumption
    <2> QED BY <2>1, <2>2, <2>3 DEF RowInv, RunningApart, LiveTurnMatches, Init
  <1>2. MemberInv
    BY TeamAssumption DEF Init, MemberInv, EndedIsQuiet, Member
  <1>3. PumpShape
    <2>1. \A w \in Worker : pump[w].at = "none" /\ ~pump[w].cancelled
      BY DEF Init, NoPump
    <2>2. Pumps = {}
      BY <2>1 DEF Pumps
    <2>3. Cardinality(Pumps) <= MaxPump
      BY <2>2, FS_EmptySet, TeamAssumption
    <2>4. NoPump \in Entry
      BY DEF NoPump, Entry
    <2> QED BY <2>1, <2>3, <2>4 DEF PumpShape, Init
  <1>4. Kicked
    BY DEF Init, Kicked, NoPump
  <1> QED BY <1>1, <1>2, <1>3, <1>4 DEF IInv

\* A step of a worker, of its user or of its pump.
LEMMA WorkerSteps ==
  ASSUME IInv, NEW w \in Worker,
         Queueing(w) \/ Resume(w) \/ Pumping(w) \/ Running(w) \/ Meddling(w)
  PROVE  IInv' /\ ("leave" \notin Ops /\ Kicked => Kicked')
  <1> USE DEF IInv
  <1>a. branch \in [Worker -> Branch]
    BY DEF RowInv, RowShape
  <1>1. CASE AddWorker(w)
    <2>1. /\ team[TeamOf[w]] = "active" /\ life' = [life EXCEPT ![w] = "active"]
          /\ UNCHANGED <<team, branch, sess, live, task, process>>
      BY <1>1 DEF AddWorker
    <2>2. RowInv' /\ MemberInv'
      BY <2>1, <1>a, RowsAlone, ActiveMembers
    <2>3. PumpShape' /\ (Kicked => Kicked')
      BY <2>1, PumpsAlone DEF process, PumpShape
    <2> QED BY <2>2, <2>3
  <1>2. ASSUME NEW c \in Claims, NEW b \in Branch \cup {AnyBranch}, Enqueue(w, c, b)
        PROVE  IInv' /\ (Kicked => Kicked')
    <2>1. /\ team[TeamOf[w]] = "active" /\ life' = [life EXCEPT ![w] = "active"]
          /\ UNCHANGED <<team, live, process>>
      BY <1>2 DEF Enqueue, EnqueueAccepts
    <2>2. RowInv' /\ MemberInv'
      BY <2>1, <1>2, EnqueueRow, ActiveMembers
    <2>3. PumpShape' /\ (Kicked => Kicked')
      BY <2>1, PumpsAlone DEF process, PumpShape
    <2> QED BY <2>2, <2>3
  <1>3. CASE Resume(w)
    <2>1. UNCHANGED store
      BY <1>3 DEF Resume
    <2>2. RowInv' /\ MemberInv'
      BY <2>1, <1>a, RowsAlone, MembersAlone DEF store
    <2> QED BY <2>2, <1>3, ResumeKicks
  <1>4. CASE Pumping(w) \/ PumpRefused(w, "failed")
    <2>1. PumpShape' /\ (Kicked => Kicked')
      BY <1>4, PumpingMoves
    <2>2. CASE PumpClaims(w)
      BY <2>1, <2>2, ClaimRow, ClaimMembers
    <2>3. CASE UNCHANGED store
      <3>1. RowInv' /\ MemberInv'
        BY <2>3, <1>a, RowsAlone, MembersAlone DEF store
      <3> QED BY <2>1, <3>1
    <2>4. PumpClaims(w) \/ UNCHANGED store
      BY <1>4 DEF Pumping, PumpExits, PumpLooks, PumpPolls, PumpGivesUp, PumpReturns, PumpRefused
    <2> QED BY <2>2, <2>3, <2>4
  <1>5. ASSUME NEW to \in {"idle", "waiting"}, Ended(w, to), UNCHANGED <<pump, stopping, closed, owed>>,
               run' \in [Worker -> {"none", "admitting", "executing", "leaving"}]
        PROVE  IInv' /\ (Kicked => Kicked')
    <2>1. UNCHANGED <<team, life>> /\ \A v \in Worker : live'[v] \in {0, live[v]}
      BY <1>5 DEF Ended, RowInv, RowShape
    <2>2. RowInv' /\ MemberInv'
      BY <2>1, <1>5, EndRow, MembersAlone
    <2> QED BY <2>2, <1>5, PumpsAlone
  <1>14. ASSUME NEW to \in {"idle", "waiting"}, FinishTurn(w, to) PROVE IInv' /\ (Kicked => Kicked')
    <2>1. /\ Ended(w, to) /\ UNCHANGED <<pump, stopping, closed, owed>>
          /\ run' \in [Worker -> {"none", "admitting", "executing", "leaving"}]
      BY <1>14 DEF FinishTurn, PumpShape
    <2> QED BY <2>1, <1>5
  <1>15. CASE AbandonWaitingTurn(w)
    <2>1. /\ Ended(w, "idle") /\ UNCHANGED <<pump, stopping, closed, owed>>
          /\ run' \in [Worker -> {"none", "admitting", "executing", "leaving"}]
      BY <1>15 DEF AbandonWaitingTurn, process, PumpShape
    <2> QED BY <2>1, <1>5
  <1>6. CASE FinishFails(w) \/ Leave(w)
    <2>1. UNCHANGED <<store, pump, stopping, closed, owed>>
      BY <1>6 DEF FinishFails, Leave
    <2>2. run' \in [Worker -> {"none", "admitting", "executing", "leaving"}]
      BY <1>6 DEF FinishFails, Leave, PumpShape
    <2>3. RowInv' /\ MemberInv'
      BY <2>1, <1>a, RowsAlone, MembersAlone DEF store
    <2> QED BY <2>1, <2>2, <2>3, PumpsAlone
  <1>7. CASE Message(w) \/ ResumeWait(w)
    <2>1. /\ sess' = [sess EXCEPT ![w] = "running"]
          /\ UNCHANGED <<team, life, branch, live, task, pump, stopping, closed, owed>>
      BY <1>7 DEF Message, ResumeWait
    <2>2. run' \in [Worker -> {"none", "admitting", "executing", "leaving"}]
      BY <1>7 DEF Message, ResumeWait, PumpShape
    <2>3. RowInv' /\ MemberInv'
      BY <2>1, SessionRuns, MembersAlone
    <2> QED BY <2>1, <2>2, <2>3, PumpsAlone
  <1>8. ASSUME NEW b \in Branch, Switch(w, b) PROVE IInv' /\ (Kicked => Kicked')
    <2>1. branch' \in [Worker -> Branch] /\ UNCHANGED <<team, life, sess, live, task, process>>
      BY <1>8, <1>a DEF Switch
    <2>2. RowInv' /\ MemberInv'
      BY <2>1, RowsAlone, MembersAlone
    <2>3. PumpShape' /\ (Kicked => Kicked')
      BY <2>1, PumpsAlone DEF process, PumpShape
    <2> QED BY <2>2, <2>3
  <1>9. ASSUME NEW to \in {"active", "hibernated", "archived"}, SetWorkerLifecycle(w, to)
        PROVE  IInv' /\ (Kicked => Kicked')
    <2>1. /\ team[TeamOf[w]] = "active" /\ life' = [life EXCEPT ![w] = to]
          /\ UNCHANGED <<team, branch, sess, live, task, process>>
      BY <1>9 DEF SetWorkerLifecycle
    <2>2. RowInv' /\ MemberInv'
      BY <2>1, <1>a, RowsAlone, ActiveMembers
    <2>3. PumpShape' /\ (Kicked => Kicked')
      BY <2>1, PumpsAlone DEF process, PumpShape
    <2> QED BY <2>2, <2>3
  <1>10. CASE Stop(w) \/ StopReturns(w)
    <2>1. UNCHANGED store
      BY <1>10 DEF Stop, StopReturns
    <2>2. RowInv' /\ MemberInv'
      BY <2>1, <1>a, RowsAlone, MembersAlone DEF store
    <2> QED BY <2>2, <1>10, StopCancels, StopEnds
  <1>11. CASE Meddling(w)
    <2>1. CASE \E b \in Branch, c \in Claims : Switch(w, b) \/ Enqueue(w, c, b)
      BY <2>1, <1>2, <1>8
    <2>2. CASE \E to \in {"active", "hibernated", "archived"} : SetWorkerLifecycle(w, to)
      BY <2>2, <1>9
    <2>3. CASE FinishTurn(w, "waiting") \/ AbandonWaitingTurn(w)
      BY <2>3, <1>14, <1>15
    <2>4. CASE Message(w) \/ ResumeWait(w)
      BY <2>4, <1>7
    <2>5. CASE FinishFails(w) \/ PumpRefused(w, "failed")
      BY <2>5, <1>4, <1>6
    <2>6. CASE Stop(w) \/ StopReturns(w)
      BY <2>6, <1>10
    <2> QED BY <1>11, <2>1, <2>2, <2>3, <2>4, <2>5, <2>6 DEF Meddling
  <1>12. CASE Queueing(w)
    BY <1>12, <1>1, <1>2 DEF Queueing
  <1>13. CASE Running(w)
    BY <1>13, <1>6, <1>14 DEF Running
  <1> QED BY <1>3, <1>4, <1>11, <1>12, <1>13

\* The invariant is inductive.
LEMMA StepInv ==
  ASSUME IInv, [Next]_vars
  PROVE  IInv' /\ ("leave" \notin Ops /\ Kicked => Kicked')
  <1> USE DEF IInv
  <1>a. branch \in [Worker -> Branch]
    BY DEF RowInv, RowShape
  <1>1. ASSUME NEW w \in Worker, Queueing(w) \/ Resume(w) \/ Pumping(w) \/ Running(w) \/ Meddling(w)
        PROVE  IInv' /\ ("leave" \notin Ops /\ Kicked => Kicked')
    BY <1>1, WorkerSteps
  <1>2. ASSUME NEW t \in Team, CreateTeam(t) \/ EndTeam(t) PROVE IInv' /\ (Kicked => Kicked')
    <2>1. UNCHANGED <<branch, sess, live, task, process>>
      BY <1>2 DEF CreateTeam, EndTeam
    <2>2. RowInv' /\ MemberInv'
      BY <2>1, <1>2, <1>a, RowsAlone, CreateMembers, EndMembers
    <2>3. PumpShape' /\ (Kicked => Kicked')
      BY <2>1, PumpsAlone DEF process, PumpShape
    <2> QED BY <2>2, <2>3
  <1>3. ASSUME NEW i \in DOMAIN task, NEW c \in Claims, CancelQueuedTask(i) \/ EditQueuedTask(i, c)
        PROVE  IInv' /\ (Kicked => Kicked')
    <2>1. UNCHANGED <<team, life, live, process>>
      BY <1>3 DEF CancelQueuedTask, EditQueuedTask
    <2>2. RowInv' /\ MemberInv'
      BY <2>1, <1>3, CancelRow, EditRow, MembersAlone
    <2>3. PumpShape' /\ (Kicked => Kicked')
      BY <2>1, PumpsAlone DEF process, PumpShape
    <2> QED BY <2>2, <2>3
  <1>4. ASSUME NEW i \in DOMAIN task, CancelQueuedTask(i) PROVE IInv' /\ (Kicked => Kicked')
    <2>1. UNCHANGED <<team, life, live, process>>
      BY <1>4 DEF CancelQueuedTask
    <2>2. RowInv' /\ MemberInv'
      BY <2>1, <1>4, CancelRow, MembersAlone
    <2>3. PumpShape' /\ (Kicked => Kicked')
      BY <2>1, PumpsAlone DEF process, PumpShape
    <2> QED BY <2>2, <2>3
  <1>5. CASE Close
    <2>1. RowInv' /\ MemberInv'
      BY <1>5, <1>a, RowsAlone, MembersAlone DEF Close, store
    <2> QED BY <2>1, <1>5, CloseCancels
  <1>6. ASSUME NEW waits \in SUBSET Worker, Restart(waits) PROVE IInv' /\ (Kicked => Kicked')
    <2>1. RowInv' /\ \A v \in Worker : live'[v] \in {0, live[v]}
      BY <1>6, RestartRow
    <2>2. MemberInv'
      BY <2>1, <1>6, MembersAlone DEF Restart
    <2> QED BY <2>1, <2>2, <1>6, RestartCancels
  <1>7. CASE UNCHANGED vars
    <2>1. RowInv' /\ MemberInv'
      BY <1>7, <1>a, RowsAlone, MembersAlone DEF vars, store
    <2>2. PumpShape' /\ (Kicked => Kicked')
      BY <1>7, PumpsAlone DEF vars, process, PumpShape
    <2> QED BY <2>1, <2>2
  <1> QED BY <1>1, <1>2, <1>3, <1>4, <1>5, <1>6, <1>7 DEF Next

\* The inductive invariant: the queue, the members of teams, and the pumps.
THEOREM TeamInvariant == Spec => []IInv
  <1>1. Init => IInv
    BY InitInv
  <1>2. IInv /\ [Next]_vars => IInv'
    BY StepInv
  <1> QED BY <1>1, <1>2, PTL DEF Spec

\* What a step may do to a row of the queue.
GoesOn(i) ==
  \/ task'[i] = task[i]
  \/ task[i].status = "queued"
  \/ task[i].status = "running" /\ task'[i].status = "ended"

LEMMA EndGoesOn ==
  ASSUME RowInv, NEW w \in Worker, NEW to \in {"idle", "waiting"}, Ended(w, to), NEW i \in DOMAIN task
  PROVE  GoesOn(i)
  <1>1. DOMAIN task = 1..Len(task) /\ Len(task) \in Nat /\ task[i] \in Row
    BY DEF RowInv, RowShape
  <1>2. CASE live[w] = 0 \/ to = "waiting"
    BY <1>2 DEF Ended, Settled, GoesOn
  <1>3. CASE live[w] # 0 /\ to # "waiting"
    <2>1. task' = [task EXCEPT ![live[w]].status = "ended"]
      BY <1>3 DEF Ended, Settled
    <2>2. CASE i = live[w]
      BY <2>1, <2>2, <1>1, <1>3 DEF RowInv, LiveTurnMatches, GoesOn, Row
    <2>3. CASE i # live[w]
      BY <2>1, <2>3 DEF GoesOn
    <2> QED BY <2>2, <2>3
  <1> QED BY <1>2, <1>3

LEMMA ClaimGoesOn ==
  ASSUME RowInv, NEW w \in Worker, PumpClaims(w), NEW i \in DOMAIN task
  PROVE  GoesOn(i)
  <1>1. PICK k \in Claimable(w) : task' = [task EXCEPT ![k].status = "running"]
    BY DEF PumpClaims
  <1>2. task[k].status = "queued"
    BY DEF Claimable, IsHead, Queued, Status
  <1>3. CASE i = k
    BY <1>2, <1>3 DEF GoesOn
  <1>4. CASE i # k
    BY <1>1, <1>4 DEF GoesOn
  <1> QED BY <1>3, <1>4

\* A step of a worker rewrites the row it claims, or the one it settles.
LEMMA WorkerGoesOn ==
  ASSUME RowInv, NEW w \in Worker, NEW i \in DOMAIN task,
         Queueing(w) \/ Resume(w) \/ Pumping(w) \/ Running(w) \/ Meddling(w)
  PROVE  GoesOn(i)
  <1>1. ASSUME NEW c \in Claims, NEW b \in Branch \cup {AnyBranch}, Enqueue(w, c, b) PROVE GoesOn(i)
    <2>1. task' = Append(task, [worker |-> w, claims |-> c, branch |-> b, status |-> "queued"])
      BY <1>1 DEF Enqueue
    <2>2. task'[i] = task[i]
      BY <2>1 DEF RowInv, RowShape
    <2> QED BY <2>2 DEF GoesOn
  <1>2. ASSUME NEW to \in {"idle", "waiting"}, FinishTurn(w, to) PROVE GoesOn(i)
    BY <1>2, EndGoesOn DEF FinishTurn
  <1>3. CASE AbandonWaitingTurn(w)
    BY <1>3, EndGoesOn DEF AbandonWaitingTurn
  <1>4. CASE UNCHANGED task
    BY <1>4 DEF GoesOn
  <1>5. CASE Queueing(w)
    <2>1. CASE AddWorker(w)
      BY <2>1, <1>4 DEF AddWorker
    <2> QED BY <2>1, <1>1, <1>5 DEF Queueing
  <1>6. CASE Resume(w)
    BY <1>6, <1>4 DEF Resume, store
  <1>7. CASE Pumping(w)
    <2>1. PumpClaims(w) \/ UNCHANGED task
      BY <1>7 DEF Pumping, PumpExits, PumpLooks, PumpPolls, PumpGivesUp, PumpReturns, PumpRefused, store
    <2> QED BY <2>1, <1>4, ClaimGoesOn
  <1>8. CASE Running(w)
    <2>1. CASE Leave(w)
      BY <2>1, <1>4 DEF Leave, store
    <2> QED BY <2>1, <1>2, <1>8 DEF Running
  <1>9. CASE Meddling(w)
    <2>1. CASE \E b \in Branch, c \in Claims : Switch(w, b) \/ Enqueue(w, c, b)
      <3>1. ASSUME NEW b \in Branch, Switch(w, b) PROVE GoesOn(i)
        BY <3>1, <1>4 DEF Switch
      <3> QED BY <2>1, <3>1, <1>1
    <2>2. CASE \E to \in {"active", "hibernated", "archived"} : SetWorkerLifecycle(w, to)
      BY <2>2, <1>4 DEF SetWorkerLifecycle
    <2>3. CASE FinishTurn(w, "waiting") \/ AbandonWaitingTurn(w)
      BY <2>3, <1>2, <1>3
    <2>4. CASE Message(w) \/ ResumeWait(w)
      BY <2>4, <1>4 DEF Message, ResumeWait
    <2>5. CASE FinishFails(w) \/ PumpRefused(w, "failed")
      BY <2>5, <1>4 DEF FinishFails, PumpRefused, store
    <2>6. CASE Stop(w) \/ StopReturns(w)
      BY <2>6, <1>4 DEF Stop, StopReturns, store
    <2> QED BY <1>9, <2>1, <2>2, <2>3, <2>4, <2>5, <2>6 DEF Meddling
  <1> QED BY <1>5, <1>6, <1>7, <1>8, <1>9

LEMMA HistoryStep == ASSUME RowInv, [Next]_vars PROVE TaskHistoryIsFinal
  <1> SUFFICES ASSUME NEW i \in DOMAIN task PROVE GoesOn(i)
    BY DEF GoesOn, TaskHistoryIsFinal
  <1>1. task[i] \in Row
    BY DEF RowInv, RowShape
  <1>2. CASE UNCHANGED task
    BY <1>2 DEF GoesOn
  <1>3. ASSUME NEW w \in Worker, Queueing(w) \/ Resume(w) \/ Pumping(w) \/ Running(w) \/ Meddling(w)
        PROVE  GoesOn(i)
    BY <1>3, WorkerGoesOn
  <1>4. ASSUME NEW k \in DOMAIN task, CancelQueuedTask(k) PROVE GoesOn(i)
    BY <1>4 DEF CancelQueuedTask, Queued, Status, GoesOn
  <1>5. ASSUME NEW k \in DOMAIN task, NEW c \in Claims, EditQueuedTask(k, c) PROVE GoesOn(i)
    BY <1>5 DEF EditQueuedTask, Queued, Status, GoesOn
  <1>6. ASSUME NEW waits \in SUBSET Worker, Restart(waits) PROVE GoesOn(i)
    <2>1. PICK over : task' = Recovered(over)
      BY <1>6 DEF Restart
    <2> QED BY <2>1, <1>1 DEF Recovered, GoesOn, Row
  <1>7. ASSUME NEW t \in Team, CreateTeam(t) \/ EndTeam(t) PROVE GoesOn(i)
    BY <1>7, <1>2 DEF CreateTeam, EndTeam
  <1>8. CASE Close
    BY <1>8, <1>2 DEF Close, store
  <1>9. CASE UNCHANGED vars
    BY <1>9, <1>2 DEF vars, store
  <1> QED BY <1>3, <1>4, <1>5, <1>6, <1>7, <1>8, <1>9 DEF Next

\* The rows of a team agree, and what became of a task is final (team.go):
\* whatever users, pumps, faults and restarts do in between.
THEOREM TeamTasksRunApart == Spec => TasksRunApart
  <1>1. IInv => TeamTypeOK /\ RunningApart /\ LiveTurnMatches /\ EndedIsQuiet
    <2> SUFFICES ASSUME IInv PROVE TeamTypeOK
      BY DEF IInv, RowInv, MemberInv
    <2>1. \A i \in DOMAIN task : task[i].status \in {"queued", "running", "ended", "cancelled"}
      <3>1. \A i \in DOMAIN task : task[i] \in Row
        BY DEF IInv, RowInv, RowShape
      <3> QED BY <3>1 DEF Row
    <2> QED BY <2>1 DEF TeamTypeOK, IInv, RowInv, RowShape, MemberInv, PumpShape
  <1>2. IInv /\ [Next]_vars => [TaskHistoryIsFinal]_vars
    BY HistoryStep DEF IInv
  <1> QED BY <1>1, <1>2, TeamInvariant, PTL DEF Spec, TasksRunApart

\* A Resume that succeeded is followed by a look at the queue
\* (product/team.go), as long as no caller of Stop leaves before the pump has
\* exited: for then Resume may kick a pump that is leaving.
THEOREM TeamKickIsOwed == ASSUME "leave" \notin Ops PROVE Spec => []KickIsOwed
  <1>1. Init => IInv /\ Kicked
    BY InitInv
  <1>2. IInv /\ Kicked /\ [Next]_vars => IInv' /\ Kicked'
    BY StepInv
  <1>3. IInv /\ Kicked => KickIsOwed
    BY DEF Kicked, KickIsOwed
  <1> QED BY <1>1, <1>2, <1>3, PTL DEF Spec

-----------------------------------------------------------------------------
(* Worktrees: the inductive invariant.                                     *)

Snapshot == [File -> Content \cup {"gone"}]
States   == {"none", "provisioning", "ready", "provision_failed", "provision_unknown",
             "removing", "removed", "removal_unknown"}
Trees    == [state : States, adoption : {"", "adopting", "applied", "unknown"},
             evidence : Snapshot, removal : Snapshot]
Stages   == {"idle", "waiting", "begin", "work", "save", "apply", "won", "lost"}
Calls    == [kind : Kind \cup {"none"}, worker : TreeWorker \cup {Nobody}, at : Stages,
             current : BOOLEAN, shown : Snapshot, todo : SUBSET File]

TreesTyped ==
    /\ wt \in [TreeWorker -> Trees] /\ archived \subseteq TreeWorker
    /\ status \in [Dirs -> {"idle", "running", "waiting"}] /\ begun \subseteq Dirs
    /\ place \in [Dirs -> Dirs] /\ files \in [Dirs -> Snapshot]
    /\ lease \in [Dirs -> Dirs \cup Client \cup {Nobody}] /\ op \in [Client -> Calls] /\ edits \in Nat

TurnsBegan == \A s \in Dirs : status[s] # "idle" => s \in begun

\* A worktree whose making is under way belongs to a session without a turn;
\* one that is ready has its worker and its files; one that is adopted is or was
\* ready; one that is to go belongs to an archived worker.
TreeHolds(w) ==
    /\ wt[w].state = "provisioning" => w \notin begun
    /\ wt[w].state = "ready" => place[w] = w /\ files[w] # Gone
    /\ wt[w].adoption # "" => wt[w].state \in {"ready", "removing", "removed", "removal_unknown"}
    /\ wt[w].adoption = "adopting" => wt[w].state = "ready"
    /\ wt[w].state \in {"removing", "removed", "removal_unknown"} => w \in archived

\* A call that has its leases has the shared workspace for itself; while it
\* works on the files, the row still says what it was asked to do.
Inside(c) == op[c].at \notin {"idle", "waiting"}

CallHolds(c) ==
    /\ op[c].at # "idle" => op[c].kind # "none" /\ op[c].worker \in TreeWorker
    /\ Inside(c) => lease[Lead] = c
    /\ At(c, "provision", "won") => files[op[c].worker] # Gone
    /\ op[c].kind = "adopt" /\ op[c].at \in {"work", "apply", "won", "lost"} =>
         wt[op[c].worker].adoption = "adopting" /\ wt[op[c].worker].evidence = op[c].shown
    /\ op[c].kind = "remove" /\ op[c].at \in {"work", "apply", "won", "lost"} =>
         wt[op[c].worker].state = "removing" /\ wt[op[c].worker].removal = op[c].shown

TInv ==
    /\ TreesTyped /\ TurnsBegan
    /\ \A w \in TreeWorker : TreeHolds(w)
    /\ \A c \in Client : CallHolds(c)

-----------------------------------------------------------------------------
\* What is fixed: snapshots without a file that is there, the empty record and
\* the call that does nothing.
LEMMA SnapshotsTyped ==
  /\ Commit \in Snapshot /\ Gone \in Snapshot /\ Commit # Gone
  /\ NoTree \in Trees /\ NoTree.state = "none" /\ NoTree.adoption = ""
  /\ NoOp \in Calls /\ NoOp.at = "idle" /\ NoOp.kind = "none"
  <1>1. Commit \in Snapshot /\ Gone \in Snapshot
    BY DEF Commit, Gone, Snapshot, Content
  <1>2. Commit # Gone
    <2>1. PICK f \in File : TRUE
      BY WorktreeAssumption
    <2>2. Commit[f] = "base" /\ Gone[f] = "gone"
      BY DEF Commit, Gone
    <2> QED BY <2>2
  <1> QED BY <1>1, <1>2 DEF NoTree, Trees, States, NoOp, Calls, Stages

\* A snapshot in which something was written has a file.
LEMMA WrittenIsThere ==
  ASSUME NEW s \in Snapshot, NEW f \in File, NEW x \in Content
  PROVE  [s EXCEPT ![f] = x] \in Snapshot /\ [s EXCEPT ![f] = x] # Gone
  <1>1. [s EXCEPT ![f] = x] \in Snapshot
    BY DEF Snapshot
  <1>2. [s EXCEPT ![f] = x][f] = x /\ Gone[f] = "gone"
    BY DEF Snapshot, Gone
  <1> QED BY <1>1, <1>2 DEF Content

\* Only one call at a time is inside.
LEMMA OneInside == ASSUME TInv, NEW c \in Client, NEW d \in Client, Inside(c), Inside(d) PROVE c = d
  BY DEF TInv, CallHolds

LEMMA TreesStart == TreeInit => TInv
  <1> SUFFICES ASSUME TreeInit PROVE TInv
    OBVIOUS
  <1>1. TreesTyped
    BY SnapshotsTyped DEF TreeInit, TreesTyped, Dirs
  <1> QED BY <1>1, SnapshotsTyped DEF TreeInit, TInv, TurnsBegan, TreeHolds, CallHolds, Inside, At
-----------------------------------------------------------------------------
(* Turns: rows, directories and calls stay, and no turn takes the lease of *)
(* a call.                                                                 *)
LEMMA TurnKeeps ==
  ASSUME TInv, NEW s \in Dirs, NEW now \in {"idle", "running", "waiting"},
         status' = [status EXCEPT ![s] = now], begun \subseteq begun', begun' \subseteq Dirs,
         now # "idle" => s \in begun',
         \A w \in TreeWorker : w \in begun' \ begun => wt[w].state # "provisioning",
         lease' \in [Dirs -> Dirs \cup Client \cup {Nobody}],
         \A c \in Client : lease[Lead] = c => lease'[Lead] = c,
         UNCHANGED <<wt, archived, place, files, op, edits>>
  PROVE  TInv'
  <1>1. TreesTyped'
    BY DEF TInv, TreesTyped
  <1>2. TurnsBegan'
    BY DEF TInv, TreesTyped, TurnsBegan
  <1>3. \A w \in TreeWorker : TreeHolds(w)'
    BY DEF TInv, TreeHolds
  <1>4. \A c \in Client : CallHolds(c)'
    BY DEF TInv, CallHolds, Inside, At
  <1> QED BY <1>1, <1>2, <1>3, <1>4 DEF TInv

LEMMA EditKeeps ==
  ASSUME TInv, NEW p \in Dirs, NEW f \in File, NEW by \in Content, Edit(p, f, by)
  PROVE  TInv' /\ edits' = edits + 1
  <1>1. /\ files \in [Dirs -> Snapshot] /\ edits \in Nat
        /\ edits' = edits + 1 /\ files' = [files EXCEPT ![p][f] = by]
        /\ UNCHANGED <<wt, ended, archived, status, begun, place, lease, op>>
    BY DEF Edit, TInv, TreesTyped
  <1>2. files' = [files EXCEPT ![p] = [files[p] EXCEPT ![f] = by]]
    BY <1>1
  <1>3. [files[p] EXCEPT ![f] = by] \in Snapshot /\ [files[p] EXCEPT ![f] = by] # Gone
    BY <1>1, WrittenIsThere
  <1>4. files' \in [Dirs -> Snapshot] /\ \A q \in Dirs : files[q] # Gone => files'[q] # Gone
    BY <1>1, <1>2, <1>3
  <1>5. TreesTyped' /\ TurnsBegan'
    BY <1>1, <1>4 DEF TInv, TreesTyped, TurnsBegan
  <1>6. \A w \in TreeWorker : TreeHolds(w)'
    BY <1>1, <1>4 DEF TInv, TreeHolds, Dirs
  <1>7. \A c \in Client : CallHolds(c)'
    BY <1>1, <1>4 DEF TInv, CallHolds, Inside, At, Dirs
  <1> QED BY <1>1, <1>5, <1>6, <1>7 DEF TInv

LEMMA TurnSteps == ASSUME TInv, NEW s \in Dirs, Turn(s) PROVE TInv'
  <1> USE WorktreeAssumption DEF Nobody
  <1>0. /\ status \in [Dirs -> {"idle", "running", "waiting"}] /\ begun \subseteq Dirs /\ place \in [Dirs -> Dirs]
        /\ lease \in [Dirs -> Dirs \cup Client \cup {Nobody}] /\ Lead \in Dirs
        /\ \A c \in Client : c # Nobody /\ c \notin Dirs
    BY DEF TInv, TreesTyped, Dirs
  <1>1. ASSUME BeginTurn(s) PROVE TInv'
    <2>1. \A w \in TreeWorker : w \in begun' \ begun => wt[w].state # "provisioning"
      BY <1>1 DEF BeginTurn, Admitted
    <2> QED BY <1>0, <1>1, <2>1, TurnKeeps DEF BeginTurn
  <1>2. ASSUME ResumeTurn(s) PROVE TInv'
    <2>1. s \in begun
      BY <1>2 DEF ResumeTurn, TInv, TurnsBegan
    <2> QED BY <1>0, <1>2, <2>1, TurnKeeps DEF ResumeTurn
  <1>3. ASSUME Execute(s) PROVE TInv'
    <2>1. status' = [status EXCEPT ![s] = "running"] /\ s \in begun
      BY <1>0, <1>3 DEF Execute, TInv, TurnsBegan
    <2> QED BY <1>0, <1>3, <2>1, TurnKeeps DEF Execute
  <1>4. ASSUME Cancel(s) PROVE TInv'
    BY <1>0, <1>4, TurnKeeps DEF Cancel
  <1>5. ASSUME NEW to \in {"idle", "waiting"}, EndTurn(s, to) PROVE TInv'
    <2>1. s \in begun
      BY <1>5 DEF EndTurn, TInv, TurnsBegan
    <2> QED BY <1>0, <1>5, <2>1, TurnKeeps DEF EndTurn
  <1>6. ASSUME NEW f \in File, Work(s, f) PROVE TInv'
    <2>1. place[s] \in Dirs /\ "turn" \in Content
      BY <1>0 DEF Content
    <2> QED BY <1>6, <2>1, EditKeeps DEF Work
  <1> QED BY <1>1, <1>2, <1>3, <1>4, <1>5, <1>6 DEF Turn

-----------------------------------------------------------------------------
(* The team, and the crash.                                                *)
LEMMA TeamEndKeeps == ASSUME TInv, TeamEnds PROVE TInv'
  <1>1. UNCHANGED <<wt, status, begun, place, files, lease, op, edits>> /\ archived' = TreeWorker
    BY DEF TeamEnds
  <1>2. TreesTyped' /\ TurnsBegan'
    BY <1>1 DEF TInv, TreesTyped, TurnsBegan
  <1>3. \A w \in TreeWorker : TreeHolds(w)'
    BY <1>1 DEF TInv, TreeHolds
  <1>4. \A c \in Client : CallHolds(c)'
    BY <1>1 DEF TInv, CallHolds, Inside, At
  <1> QED BY <1>2, <1>3, <1>4 DEF TInv

LEMMA LifecycleKeeps ==
  ASSUME TInv, NEW w \in TreeWorker, NEW hidden \in BOOLEAN, SetLifecycle(w, hidden) PROVE TInv'
  <1>1. /\ UNCHANGED <<wt, status, begun, place, files, lease, op, edits>>
        /\ archived' = IF hidden THEN archived \cup {w} ELSE archived \ {w}
        /\ hidden \/ ~Retired(w)
    BY DEF SetLifecycle, MayRestore
  <1>2. TreesTyped' /\ TurnsBegan'
    BY <1>1 DEF TInv, TreesTyped, TurnsBegan
  <1>3. \A v \in TreeWorker : TreeHolds(v)'
    BY <1>1 DEF TInv, TreeHolds, Retired
  <1>4. \A c \in Client : CallHolds(c)'
    BY <1>1 DEF TInv, CallHolds, Inside, At
  <1> QED BY <1>2, <1>3, <1>4 DEF TInv

LEMMA RestartKeeps == ASSUME TInv, RestartTrees PROVE TInv'
  <1>0. /\ wt' = [w \in TreeWorker |-> RecoveredTree(wt[w])]
        /\ status' = [s \in Dirs |-> IF status[s] = "running" THEN "idle" ELSE status[s]]
        /\ lease' = [p \in Dirs |-> Nobody] /\ op' = [c \in Client |-> NoOp]
        /\ UNCHANGED <<ended, archived, begun, place, files, edits>>
    BY DEF RestartTrees
  <1>1. ASSUME NEW r \in Trees PROVE
          /\ RecoveredTree(r) \in Trees
          /\ RecoveredTree(r).adoption = IF r.adoption = "adopting" THEN "unknown" ELSE r.adoption
          /\ RecoveredTree(r).state = IF r.state = "removing" THEN "removal_unknown"
                                     ELSE IF r.state = "provisioning" THEN "provision_unknown" ELSE r.state
    BY DEF RecoveredTree, Trees, States
  <1>2. wt \in [TreeWorker -> Trees] /\ \A w \in TreeWorker : TreeHolds(w)
    BY DEF TInv, TreesTyped
  <1>3. TreesTyped' /\ TurnsBegan'
    BY <1>0, <1>1, SnapshotsTyped DEF TInv, TreesTyped, TurnsBegan
  <1>4. ASSUME NEW w \in TreeWorker PROVE TreeHolds(w)'
    <2>1. wt[w] \in Trees /\ wt'[w] = RecoveredTree(wt[w]) /\ TreeHolds(w)
      BY <1>0, <1>2
    <2>2. /\ wt'[w].adoption = IF wt[w].adoption = "adopting" THEN "unknown" ELSE wt[w].adoption
          /\ wt'[w].state = IF wt[w].state = "removing" THEN "removal_unknown"
                            ELSE IF wt[w].state = "provisioning" THEN "provision_unknown" ELSE wt[w].state
      BY <1>1, <2>1
    <2> QED BY <1>0, <2>1, <2>2 DEF TreeHolds
  <1>5. \A c \in Client : CallHolds(c)'
    BY <1>0, SnapshotsTyped DEF CallHolds, Inside, At
  <1> QED BY <1>3, <1>4, <1>5 DEF TInv

-----------------------------------------------------------------------------
(* Calls: whoever is inside, or changes nothing, leaves the others alone.  *)
Same(d) ==
    /\ op'[d].kind = op[d].kind /\ op'[d].worker = op[d].worker /\ op'[d].at = op[d].at /\ op'[d].shown = op[d].shown
    /\ lease[Lead] = d => lease'[Lead] = d

LEMMA OthersHold ==
  ASSUME TInv, NEW c \in Client, \A d \in Client \ {c} : Same(d), Inside(c) \/ UNCHANGED <<wt, files>>
  PROVE  \A d \in Client \ {c} : CallHolds(d)'
  <1> SUFFICES ASSUME NEW d \in Client \ {c} PROVE CallHolds(d)'
    OBVIOUS
  <1>1. CallHolds(d) /\ Same(d)
    BY DEF TInv
  <1>2. CASE Inside(d)
    <2>1. UNCHANGED <<wt, files>>
      BY <1>2, OneInside
    <2> QED BY <1>1, <2>1 DEF CallHolds, Inside, At, Same
  <1>3. CASE ~Inside(d)
    BY <1>1, <1>3 DEF CallHolds, Inside, At, Same
  <1> QED BY <1>2, <1>3

\* A call that ends holds nothing.
LEMMA FreeHolds ==
  ASSUME TInv, NEW c \in Client, Free(c)
  PROVE  /\ op' \in [Client -> Calls] /\ lease' \in [Dirs -> Dirs \cup Client \cup {Nobody}]
         /\ CallHolds(c)' /\ \A d \in Client \ {c} : Same(d)
  <1>1. op \in [Client -> Calls] /\ lease \in [Dirs -> Dirs \cup Client \cup {Nobody}] /\ Lead \in Dirs
    BY DEF TInv, TreesTyped, Dirs
  <1>2. op' = [op EXCEPT ![c] = NoOp] /\ lease' = [p \in Dirs |-> IF lease[p] = c THEN Nobody ELSE lease[p]]
    BY DEF Free
  <1>3. op' \in [Client -> Calls] /\ op'[c] = NoOp /\ \A d \in Client \ {c} : op'[d] = op[d]
    BY <1>1, <1>2, SnapshotsTyped
  <1>4. CallHolds(c)'
    BY <1>3, SnapshotsTyped DEF CallHolds, Inside, At
  <1> QED BY <1>1, <1>2, <1>3, <1>4 DEF Same

LEMMA DoneHolds ==
  ASSUME TInv, NEW c \in Client, Done(c)
  PROVE  /\ op' \in [Client -> Calls] /\ lease' \in [Dirs -> Dirs \cup Client \cup {Nobody}]
         /\ CallHolds(c)' /\ \A d \in Client \ {c} : Same(d)
  <1>1. op \in [Client -> Calls] /\ lease \in [Dirs -> Dirs \cup Client \cup {Nobody}] /\ Lead \in Dirs
    BY DEF TInv, TreesTyped, Dirs
  <1>2. /\ op' = [d \in Client |-> IF d = c THEN NoOp
                   ELSE [op[d] EXCEPT !.current = op[d].current /\ op[d].worker # op[c].worker]]
        /\ lease' = [p \in Dirs |-> IF lease[p] = c THEN Nobody ELSE lease[p]]
    BY DEF Done
  <1>3. ASSUME NEW d \in Client \ {c}
        PROVE  /\ op'[d] = [op[d] EXCEPT !.current = op[d].current /\ op[d].worker # op[c].worker]
               /\ op'[d] \in Calls /\ Same(d)
    <2>1. op[d] \in Calls /\ op'[d] = [op[d] EXCEPT !.current = op[d].current /\ op[d].worker # op[c].worker]
      BY <1>1, <1>2
    <2>2. (op[d].current /\ op[d].worker # op[c].worker) \in BOOLEAN
      OBVIOUS
    <2> QED BY <1>1, <1>2, <2>1, <2>2 DEF Calls, Same
  <1>4. op'[c] = NoOp /\ op' \in [Client -> Calls]
    BY <1>2, <1>3, SnapshotsTyped
  <1>5. CallHolds(c)'
    BY <1>4, SnapshotsTyped DEF CallHolds, Inside, At
  <1> QED BY <1>1, <1>2, <1>3, <1>4, <1>5

LEMMA GoingHolds ==
  ASSUME TInv, NEW c \in Client, Going(c, "work"), UNCHANGED lease
  PROVE  /\ op' \in [Client -> Calls] /\ \A d \in Client \ {c} : Same(d)
         /\ op'[c].at = "work" /\ op'[c].kind = op[c].kind /\ op'[c].worker = op[c].worker /\ op'[c].shown = op[c].shown
  <1>1. op \in [Client -> Calls]
    BY DEF TInv, TreesTyped
  <1>2. op' = [d \in Client |-> IF d = c THEN [op[c] EXCEPT !.at = "work"]
                   ELSE [op[d] EXCEPT !.current = op[d].current /\ op[d].worker # op[c].worker]]
    BY DEF Going
  <1>3. ASSUME NEW d \in Client \ {c} PROVE op'[d] \in Calls /\ Same(d)
    <2>1. op[d] \in Calls /\ op'[d] = [op[d] EXCEPT !.current = op[d].current /\ op[d].worker # op[c].worker]
      BY <1>1, <1>2
    <2>2. (op[d].current /\ op[d].worker # op[c].worker) \in BOOLEAN
      OBVIOUS
    <2> QED BY <1>1, <1>2, <2>1, <2>2 DEF Calls, Same
  <1>4. op'[c] = [op[c] EXCEPT !.at = "work"] /\ op[c] \in Calls
    BY <1>1, <1>2
  <1>5. /\ op'[c] \in Calls /\ op'[c].at = "work" /\ op'[c].kind = op[c].kind /\ op'[c].worker = op[c].worker
        /\ op'[c].shown = op[c].shown
    BY <1>4 DEF Calls, Stages
  <1>6. op' \in [Client -> Calls]
    BY <1>2, <1>3, <1>5
  <1> QED BY <1>3, <1>5, <1>6

\* A call that steps forward by itself.
LEMMA StepHolds ==
  ASSUME TInv, NEW c \in Client, NEW r \in Calls, op' = [op EXCEPT ![c] = r], UNCHANGED lease
  PROVE  op' \in [Client -> Calls] /\ op'[c] = r /\ \A d \in Client \ {c} : Same(d)
  BY DEF TInv, TreesTyped, Same

\* The parts of the invariant, after a step of a call that changes no row.
LEMMA QuietStep ==
  ASSUME TInv, NEW c \in Client, UNCHANGED <<wt, archived, status, begun, place, edits>>,
         files' \in [Dirs -> Snapshot], \A w \in TreeWorker : wt[w].state = "ready" => files'[w] # Gone,
         Inside(c) \/ UNCHANGED files,
         op' \in [Client -> Calls], lease' \in [Dirs -> Dirs \cup Client \cup {Nobody}],
         \A d \in Client \ {c} : Same(d), CallHolds(c)'
  PROVE  TInv'
  <1>1. TreesTyped' /\ TurnsBegan'
    BY DEF TInv, TreesTyped, TurnsBegan
  <1>2. \A w \in TreeWorker : TreeHolds(w)'
    BY DEF TInv, TreeHolds
  <1>3. \A d \in Client \ {c} : CallHolds(d)'
    BY OthersHold
  <1> QED BY <1>1, <1>2, <1>3 DEF TInv

\* And after one that writes the row of its worker.
LEMMA RowStep ==
  ASSUME TInv, NEW c \in Client, NEW w \in TreeWorker, NEW r \in Trees, wt' = [wt EXCEPT ![w] = r], Inside(c),
         UNCHANGED <<status, begun, files, edits>>, archived' \in {archived, archived \cup {w}},
         place' \in [Dirs -> Dirs], \A v \in TreeWorker \ {w} : place'[v] = place[v], TreeHolds(w)',
         op' \in [Client -> Calls], lease' \in [Dirs -> Dirs \cup Client \cup {Nobody}],
         \A d \in Client \ {c} : Same(d), CallHolds(c)'
  PROVE  TInv'
  <1>0. wt \in [TreeWorker -> Trees] /\ \A v \in TreeWorker \ {w} : wt'[v] = wt[v]
    BY DEF TInv, TreesTyped
  <1>1. TreesTyped' /\ TurnsBegan'
    BY <1>0 DEF TInv, TreesTyped, TurnsBegan
  <1>2. \A v \in TreeWorker \ {w} : TreeHolds(v)'
    BY <1>0 DEF TInv, TreeHolds
  <1>3. \A d \in Client \ {c} : CallHolds(d)'
    BY OthersHold
  <1> QED BY <1>1, <1>2, <1>3 DEF TInv

\* What the types say of a call, and of the row it is about.
LEMMA CallTyped ==
  ASSUME TInv, NEW c \in Client
  PROVE  /\ op \in [Client -> Calls] /\ op[c] \in Calls /\ CallHolds(c)
         /\ files \in [Dirs -> Snapshot] /\ place \in [Dirs -> Dirs] /\ lease \in [Dirs -> Dirs \cup Client \cup {Nobody}]
         /\ op[c].at # "idle" => /\ op[c].worker \in TreeWorker /\ op[c].worker \in Dirs
                                /\ wt[op[c].worker] \in Trees /\ TreeHolds(op[c].worker)
         /\ Lead \in Dirs
  BY DEF TInv, TreesTyped, CallHolds, Dirs

LEMMA OpenKeeps ==
  ASSUME TInv, NEW c \in Client, NEW w \in TreeWorker, NEW kind \in Kind, Open(c, w, kind) PROVE TInv'
  <1>1. /\ op[c] = NoOp /\ UNCHANGED <<wt, ended, archived, status, begun, place, files, lease, edits>>
        /\ op' = [op EXCEPT ![c] = [NoOp EXCEPT !.kind = kind, !.worker = w, !.at = "waiting", !.current = TRUE,
                     !.shown = IF kind = "remove" THEN wt[w].removal ELSE wt[w].evidence]]
    BY DEF Open
  <1>2. wt[w] \in Trees
    BY DEF TInv, TreesTyped
  <1>3. PICK e \in Snapshot : e = IF kind = "remove" THEN wt[w].removal ELSE wt[w].evidence
    BY <1>2 DEF Trees
  <1>4. PICK r : r = [NoOp EXCEPT !.kind = kind, !.worker = w, !.at = "waiting", !.current = TRUE, !.shown = e]
    OBVIOUS
  <1>5. r \in Calls /\ r.kind = kind /\ r.worker = w /\ r.at = "waiting"
    BY <1>4, SnapshotsTyped DEF Calls, Stages, NoOp
  <1>6. op' \in [Client -> Calls] /\ op'[c] = r /\ \A d \in Client \ {c} : Same(d)
    BY <1>1, <1>3, <1>4, <1>5, StepHolds
  <1>7. CallHolds(c)'
    BY <1>5, <1>6 DEF CallHolds, Inside, At, Kind
  <1> QED BY <1>1, <1>6, <1>7, QuietStep DEF TInv, TreesTyped, TreeHolds

LEMMA EnterKeeps == ASSUME TInv, NEW c \in Client, Enter(c) PROVE TInv'
  <1>1. /\ op[c].at = "waiting" /\ \A p \in Needs(c) : lease[p] = Nobody
        /\ lease' = [p \in Dirs |-> IF p \in Needs(c) THEN c ELSE lease[p]]
        /\ op' = [op EXCEPT ![c] = [op[c] EXCEPT !.at = "begin"]]
        /\ UNCHANGED <<wt, ended, archived, status, begun, place, files, edits>>
    BY DEF Enter
  <1>2. Lead \in Needs(c) /\ Lead \in Dirs
    BY DEF Needs, Dirs
  <1>3. op[c] \in Calls /\ op \in [Client -> Calls] /\ lease \in [Dirs -> Dirs \cup Client \cup {Nobody}]
    BY CallTyped
  <1>4. PICK r \in Calls : r = [op[c] EXCEPT !.at = "begin"]
    BY <1>3 DEF Calls, Stages
  <1>5. r.at = "begin" /\ r.kind = op[c].kind /\ r.worker = op[c].worker
    BY <1>3, <1>4 DEF Calls
  <1>6. op' \in [Client -> Calls] /\ op'[c] = r /\ lease'[Lead] = c
    BY <1>1, <1>2, <1>3, <1>4
  <1>7. \A d \in Client \ {c} : Same(d)
    <2> SUFFICES ASSUME NEW d \in Client \ {c} PROVE Same(d)
      OBVIOUS
    <2>1. lease[Lead] # d
      BY <1>1, <1>2, WorktreeAssumption DEF Nobody
    <2> QED BY <1>1, <1>3, <2>1 DEF Same
  <1>8. lease' \in [Dirs -> Dirs \cup Client \cup {Nobody}]
    BY <1>1, <1>3
  <1>9. CallHolds(c)'
    BY <1>1, <1>5, <1>6, CallTyped DEF CallHolds, Inside, At
  <1> QED BY <1>1, <1>6, <1>7, <1>8, <1>9, CallTyped, QuietStep DEF TInv, TreeHolds

LEMMA RefuseKeeps == ASSUME TInv, NEW c \in Client, Refuse(c) PROVE TInv'
  <1>1. Free(c) /\ UNCHANGED <<wt, archived, status, begun, place, files, edits>>
    BY DEF Refuse
  <1> QED BY <1>1, FreeHolds, CallTyped, QuietStep DEF TInv, TreeHolds

\* A call that goes on to another stage and leaves the rest alone.
LEMMA StageKeeps ==
  ASSUME TInv, NEW c \in Client, NEW r \in Calls, op' = [op EXCEPT ![c] = r], Inside(c),
         r.kind = op[c].kind, r.worker = op[c].worker,
         UNCHANGED <<wt, archived, status, begun, place, files, lease, edits>>,
         r.kind = "provision" /\ r.at = "won" => files[r.worker] # Gone,
         r.kind \in {"adopt", "remove"} => r.shown = op[c].shown /\ op[c].at \in {"work", "apply"}
  PROVE  TInv'
  <1>1. op' \in [Client -> Calls] /\ op'[c] = r /\ \A d \in Client \ {c} : Same(d)
    BY StepHolds
  <1>2. CallHolds(c)'
    BY <1>1, CallTyped DEF CallHolds, Inside, At
  <1> QED BY <1>1, <1>2, CallTyped, QuietStep DEF TInv, TreeHolds

LEMMA LookKeeps == ASSUME TInv, NEW c \in Client, Look(c) PROVE TInv'
  <1>1. /\ op[c].kind \in {"preview", "review"} /\ op[c].at = "begin"
        /\ op' = [op EXCEPT ![c] = [op[c] EXCEPT !.at = "save", !.shown = files[op[c].worker]]]
        /\ UNCHANGED <<wt, ended, archived, status, begun, place, files, lease, edits>>
    BY DEF Look
  <1>2. op[c] \in Calls /\ files[op[c].worker] \in Snapshot
    BY <1>1, CallTyped
  <1>3. PICK r : r = [op[c] EXCEPT !.at = "save", !.shown = files[op[c].worker]]
    OBVIOUS
  <1>4. r \in Calls /\ r.kind = op[c].kind /\ r.worker = op[c].worker
    BY <1>2, <1>3 DEF Calls, Stages
  <1> QED BY <1>1, <1>3, <1>4, StageKeeps DEF Inside

LEMMA StagingKeeps == ASSUME TInv, NEW c \in Client, Stage(c) PROVE TInv'
  <1>1. /\ op[c].kind = "adopt" /\ op[c].at = "work"
        /\ UNCHANGED <<wt, ended, archived, status, begun, place, files, lease, edits>>
    BY DEF Stage, At
  <1>2. op[c] \in Calls
    BY CallTyped
  <1>3. Changes(wt[op[c].worker].evidence) \in SUBSET File
    BY DEF Changes
  <1>4. PICK r \in {[op[c] EXCEPT !.at = "apply", !.todo = Changes(wt[op[c].worker].evidence)], [op[c] EXCEPT !.at = "lost"]} :
          op' = [op EXCEPT ![c] = r]
    BY DEF Stage
  <1>5. r \in Calls /\ r.kind = op[c].kind /\ r.worker = op[c].worker /\ r.shown = op[c].shown
    BY <1>2, <1>3, <1>4 DEF Calls, Stages
  <1> QED BY <1>1, <1>4, <1>5, StageKeeps DEF Inside

LEMMA ProveKeeps == ASSUME TInv, NEW c \in Client, Prove(c) PROVE TInv'
  <1>1. /\ op[c].kind = "adopt" /\ op[c].at = "apply"
        /\ UNCHANGED <<wt, ended, archived, status, begun, place, files, lease, edits>>
    BY DEF Prove, At
  <1>2. op[c] \in Calls
    BY CallTyped
  <1>3. PICK at \in {"won", "lost"} : op' = [op EXCEPT ![c] = [op[c] EXCEPT !.at = at]]
    BY DEF Prove
  <1>4. PICK r : r = [op[c] EXCEPT !.at = at]
    OBVIOUS
  <1>5. r \in Calls /\ r.kind = op[c].kind /\ r.worker = op[c].worker /\ r.shown = op[c].shown
    BY <1>2, <1>4 DEF Calls, Stages
  <1> QED BY <1>1, <1>3, <1>4, <1>5, StageKeeps DEF Inside

LEMMA BreakKeeps == ASSUME TInv, NEW c \in Client, Break(c) PROVE TInv'
  <1>1. /\ op[c].kind \in {"adopt", "remove"} /\ op[c].at \in {"work", "apply"}
        /\ op' = [op EXCEPT ![c] = [op[c] EXCEPT !.at = "lost"]]
        /\ UNCHANGED <<wt, ended, archived, status, begun, place, files, lease, edits>>
    BY DEF Break
  <1>2. op[c] \in Calls
    BY CallTyped
  <1>3. PICK r : r = [op[c] EXCEPT !.at = "lost"]
    OBVIOUS
  <1>4. r \in Calls /\ r.kind = op[c].kind /\ r.worker = op[c].worker /\ r.shown = op[c].shown
    BY <1>2, <1>3 DEF Calls, Stages
  <1> QED BY <1>1, <1>3, <1>4, StageKeeps DEF Inside

-----------------------------------------------------------------------------
(* What a call does to files.                                              *)
LEMMA ProvisionKeeps == ASSUME TInv, NEW c \in Client, NEW ok \in BOOLEAN, Provision(c, ok) PROVE TInv'
  <1>1. /\ op[c].kind = "provision" /\ op[c].at = "work" /\ Inside(c)
        /\ files' = [files EXCEPT ![op[c].worker] = IF ok THEN Commit ELSE files[op[c].worker]]
        /\ op' = [op EXCEPT ![c] = [op[c] EXCEPT !.at = IF ok THEN "won" ELSE "lost"]]
        /\ UNCHANGED <<wt, ended, archived, status, begun, place, lease, edits>>
    BY DEF Provision, At, Inside
  <1>2. op[c] \in Calls /\ op[c].worker \in TreeWorker /\ op[c].worker \in Dirs /\ files \in [Dirs -> Snapshot]
    BY <1>1, CallTyped
  <1>3. /\ files' \in [Dirs -> Snapshot] /\ \A p \in Dirs : files[p] # Gone => files'[p] # Gone
        /\ ok => files'[op[c].worker] # Gone
    BY <1>1, <1>2, SnapshotsTyped
  <1>4. PICK r : r = [op[c] EXCEPT !.at = IF ok THEN "won" ELSE "lost"]
    OBVIOUS
  <1>5. r \in Calls /\ r.kind = op[c].kind /\ r.worker = op[c].worker /\ r.at = IF ok THEN "won" ELSE "lost"
    BY <1>2, <1>4 DEF Calls, Stages
  <1>6. op' \in [Client -> Calls] /\ op'[c] = r /\ \A d \in Client \ {c} : Same(d)
    BY <1>1, <1>4, <1>5, StepHolds
  <1>7. CallHolds(c)'
    BY <1>1, <1>2, <1>3, <1>5, <1>6, CallTyped DEF CallHolds, Inside, At
  <1>8. \A w \in TreeWorker : wt[w].state = "ready" => files'[w] # Gone
    BY <1>3 DEF TInv, TreeHolds, Dirs
  <1> QED BY <1>1, <1>3, <1>6, <1>7, <1>8, CallTyped, QuietStep

LEMMA ApplyKeeps == ASSUME TInv, NEW c \in Client, NEW f \in File, Apply(c, f) PROVE TInv'
  <1>1. /\ op[c].kind = "adopt" /\ op[c].at = "apply" /\ Inside(c)
        /\ UNCHANGED <<wt, ended, archived, status, begun, place, lease, edits>>
    BY DEF Apply, At, Inside
  <1>2. op[c] \in Calls /\ files \in [Dirs -> Snapshot] /\ wt[op[c].worker] \in Trees /\ Lead \in Dirs
    BY <1>1, CallTyped
  <1>3. wt[op[c].worker].evidence[f] \in Content \cup {"gone"}
    BY <1>2 DEF Trees, Snapshot
  <1>4. PICK r \in {[op[c] EXCEPT !.todo = op[c].todo \ {f}], [op[c] EXCEPT !.at = "lost"]} : op' = [op EXCEPT ![c] = r]
    BY DEF Apply
  <1>5. r \in Calls /\ r.kind = op[c].kind /\ r.worker = op[c].worker /\ r.shown = op[c].shown
    BY <1>2, <1>4 DEF Calls, Stages
  <1>6. op' \in [Client -> Calls] /\ op'[c] = r /\ \A d \in Client \ {c} : Same(d)
    BY <1>1, <1>5, <1>4, StepHolds
  <1>7. CallHolds(c)'
    BY <1>1, <1>5, <1>6, CallTyped DEF CallHolds, Inside, At
  <1>8. files' \in [Dirs -> Snapshot] /\ \A p \in TreeWorker : files'[p] = files[p]
    <2>1. CASE UNCHANGED files
      BY <1>2, <2>1
    <2>2. CASE files' = [files EXCEPT ![Lead][f] = wt[op[c].worker].evidence[f]]
      <3>1. files' = [files EXCEPT ![Lead] = [files[Lead] EXCEPT ![f] = wt[op[c].worker].evidence[f]]]
        BY <2>2
      <3>2. [files[Lead] EXCEPT ![f] = wt[op[c].worker].evidence[f]] \in Snapshot
        BY <1>2, <1>3 DEF Snapshot
      <3> QED BY <1>2, <3>1, <3>2, WorktreeAssumption DEF Dirs
    <2> QED BY <2>1, <2>2 DEF Apply
  <1> QED BY <1>1, <1>6, <1>7, <1>8, CallTyped, QuietStep DEF TInv, TreeHolds

LEMMA RemoveKeeps == ASSUME TInv, NEW c \in Client, Remove(c) PROVE TInv'
  <1>1. /\ op[c].kind = "remove" /\ op[c].at = "work" /\ Inside(c)
        /\ UNCHANGED <<wt, ended, archived, status, begun, place, lease, edits>>
    BY DEF Remove, At, Inside
  <1>2. /\ op[c] \in Calls /\ files \in [Dirs -> Snapshot] /\ op[c].worker \in TreeWorker
        /\ wt[op[c].worker].state = "removing"
    BY <1>1, CallTyped DEF CallHolds
  <1>3. PICK at \in {"won", "lost"} : op' = [op EXCEPT ![c] = [op[c] EXCEPT !.at = at]]
    BY DEF Remove
  <1>4. PICK r : r = [op[c] EXCEPT !.at = at]
    OBVIOUS
  <1>5. r \in Calls /\ r.kind = op[c].kind /\ r.worker = op[c].worker /\ r.shown = op[c].shown
    BY <1>2, <1>4 DEF Calls, Stages
  <1>6. op' \in [Client -> Calls] /\ op'[c] = r /\ \A d \in Client \ {c} : Same(d)
    BY <1>1, <1>3, <1>4, <1>5, StepHolds
  <1>7. CallHolds(c)'
    BY <1>1, <1>5, <1>6, CallTyped DEF CallHolds, Inside, At
  <1>8. files' \in [Dirs -> Snapshot] /\ \A p \in Dirs \ {op[c].worker} : files'[p] = files[p]
    BY <1>2, SnapshotsTyped DEF Remove
  <1>9. \A w \in TreeWorker : wt[w].state = "ready" => files'[w] # Gone
    BY <1>2, <1>8 DEF TInv, TreeHolds, Dirs
  <1> QED BY <1>1, <1>6, <1>7, <1>8, <1>9, CallTyped, QuietStep

-----------------------------------------------------------------------------
(* What a call does to the row.                                            *)
LEMMA BeginProvisionKeeps == ASSUME TInv, NEW c \in Client, BeginProvision(c) PROVE TInv'
  <1>0. PICK w : w = op[c].worker
    OBVIOUS
  <1> DEFINE r == [NoTree EXCEPT !.state = "provisioning"]
  <1>1. /\ op[c].kind = "provision" /\ op[c].at = "begin" /\ Inside(c) /\ w \notin begun
        /\ wt' = [wt EXCEPT ![w] = r] /\ Going(c, "work")
        /\ UNCHANGED <<ended, archived, status, begun, place, files, lease, edits>>
    BY <1>0 DEF BeginProvision, At, Inside, Isolable, Wrote
  <1>2. w \in TreeWorker /\ wt \in [TreeWorker -> Trees]
    BY <1>0, <1>1, CallTyped DEF TInv, TreesTyped
  <1>3. r \in Trees /\ r.state = "provisioning" /\ r.adoption = ""
    BY SnapshotsTyped DEF NoTree, Trees, States
  <1>4. wt'[w] = r /\ TreeHolds(w)'
    BY <1>1, <1>2, <1>3 DEF TreeHolds
  <1>5. /\ op' \in [Client -> Calls] /\ \A d \in Client \ {c} : Same(d)
        /\ op'[c].at = "work" /\ op'[c].kind = op[c].kind /\ op'[c].worker = w
    BY <1>0, <1>1, GoingHolds
  <1>6. CallHolds(c)'
    BY <1>0, <1>1, <1>2, <1>5, CallTyped DEF CallHolds, Inside, At
  <1> HIDE DEF r
  <1> QED BY <1>0, <1>1, <1>2, <1>3, <1>4, <1>5, <1>6, CallTyped, RowStep

LEMMA BeginAdoptionKeeps == ASSUME TInv, NEW c \in Client, BeginAdoption(c) PROVE TInv'
  <1>0. PICK w : w = op[c].worker
    OBVIOUS
  <1> DEFINE r == [wt[w] EXCEPT !.adoption = "adopting"]
  <1>1. /\ op[c].kind = "adopt" /\ op[c].at = "begin" /\ Inside(c) /\ wt[w].state = "ready"
        /\ wt[w].evidence = op[c].shown /\ wt' = [wt EXCEPT ![w] = r] /\ Going(c, "work")
        /\ UNCHANGED <<ended, archived, status, begun, place, files, lease, edits>>
    BY <1>0 DEF BeginAdoption, At, Inside, Adoptable, Ready, Wrote
  <1>2. w \in TreeWorker /\ wt \in [TreeWorker -> Trees] /\ wt[w] \in Trees /\ TreeHolds(w)
    BY <1>0, <1>1, CallTyped DEF TInv, TreesTyped
  <1>3. r \in Trees /\ r.state = "ready" /\ r.adoption = "adopting" /\ r.evidence = op[c].shown
    BY <1>0, <1>1, <1>2 DEF Trees
  <1>4. wt'[w] = r /\ TreeHolds(w)'
    BY <1>0, <1>1, <1>2, <1>3 DEF TreeHolds
  <1>5. /\ op' \in [Client -> Calls] /\ \A d \in Client \ {c} : Same(d)
        /\ op'[c].at = "work" /\ op'[c].kind = op[c].kind /\ op'[c].worker = w /\ op'[c].shown = op[c].shown
    BY <1>0, <1>1, GoingHolds
  <1>6. CallHolds(c)'
    BY <1>0, <1>1, <1>2, <1>3, <1>4, <1>5, CallTyped DEF CallHolds, Inside, At
  <1> HIDE DEF r
  <1> QED BY <1>0, <1>1, <1>2, <1>3, <1>4, <1>5, <1>6, CallTyped, RowStep

LEMMA BeginRemovalKeeps == ASSUME TInv, NEW c \in Client, BeginRemoval(c) PROVE TInv'
  <1>0. PICK w : w = op[c].worker
    OBVIOUS
  <1> DEFINE r == [wt[w] EXCEPT !.state = "removing"]
  <1>1. /\ op[c].kind = "remove" /\ op[c].at = "begin" /\ Inside(c) /\ wt[w].state = "ready"
        /\ wt[w].adoption # "adopting" /\ wt[w].removal = op[c].shown
        /\ wt' = [wt EXCEPT ![w] = r] /\ Going(c, "work") /\ archived' = archived \cup {w}
        /\ UNCHANGED <<ended, status, begun, place, files, lease, edits>>
    BY <1>0 DEF BeginRemoval, At, Inside, Decided, Ready, Wrote
  <1>2. w \in TreeWorker /\ wt \in [TreeWorker -> Trees] /\ wt[w] \in Trees /\ TreeHolds(w)
    BY <1>0, <1>1, CallTyped DEF TInv, TreesTyped
  <1>3. r \in Trees /\ r.state = "removing" /\ r.adoption = wt[w].adoption /\ r.removal = op[c].shown
    BY <1>0, <1>1, <1>2 DEF Trees, States
  <1>4. wt'[w] = r /\ TreeHolds(w)'
    BY <1>0, <1>1, <1>2, <1>3 DEF TreeHolds
  <1>5. /\ op' \in [Client -> Calls] /\ \A d \in Client \ {c} : Same(d)
        /\ op'[c].at = "work" /\ op'[c].kind = op[c].kind /\ op'[c].worker = w /\ op'[c].shown = op[c].shown
    BY <1>0, <1>1, GoingHolds
  <1>6. CallHolds(c)'
    BY <1>0, <1>1, <1>2, <1>3, <1>4, <1>5, CallTyped DEF CallHolds, Inside, At
  <1> HIDE DEF r
  <1> QED BY <1>0, <1>1, <1>2, <1>3, <1>4, <1>5, <1>6, CallTyped, RowStep

\* A call that writes the row and ends.
LEMMA DoneKeeps ==
  ASSUME TInv, NEW c \in Client, Inside(c), NEW r \in Trees, Wrote(op[c].worker, r), Done(c),
         UNCHANGED <<archived, status, begun, files, edits>>, place' \in [Dirs -> Dirs],
         \A v \in TreeWorker \ {op[c].worker} : place'[v] = place[v],
         r.state = "ready" => place'[op[c].worker] = op[c].worker /\ files[op[c].worker] # Gone,
         r.state # "provisioning", r.adoption # "" => r.state \in {"ready", "removing", "removed", "removal_unknown"},
         r.adoption = "adopting" => r.state = "ready",
         r.state \in {"removing", "removed", "removal_unknown"} => op[c].worker \in archived
  PROVE  TInv'
  <1>0. PICK w : w = op[c].worker
    OBVIOUS
  <1>1. w \in TreeWorker /\ wt \in [TreeWorker -> Trees]
    BY <1>0, CallTyped DEF TInv, TreesTyped, Inside
  <1>2. wt' = [wt EXCEPT ![w] = r] /\ wt'[w] = r
    BY <1>0, <1>1 DEF Wrote
  <1>3. TreeHolds(w)'
    BY <1>0, <1>2 DEF TreeHolds
  <1> QED BY <1>0, <1>1, <1>2, <1>3, DoneHolds, RowStep

LEMMA FreeKeeps ==
  ASSUME TInv, NEW c \in Client, Free(c), UNCHANGED <<wt, archived, status, begun, place, files, edits>>
  PROVE  TInv'
  BY FreeHolds, CallTyped, QuietStep DEF TInv, TreeHolds

LEMMA SaveKeeps == ASSUME TInv, NEW c \in Client, SaveEvidence(c) \/ SaveReview(c) PROVE TInv'
  <1>1. /\ op[c].at = "save" /\ Inside(c) /\ Done(c) /\ wt[op[c].worker].state = "ready"
        /\ UNCHANGED <<ended, archived, status, begun, place, files, edits>>
    BY DEF SaveEvidence, SaveReview, At, Inside, Ready
  <1>2. PICK r \in {[wt[op[c].worker] EXCEPT !.evidence = op[c].shown], [wt[op[c].worker] EXCEPT !.removal = op[c].shown]} :
          Wrote(op[c].worker, r)
    BY DEF SaveEvidence, SaveReview
  <1>3. wt[op[c].worker] \in Trees /\ TreeHolds(op[c].worker) /\ op[c] \in Calls /\ place \in [Dirs -> Dirs]
    BY <1>1, CallTyped
  <1>4. op[c].shown \in Snapshot
    BY <1>3 DEF Calls
  <1>5. r \in Trees /\ r.state = wt[op[c].worker].state /\ r.adoption = wt[op[c].worker].adoption
    BY <1>2, <1>3, <1>4 DEF Trees
  <1> QED BY <1>1, <1>2, <1>3, <1>5, DoneKeeps DEF TreeHolds

LEMMA FinishProvisionKeeps == ASSUME TInv, NEW c \in Client, FinishProvision(c) PROVE TInv'
  <1>0. PICK w : w = op[c].worker
    OBVIOUS
  <1>1. PICK good, bad : good = [wt[w] EXCEPT !.state = "ready"] /\ bad = [wt[w] EXCEPT !.state = "provision_failed"]
    OBVIOUS
  <1>2. op[c].kind = "provision" /\ op[c].at \in {"won", "lost"} /\ Inside(c)
        /\ UNCHANGED <<ended, archived, status, begun, files, edits>>
    BY DEF FinishProvision, Inside
  <1>3. \/ wt[w].state = "provisioning" /\ Done(c) /\ op[c].at = "won" /\ Wrote(w, good) /\ place' = [place EXCEPT ![w] = w]
        \/ wt[w].state = "provisioning" /\ Done(c) /\ op[c].at = "lost" /\ Wrote(w, bad) /\ place' = [place EXCEPT ![w] = place[w]]
        \/ Free(c) /\ UNCHANGED <<wt, place>>
    BY <1>0, <1>1, <1>2 DEF FinishProvision
  <1>4. /\ wt[w] \in Trees /\ TreeHolds(w) /\ place \in [Dirs -> Dirs] /\ w \in Dirs
        /\ op[c].at = "won" => files[w] # Gone
    BY <1>0, <1>2, CallTyped DEF CallHolds, At
  <1>5. /\ good \in Trees /\ good.state = "ready" /\ good.adoption = wt[w].adoption
        /\ bad \in Trees /\ bad.state = "provision_failed" /\ bad.adoption = wt[w].adoption
    BY <1>1, <1>4 DEF Trees, States
  <1>6. CASE wt[w].state = "provisioning" /\ Done(c) /\ op[c].at = "won" /\ Wrote(w, good) /\ place' = [place EXCEPT ![w] = w]
    <2>1. good.adoption = ""
      BY <1>4, <1>5, <1>6 DEF TreeHolds
    <2>2. /\ place' \in [Dirs -> Dirs] /\ place'[w] = w
          /\ \A v \in TreeWorker \ {w} : place'[v] = place[v]
      BY <1>4, <1>6 DEF Dirs
    <2>3. files[w] # Gone
      BY <1>4, <1>6
    <2> QED BY <1>0, <1>2, <1>5, <1>6, <2>1, <2>2, <2>3, DoneKeeps
  <1>7. CASE wt[w].state = "provisioning" /\ Done(c) /\ op[c].at = "lost" /\ Wrote(w, bad) /\ place' = [place EXCEPT ![w] = place[w]]
    <2>1. bad.adoption = ""
      BY <1>4, <1>5, <1>7 DEF TreeHolds
    <2>2. /\ place' \in [Dirs -> Dirs]
          /\ \A v \in TreeWorker \ {w} : place'[v] = place[v]
      BY <1>4, <1>7 DEF Dirs
    <2> QED BY <1>0, <1>2, <1>5, <1>7, <2>1, <2>2, DoneKeeps
  <1> QED BY <1>2, <1>3, <1>6, <1>7, FreeKeeps

LEMMA FinishAdoptionKeeps == ASSUME TInv, NEW c \in Client, FinishAdoption(c) PROVE TInv'
  <1>0. PICK w : w = op[c].worker
    OBVIOUS
  <1> DEFINE r == [wt[w] EXCEPT !.adoption = IF op[c].at = "won" THEN "applied" ELSE "unknown"]
  <1>1. /\ op[c].kind = "adopt" /\ op[c].at \in {"won", "lost"} /\ Inside(c)
        /\ UNCHANGED <<ended, archived, status, begun, place, files, edits>>
        /\ \/ wt[w].adoption = "adopting" /\ Wrote(w, r) /\ Done(c)
           \/ Free(c) /\ UNCHANGED wt
    BY <1>0 DEF FinishAdoption, Inside
  <1>2. wt[w] \in Trees /\ TreeHolds(w) /\ place \in [Dirs -> Dirs]
    BY <1>0, <1>1, CallTyped
  <1>3. CASE wt[w].adoption = "adopting" /\ Wrote(w, r) /\ Done(c)
    <2>1. r \in Trees /\ r.state = "ready" /\ r.adoption # "adopting"
      BY <1>2, <1>3 DEF Trees, TreeHolds
    <2> QED BY <1>0, <1>1, <1>2, <1>3, <2>1, DoneKeeps DEF TreeHolds
  <1> QED BY <1>0, <1>1, <1>3, FreeKeeps

LEMMA FinishRemovalKeeps == ASSUME TInv, NEW c \in Client, FinishRemoval(c) PROVE TInv'
  <1>0. PICK w : w = op[c].worker
    OBVIOUS
  <1> DEFINE r == [wt[w] EXCEPT !.state = IF op[c].at = "won" THEN "removed" ELSE "removal_unknown"]
  <1>1. /\ op[c].kind = "remove" /\ op[c].at \in {"won", "lost"} /\ Inside(c)
        /\ UNCHANGED <<ended, archived, status, begun, place, files, edits>>
        /\ \/ wt[w].state = "removing" /\ Wrote(w, r) /\ Done(c)
           \/ Free(c) /\ UNCHANGED wt
    BY <1>0 DEF FinishRemoval, Inside
  <1>2. wt[w] \in Trees /\ TreeHolds(w) /\ place \in [Dirs -> Dirs]
    BY <1>0, <1>1, CallTyped
  <1>3. CASE wt[w].state = "removing" /\ Wrote(w, r) /\ Done(c)
    <2>1. r \in Trees /\ r.state \in {"removed", "removal_unknown"} /\ r.adoption = wt[w].adoption
      BY <1>2 DEF Trees, States
    <2>2. r.adoption # "adopting" /\ w \in archived
      BY <1>2, <1>3, <2>1 DEF TreeHolds
    <2> QED BY <1>0, <1>1, <1>2, <1>3, <2>1, <2>2, DoneKeeps
  <1> QED BY <1>0, <1>1, <1>3, FreeKeeps

-----------------------------------------------------------------------------
LEMMA OperationSteps == ASSUME TInv, NEW c \in Client, Operation(c) PROVE TInv'
  BY OpenKeeps, EnterKeeps, RefuseKeeps, BeginProvisionKeeps, LookKeeps, SaveKeeps, BeginAdoptionKeeps,
     BeginRemovalKeeps, BreakKeeps, ProvisionKeeps, StagingKeeps, ApplyKeeps, ProveKeeps, RemoveKeeps,
     FinishProvisionKeeps, FinishAdoptionKeeps, FinishRemovalKeeps DEF Operation, Proceed

LEMMA TreesStep == ASSUME TInv, [TreeNext]_treeVars PROVE TInv'
  <1>1. ASSUME NEW c \in Client, Operation(c) PROVE TInv'
    BY <1>1, OperationSteps
  <1>2. ASSUME NEW s \in Dirs, Turn(s) PROVE TInv'
    BY <1>2, TurnSteps
  <1>3. ASSUME NEW w \in TreeWorker, NEW hidden \in BOOLEAN, SetLifecycle(w, hidden) PROVE TInv'
    BY <1>3, LifecycleKeeps
  <1>4. ASSUME NEW p \in Dirs, NEW f \in File, Edit(p, f, "user") PROVE TInv'
    BY <1>4, EditKeeps DEF Content
  <1>5. ASSUME TeamEnds PROVE TInv'
    BY <1>5, TeamEndKeeps
  <1>6. ASSUME RestartTrees PROVE TInv'
    BY <1>6, RestartKeeps
  <1>7. ASSUME UNCHANGED treeVars PROVE TInv'
    BY <1>7 DEF treeVars, TInv, TreesTyped, TurnsBegan, TreeHolds, CallHolds, Inside, At
  <1> QED BY <1>1, <1>2, <1>3, <1>4, <1>5, <1>6, <1>7 DEF TreeNext

\* The inductive invariant of worktrees and the calls on them, for any workers,
\* clients, files and edits.
THEOREM WorktreeInvariant == TreeSpec => []TInv
  <1>1. TreeInit => TInv
    BY TreesStart
  <1>2. TInv /\ [TreeNext]_treeVars => TInv'
    BY TreesStep
  <1> QED BY <1>1, <1>2, PTL DEF TreeSpec

-----------------------------------------------------------------------------
(* What a step may never do.  Only edits and four steps of a call touch    *)
(* files, and of these only one touches the shared workspace.              *)
FileStep(c) == \/ \E ok \in BOOLEAN : Provision(c, ok)
               \/ \E f \in File : Apply(c, f)
               \/ Remove(c)

LEMMA FilesMove ==
  ASSUME TInv, [TreeNext]_treeVars
  PROVE  \/ UNCHANGED files
         \/ edits' = edits + 1 /\ \E p \in Dirs, f \in File, by \in Content : Edit(p, f, by)
         \/ \E c \in Client : FileStep(c)
  <1>1. ASSUME NEW s \in Dirs, NEW f \in File, Work(s, f)
        PROVE  edits' = edits + 1 /\ \E p \in Dirs, g \in File, by \in Content : Edit(p, g, by)
    <2>1. place[s] \in Dirs /\ "turn" \in Content
      BY DEF TInv, TreesTyped, Content
    <2> QED BY <1>1, <2>1, EditKeeps DEF Work
  <1>2. ASSUME NEW s \in Dirs, Turn(s) PROVE UNCHANGED files \/ \E f \in File : Work(s, f)
    BY <1>2 DEF Turn, BeginTurn, ResumeTurn, Execute, EndTurn, Cancel
  <1>3. ASSUME NEW c \in Client, Operation(c) PROVE UNCHANGED files \/ FileStep(c)
    BY <1>3 DEF Operation, Proceed, FileStep, Open, Enter, Refuse, BeginProvision, Look, SaveEvidence, SaveReview,
       BeginAdoption, BeginRemoval, Break, Stage, Prove, FinishProvision, FinishAdoption, FinishRemoval
  <1>4. ASSUME NEW p \in Dirs, NEW f \in File, Edit(p, f, "user")
        PROVE  edits' = edits + 1 /\ \E q \in Dirs, g \in File, by \in Content : Edit(q, g, by)
    BY <1>4 DEF Edit, Content
  <1>5. (\E w \in TreeWorker, hidden \in BOOLEAN : SetLifecycle(w, hidden)) \/ TeamEnds \/ RestartTrees \/ UNCHANGED treeVars
          => UNCHANGED files
    BY DEF SetLifecycle, TeamEnds, RestartTrees, treeVars
  <1> QED BY <1>1, <1>2, <1>3, <1>4, <1>5 DEF TreeNext

LEMMA EditsStay == ASSUME TInv, [TreeNext]_treeVars PROVE EditsAreKept
  <1>1. ASSUME NEW c \in Client, FileStep(c), NEW f \in File, files[Lead][f] = "user" PROVE files'[Lead][f] = "user"
    <2>1. /\ op[c].at # "idle" /\ op[c].worker \in TreeWorker /\ op[c].worker # Lead
          /\ Lead \in Dirs /\ files \in [Dirs -> Snapshot]
      BY <1>1, CallTyped, WorktreeAssumption DEF FileStep, Provision, Apply, Remove, At
    <2>2. ASSUME NEW ok \in BOOLEAN, Provision(c, ok) PROVE files'[Lead] = files[Lead]
      BY <2>1, <2>2 DEF Provision
    <2>3. ASSUME Remove(c) PROVE files'[Lead] = files[Lead]
      BY <2>1, <2>3 DEF Remove
    <2>4. ASSUME NEW g \in File, Apply(c, g) PROVE files'[Lead][f] = files[Lead][f]
      <3>1. CASE UNCHANGED files
        BY <3>1
      <3>2. CASE files[Lead][g] = "base" /\ files' = [files EXCEPT ![Lead][g] = wt[op[c].worker].evidence[g]]
        <4>1. f # g /\ files[Lead] \in Snapshot
          BY <1>1, <2>1, <3>2
        <4> QED BY <2>1, <3>2, <4>1 DEF Snapshot
      <3> QED BY <2>4, <3>1, <3>2 DEF Apply, Unchanged
    <2> QED BY <1>1, <2>2, <2>3, <2>4 DEF FileStep
  <1> QED BY <1>1, FilesMove DEF EditsAreKept

LEMMA AdoptionIsShown == ASSUME TInv, [TreeNext]_treeVars PROVE AdoptionIsExact
  <1> SUFFICES ASSUME NEW c \in Client, At(c, "adopt", "apply"), NEW f \in File,
                      files'[Lead][f] # files[Lead][f], edits' = edits
               PROVE  files'[Lead][f] = op[c].shown[f]
    BY DEF AdoptionIsExact
  <1>1. edits' # edits + 1
    BY DEF TInv, TreesTyped
  <1>2. PICK d \in Client : FileStep(d)
    BY <1>1, FilesMove
  <1>3. Inside(c) /\ Inside(d)
    BY <1>2 DEF FileStep, Provision, Apply, Remove, At, Inside
  <1>4. d = c
    BY <1>3, OneInside
  <1>5. PICK g \in File : Apply(c, g)
    BY <1>2, <1>4 DEF FileStep, Provision, Remove, At
  <1>6. files' = [files EXCEPT ![Lead][g] = wt[op[c].worker].evidence[g]]
    BY <1>5 DEF Apply
  <1>7. Lead \in Dirs /\ files \in [Dirs -> Snapshot] /\ wt[op[c].worker].evidence = op[c].shown
    BY CallTyped DEF CallHolds, At
  <1>8. files[Lead] \in Snapshot
    BY <1>7
  <1> QED BY <1>6, <1>7, <1>8 DEF Snapshot

LEMMA RemovalIsReviewed == ASSUME TInv, [TreeNext]_treeVars PROVE RemovalIsExact
  <1> SUFFICES ASSUME NEW c \in Client, At(c, "remove", "work"), files'[op[c].worker] = Gone, files[op[c].worker] # Gone
               PROVE  files[op[c].worker] = op[c].shown
    BY DEF RemovalIsExact
  <1>1. /\ op[c].worker \in TreeWorker /\ op[c].worker \in Dirs /\ op[c].worker # Lead
        /\ wt[op[c].worker].removal = op[c].shown /\ files \in [Dirs -> Snapshot]
    BY CallTyped, WorktreeAssumption DEF CallHolds, At
  <1>2. ASSUME NEW p \in Dirs, NEW f \in File, NEW by \in Content, Edit(p, f, by) PROVE FALSE
    <2>1. files' = [files EXCEPT ![p] = [files[p] EXCEPT ![f] = by]]
      BY <1>2 DEF Edit
    <2>2. [files[p] EXCEPT ![f] = by] # Gone
      BY <1>1, WrittenIsThere
    <2> QED BY <1>1, <2>1, <2>2
  <1>3. PICK d \in Client : FileStep(d)
    BY <1>2, FilesMove
  <1>4. Inside(c) /\ Inside(d)
    BY <1>3 DEF FileStep, Provision, Apply, Remove, At, Inside
  <1>5. d = c
    BY <1>4, OneInside
  <1>6. Remove(c)
    BY <1>3, <1>5 DEF FileStep, Provision, Apply, At
  <1>7. files[op[c].worker] = wt[op[c].worker].removal
    BY <1>6 DEF Remove, AsReviewed
  <1> QED BY <1>1, <1>7

\* Only the transactions of a call and the recovery write rows.
LEMMA RowsMove ==
  ASSUME TInv, [TreeNext]_treeVars
  PROVE  \/ UNCHANGED <<wt, place>>
         \/ RestartTrees
         \/ \E c \in Client : \/ BeginProvision(c) \/ FinishProvision(c) \/ SaveEvidence(c) \/ SaveReview(c)
                              \/ BeginAdoption(c) \/ FinishAdoption(c) \/ BeginRemoval(c) \/ FinishRemoval(c)
  <1>1. ASSUME NEW s \in Dirs, Turn(s) PROVE UNCHANGED <<wt, place>>
    BY <1>1 DEF Turn, BeginTurn, ResumeTurn, Execute, EndTurn, Cancel, Work, Edit
  <1>2. ASSUME NEW c \in Client, Operation(c)
        PROVE  \/ UNCHANGED <<wt, place>>
               \/ BeginProvision(c) \/ FinishProvision(c) \/ SaveEvidence(c) \/ SaveReview(c)
               \/ BeginAdoption(c) \/ FinishAdoption(c) \/ BeginRemoval(c) \/ FinishRemoval(c)
    BY <1>2 DEF Operation, Proceed, Open, Enter, Refuse, Look, Break, Provision, Stage, Apply, Prove, Remove
  <1>3. ASSUME NEW p \in Dirs, NEW f \in File, Edit(p, f, "user") PROVE UNCHANGED <<wt, place>>
    BY <1>3 DEF Edit
  <1>4. (\E w \in TreeWorker, hidden \in BOOLEAN : SetLifecycle(w, hidden)) \/ TeamEnds \/ UNCHANGED treeVars
          => UNCHANGED <<wt, place>>
    BY DEF SetLifecycle, TeamEnds, treeVars
  <1> QED BY <1>1, <1>2, <1>3, <1>4 DEF TreeNext

LEMMA DirectoryStays == ASSUME TInv, [TreeNext]_treeVars PROVE DirectoryIsFinal
  <1>0. place \in [Dirs -> Dirs] /\ begun \subseteq Dirs
    BY DEF TInv, TreesTyped
  <1>1. ASSUME NEW c \in Client, FinishProvision(c), NEW s \in begun PROVE place'[s] = place[s]
    <2>1. op[c].worker \in TreeWorker
      BY <1>1, CallTyped DEF FinishProvision
    <2>2. CASE UNCHANGED place
      BY <2>2
    <2>3. CASE wt[op[c].worker].state = "provisioning" /\ \E p : place' = [place EXCEPT ![op[c].worker] = p]
      <3>1. op[c].worker \notin begun
        BY <2>1, <2>3 DEF TInv, TreeHolds
      <3> QED BY <1>0, <1>1, <2>3, <3>1
    <2> QED BY <1>1, <2>2, <2>3 DEF FinishProvision
  <1>2. ASSUME NEW c \in Client, ~FinishProvision(c),
               \/ BeginProvision(c) \/ SaveEvidence(c) \/ SaveReview(c) \/ BeginAdoption(c) \/ FinishAdoption(c)
               \/ BeginRemoval(c) \/ FinishRemoval(c)
        PROVE  UNCHANGED place
    BY <1>2 DEF BeginProvision, SaveEvidence, SaveReview, BeginAdoption, FinishAdoption, BeginRemoval, FinishRemoval
  <1>3. RestartTrees => UNCHANGED place
    BY DEF RestartTrees
  <1> QED BY <1>1, <1>2, <1>3, RowsMove DEF DirectoryIsFinal

\* What may become of a row.
GoesTo(r, x) ==
    /\ r.adoption # "" => x.adoption # ""
    /\ r.adoption \in {"applied", "unknown"} => x.adoption = r.adoption
    /\ r.state \notin {"none", "provisioning", "ready"} => x.state # "ready"
    /\ r.state # "none" => x.state # "none"

LEMMA RowGoesOn ==
  ASSUME TInv, NEW c \in Client,
         \/ BeginProvision(c) \/ FinishProvision(c) \/ SaveEvidence(c) \/ SaveReview(c)
         \/ BeginAdoption(c) \/ FinishAdoption(c) \/ BeginRemoval(c) \/ FinishRemoval(c),
         NEW w \in TreeWorker
  PROVE  GoesTo(wt[w], wt'[w])
  <1>0. /\ wt \in [TreeWorker -> Trees] /\ wt[w] \in Trees /\ TreeHolds(w) /\ op[c] \in Calls
        /\ GoesTo(wt[w], wt[w])
    BY DEF TInv, TreesTyped, GoesTo
  <1>1. CASE UNCHANGED wt
    BY <1>0, <1>1
  <1>2. CASE BeginProvision(c)
    <2>1. wt[op[c].worker].state = "none" /\ wt' = [wt EXCEPT ![op[c].worker] = [NoTree EXCEPT !.state = "provisioning"]]
      BY <1>2 DEF BeginProvision, Isolable, Wrote
    <2>2. [NoTree EXCEPT !.state = "provisioning"].state = "provisioning"
      BY DEF NoTree
    <2>3. CASE w = op[c].worker
      BY <1>0, <2>1, <2>2, <2>3 DEF TreeHolds, GoesTo
    <2> QED BY <1>0, <2>1, <2>3
  <1>3. CASE FinishProvision(c) /\ wt' # wt
    <2>1. /\ wt[op[c].worker].state = "provisioning"
          /\ \E x \in {"ready", "provision_failed"} : wt' = [wt EXCEPT ![op[c].worker] = [wt[op[c].worker] EXCEPT !.state = x]]
      BY <1>3 DEF FinishProvision, Wrote
    <2> QED BY <1>0, <2>1 DEF Trees, GoesTo
  <1>4. CASE SaveEvidence(c) \/ SaveReview(c)
    <2>1. \/ wt' = [wt EXCEPT ![op[c].worker] = [wt[op[c].worker] EXCEPT !.evidence = op[c].shown]]
          \/ wt' = [wt EXCEPT ![op[c].worker] = [wt[op[c].worker] EXCEPT !.removal = op[c].shown]]
      BY <1>4 DEF SaveEvidence, SaveReview, Wrote
    <2>2. PICK r : (r = [wt[op[c].worker] EXCEPT !.evidence = op[c].shown] \/ r = [wt[op[c].worker] EXCEPT !.removal = op[c].shown])
                   /\ wt' = [wt EXCEPT ![op[c].worker] = r]
      BY <2>1
    <2>3. CASE w = op[c].worker
      <3>1. wt'[w] = r /\ r.state = wt[w].state /\ r.adoption = wt[w].adoption
        BY <1>0, <2>2, <2>3 DEF Trees
      <3> QED BY <3>1 DEF GoesTo
    <2>4. CASE w # op[c].worker
      BY <1>0, <2>2, <2>4
    <2> QED BY <2>3, <2>4
  <1>5. CASE BeginAdoption(c)
    <2>1. PICK r : r = [wt[op[c].worker] EXCEPT !.adoption = "adopting"] /\ wt' = [wt EXCEPT ![op[c].worker] = r]
      BY <1>5 DEF BeginAdoption, Wrote
    <2>2. CASE w = op[c].worker
      <3>1. wt[w].adoption = ""
        BY <1>5, <2>2 DEF BeginAdoption, Adoptable
      <3>2. wt'[w] = r /\ r.state = wt[w].state /\ r.adoption = "adopting"
        BY <1>0, <2>1, <2>2 DEF Trees
      <3> QED BY <3>1, <3>2 DEF GoesTo
    <2>3. CASE w # op[c].worker
      BY <1>0, <2>1, <2>3
    <2> QED BY <2>2, <2>3
  <1>6. CASE FinishAdoption(c) /\ wt' # wt
    <2>1. /\ wt[op[c].worker].adoption = "adopting"
          /\ \E x \in {"applied", "unknown"} : wt' = [wt EXCEPT ![op[c].worker] = [wt[op[c].worker] EXCEPT !.adoption = x]]
      BY <1>6 DEF FinishAdoption, Wrote
    <2>2. PICK x \in {"applied", "unknown"} :
            wt' = [wt EXCEPT ![op[c].worker] = [wt[op[c].worker] EXCEPT !.adoption = x]]
      BY <2>1
    <2>0. PICK r : r = [wt[op[c].worker] EXCEPT !.adoption = x]
      OBVIOUS
    <2>3. CASE w = op[c].worker
      <3>1. wt'[w] = r /\ r.state = wt[w].state /\ r.adoption = x /\ wt[w].adoption = "adopting"
        BY <1>0, <2>0, <2>1, <2>2, <2>3 DEF Trees
      <3> QED BY <2>2, <3>1 DEF GoesTo
    <2>4. CASE w # op[c].worker
      BY <1>0, <2>2, <2>4
    <2> QED BY <2>3, <2>4
  <1>7. CASE BeginRemoval(c)
    <2>1. PICK r : r = [wt[op[c].worker] EXCEPT !.state = "removing"] /\ wt' = [wt EXCEPT ![op[c].worker] = r]
      BY <1>7 DEF BeginRemoval, Wrote
    <2>2. CASE w = op[c].worker
      <3>1. wt'[w] = r /\ r.state = "removing" /\ r.adoption = wt[w].adoption
        BY <1>0, <2>1, <2>2 DEF Trees
      <3> QED BY <3>1 DEF GoesTo
    <2>3. CASE w # op[c].worker
      BY <1>0, <2>1, <2>3
    <2> QED BY <2>2, <2>3
  <1>8. CASE FinishRemoval(c) /\ wt' # wt
    <2>1. \E x \in {"removed", "removal_unknown"} : wt' = [wt EXCEPT ![op[c].worker] = [wt[op[c].worker] EXCEPT !.state = x]]
      BY <1>8 DEF FinishRemoval, Wrote
    <2> QED BY <1>0, <2>1 DEF Trees, GoesTo
  <1> QED BY <1>1, <1>2, <1>3, <1>4, <1>5, <1>6, <1>7, <1>8

LEMMA NoReplay == ASSUME TInv, [TreeNext]_treeVars PROVE NothingIsReplayed
  <1>1. ASSUME RestartTrees, NEW w \in TreeWorker PROVE GoesTo(wt[w], wt'[w])
    <2>1. wt[w] \in Trees /\ wt'[w] = RecoveredTree(wt[w])
      BY <1>1 DEF RestartTrees, TInv, TreesTyped
    <2> QED BY <2>1 DEF RecoveredTree, Trees, States, GoesTo
  <1>2. UNCHANGED <<wt, place>> => \A w \in TreeWorker : GoesTo(wt[w], wt'[w])
    BY DEF GoesTo
  <1>3. \A w \in TreeWorker : GoesTo(wt[w], wt'[w])
    BY <1>1, <1>2, RowGoesOn, RowsMove
  <1> QED BY <1>3 DEF GoesTo, NothingIsReplayed

\* Adoption and removal write what their user was shown and no edit of the user
\* is lost to them; neither is repeated after a crash; a session with a history
\* stays in its directory (Adopt, RemoveReviewed and the transactions of
\* sqlite/worktree.go), for any workers, clients, files and edits.
THEOREM WorktreeFilesAreKept == TreeSpec => FilesAreKept
  <1>1. TInv => WorktreeTypeOK /\ RetiredStaysArchived
    BY DEF TInv, TreesTyped, TreeHolds, Trees, States, WorktreeTypeOK, RetiredStaysArchived, Retired, Ready
  <1>2. TInv /\ [TreeNext]_treeVars =>
          [EditsAreKept /\ AdoptionIsExact /\ RemovalIsExact /\ DirectoryIsFinal /\ NothingIsReplayed]_treeVars
    BY EditsStay, AdoptionIsShown, RemovalIsReviewed, DirectoryStays, NoReplay
  <1> QED BY <1>1, <1>2, WorktreeInvariant, PTL DEF TreeSpec, FilesAreKept
=============================================================================
