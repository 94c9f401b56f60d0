--------------------------- MODULE HubStoreProofs ---------------------------
(***************************************************************************)
(* Proofs about HubStore: for any number of sessions, routes, turns and    *)
(* attempts, the rows of the product database agree with each other after  *)
(* every transaction.                                                      *)
(*                                                                         *)
(* A transaction does one of five things to the rows of a session: nothing *)
(* (Same), open an attempt (Opens), record an event (Notes), settle the    *)
(* running turn (Settles), or, with nothing running, change the session,   *)
(* its branches or its waiting turn (Rearranges).  Each of them preserves  *)
(* the invariant of a session, and each action is shown to be one of them. *)
(***************************************************************************)
EXTENDS HubStore, FiniteSetTheorems, TLAPS

USE DEF TurnNumber, AttemptNumber, Status, Outcome, Live, Checkpoint, NativeOrNone

-----------------------------------------------------------------------------
(* The inductive invariant.                                                *)

\* The number of branches exists because branches are created one at a time,
\* not because there are finitely many routes.
Budgeted(s) == IsFiniteSet(Branches(s)) /\ Cardinality(Branches(s)) <= MaxBranch

\* The foreign keys: every attempt belongs to a turn and to a branch, and the
\* active attempt of a turn is the latest one of that turn.
Linked(s) ==
    /\ IF Exists(s) THEN session[s].active \in Route ELSE Branches(s) = {}
    /\ session[s].status \in Live => session[s].turns > 0
    /\ \A n \in TurnNumber : n <= session[s].turns =>
         /\ turn[s][n].active \in 1..session[s].attempts
         /\ attempt[s][turn[s][n].active].turn = n
    /\ \A k \in AttemptNumber : k <= session[s].attempts =>
         /\ attempt[s][k].turn \in 1..session[s].turns
         /\ attempt[s][k].branch \in Route
         /\ k <= turn[s][attempt[s][k].turn].active
    /\ \A k \in AttemptNumber : k > session[s].attempts =>
         attempt[s][k].turn = 0 /\ attempt[s][k].native = NoNative

\* A live turn is on the active branch.
OnActive(s) ==
    \A n \in TurnNumber : turn[s][n].status \in Live =>
      attempt[s][turn[s][n].active].branch = session[s].active

\* A waiting attempt has its receipt, and a waiting turn its waiting attempt.
Receipted(s) ==
    /\ \A k \in AttemptNumber :
         attempt[s][k].status = "waiting" => HasReceipt(attempt[s][k]) /\ ~attempt[s][k].error
    /\ \A n \in TurnNumber :
         turn[s][n].status = "waiting" => attempt[s][turn[s][n].active].status = "waiting"

Exclusive(s) ==
    \A k \in AttemptNumber : attempt[s][k].status = "running" => OwnsSession(s, k)

RealSuccess(s) ==
    \A n \in TurnNumber :
      turn[s][n].status = "completed" => attempt[s][turn[s][n].active].status = "completed"

SafeReplay(s) ==
    \A j \in AttemptNumber, k \in AttemptNumber :
      j < k /\ attempt[s][k].turn # 0 /\ attempt[s][j].turn = attempt[s][k].turn
        => attempt[s][j].status = "waiting" \/ Harmless(attempt[s][j])

SameNative(s) ==
    \A k \in AttemptNumber :
      attempt[s][k].native # NoNative =>
        attempt[s][k].native = branch[s][attempt[s][k].branch].native

SInv(s) ==
    /\ Numbered(s) /\ Budgeted(s) /\ Linked(s) /\ OnActive(s) /\ Receipted(s)
    /\ MatchesTurn(s) /\ Exclusive(s) /\ RealSuccess(s) /\ SafeReplay(s) /\ SameNative(s)

IInv == RowTypes /\ \A s \in Session : SInv(s)

-----------------------------------------------------------------------------
(* What a transaction may do to the rows of one session.                   *)

Same(s) == UNCHANGED <<session[s], branch[s], turn[s], attempt[s]>>

\* Nothing of s is executing.
Quiet(s) == \A k \in AttemptNumber : attempt[s][k].status # "running"

KeepsBudget(s) ==
    \/ Branches(s)' = Branches(s)
    \/ \E r \in Route : MaySelect(s, r) /\ Branches(s)' = Branches(s) \cup {r}

Opens(s, n, r, k) ==
    /\ Quiet(s) /\ KeepsBudget(s) /\ Exists(s)
    /\ \A m \in TurnNumber : turn[s][m].status \in Live => m = n
    /\ \/ n = session[s].turns + 1
       \/ /\ n = session[s].turns /\ turn[s][n].status \in Live
          /\ \/ attempt[s][turn[s][n].active].status = "waiting"
             \/ Harmless(attempt[s][turn[s][n].active])
    /\ k = session[s].attempts + 1
    /\ session'[s] = [status |-> "running", active |-> r, turns |-> n, attempts |-> k]
    /\ \A m \in TurnNumber :
         turn'[s][m] = IF m = n THEN [status |-> "running", active |-> k] ELSE turn[s][m]
    /\ \A j \in AttemptNumber : j # k => attempt'[s][j] = attempt[s][j]
    /\ attempt'[s][k].turn = n /\ attempt'[s][k].branch = r
    /\ attempt'[s][k].native = branch[s][r].native
    /\ attempt'[s][k].status = "running"
    /\ \A q \in Route : branch'[s][q].native = branch[s][q].native

\* Event e of attempt k is recorded.
Notes(s, k, e) ==
    LET a == attempt[s][k]
        b == attempt'[s][k] IN
    /\ a.status = "running" /\ b.status \in {"running"} \cup Outcome
    /\ b.turn = a.turn /\ b.branch = a.branch
    /\ b.native = NativeAfter(s, k, e)
    /\ b.status = "waiting" => HasReceipt(b) /\ ~b.error
    /\ NamesNative(e) => branch[s][a.branch].native \in {NoNative, e.native}
    /\ \A j \in AttemptNumber : j # k => attempt'[s][j] = attempt[s][j]
    /\ \A q \in Route :
         /\ branch'[s][q].exists = branch[s][q].exists
         /\ branch'[s][q].native = IF q = a.branch /\ NamesNative(e) THEN e.native
                                                                     ELSE branch[s][q].native
    /\ session'[s] = session[s] /\ turn'[s] = turn[s]

\* The running turn n ends with outcome o, and with it its attempt k.
Settles(s, n, k, o) ==
    /\ turn[s][n].status = "running" /\ k = turn[s][n].active
    /\ o \in {"completed", "waiting"} => attempt[s][k].status = o
    /\ \A j \in AttemptNumber : j # k => attempt'[s][j] = attempt[s][j]
    /\ \/ attempt[s][k].status # "running" /\ attempt'[s][k] = attempt[s][k]
       \/ /\ attempt[s][k].status = "running"
          /\ attempt'[s][k].status = o
          /\ attempt'[s][k].turn = attempt[s][k].turn
          /\ attempt'[s][k].branch = attempt[s][k].branch
          /\ attempt'[s][k].native = attempt[s][k].native
    /\ \A m \in TurnNumber :
         turn'[s][m] = IF m = n THEN [status |-> o, active |-> k] ELSE turn[s][m]
    /\ session'[s] = [status |-> o, active |-> session[s].active,
                      turns |-> session[s].turns, attempts |-> session[s].attempts]
    /\ branch'[s] = branch[s]

\* The session of a turn that is not running is created, rerouted, bound, or
\* its waiting turn is interrupted.
Rearranges(s) ==
    /\ KeepsBudget(s)
    /\ session[s].status # "running"
    /\ session'[s].turns = session[s].turns /\ session'[s].attempts = session[s].attempts
    /\ session'[s].active \in Route
    /\ session'[s].status \in Outcome \ Live
    /\ attempt'[s] = attempt[s]
    /\ \A q \in Route :
         branch[s][q].native # NoNative => branch'[s][q].native = branch[s][q].native
    /\ \/ /\ turn'[s] = turn[s]
          /\ session'[s].status = session[s].status \/ ~Exists(s)
       \/ LET n == session[s].turns IN
          /\ turn[s][n].status = "waiting"
          /\ \A m \in TurnNumber :
               turn'[s][m] = IF m = n THEN [status |-> "interrupted", active |-> turn[s][n].active]
                                      ELSE turn[s][m]
          /\ session'[s].status = "interrupted"

-----------------------------------------------------------------------------
(* Each of them preserves the invariant of the session.                    *)

\* Rows that a transaction does not touch keep their invariant.
LEMMA SameKeeps ==
    ASSUME NEW s \in Session, SInv(s), Same(s)
    PROVE  SInv(s)'
BY DEF SInv, Same, Numbered, Budgeted, Branches, Linked, Exists, OnActive, Receipted,
       HasReceipt, MatchesTurn, Exclusive, OwnsSession, RealSuccess, SafeReplay,
       Harmless, SameNative

\* The budget of branches: selectBranch checks it before it inserts.
LEMMA BudgetKept ==
    ASSUME NEW s \in Session, Budgeted(s), KeepsBudget(s)
    PROVE  Budgeted(s)'
<1>1. CASE Branches(s)' = Branches(s)
  BY <1>1 DEF Budgeted
<1>2. ASSUME NEW r \in Route, MaySelect(s, r), Branches(s)' = Branches(s) \cup {r}
      PROVE  Budgeted(s)'
  <2>1. IsFiniteSet(Branches(s)')
    BY <1>2, FS_AddElement DEF Budgeted
  <2>2. CASE r \in Branches(s)
    <3>1. Branches(s)' = Branches(s)
      BY <1>2, <2>2
    <3> QED
      BY <3>1 DEF Budgeted
  <2>3. CASE r \notin Branches(s)
    <3>1. Cardinality(Branches(s)) < MaxBranch
      BY <1>2, <2>3 DEF MaySelect
    <3>2. Cardinality(Branches(s)') = Cardinality(Branches(s)) + 1
      BY <1>2, <2>3, FS_AddElement DEF Budgeted
    <3>3. Cardinality(Branches(s)) \in Nat
      BY FS_CardinalityType DEF Budgeted
    <3> QED
      BY <2>1, <3>1, <3>2, <3>3, BoundAssumption DEF Budgeted
  <2> QED
    BY <2>2, <2>3
<1> QED
  BY <1>1, <1>2 DEF KeepsBudget

\* A new attempt is opened only behind finished ones.
LEMMA OpensKeeps ==
    ASSUME RowTypes, RowTypes', NEW s \in Session, SInv(s), NEW n \in TurnNumber,
           NEW r \in Route, NEW k \in AttemptNumber, Opens(s, n, r, k)
    PROVE  SInv(s)'
<1> DEFINE old == turn[s][n].active
<1>1. /\ session[s] \in SessionRecord /\ turn[s] \in [TurnNumber -> TurnRecord]
      /\ attempt[s] \in [AttemptNumber -> AttemptRecord]
      /\ attempt'[s] \in [AttemptNumber -> AttemptRecord]
      /\ branch[s] \in [Route -> BranchRecord]
  BY DEF RowTypes
<1>2. /\ session[s].turns \in 0..MaxTurn /\ session[s].attempts \in 0..MaxAttempt
      /\ k = session[s].attempts + 1 /\ MaxTurn \in Nat /\ MaxAttempt \in Nat
  BY <1>1, BoundAssumption DEF SessionRecord, Opens
<1>3. /\ session'[s].status = "running" /\ session'[s].active = r
      /\ session'[s].turns = n /\ session'[s].attempts = k
  BY DEF Opens
<1>4. \A m \in TurnNumber :
        /\ turn'[s][m].status = IF m = n THEN "running" ELSE turn[s][m].status
        /\ turn'[s][m].active = IF m = n THEN k ELSE turn[s][m].active
  <2>1. \A m \in TurnNumber :
          turn'[s][m] = IF m = n THEN [status |-> "running", active |-> k] ELSE turn[s][m]
    BY DEF Opens
  <2> QED
    BY <2>1
<1>5. \A j \in AttemptNumber : j # k => attempt'[s][j] = attempt[s][j]
  BY DEF Opens
<1>6. /\ attempt'[s][k].turn = n /\ attempt'[s][k].branch = r
      /\ attempt'[s][k].native = branch[s][r].native /\ attempt'[s][k].status = "running"
  BY DEF Opens
<1>7. n = session[s].turns + 1 \/ n = session[s].turns
  BY DEF Opens
<1>8. n = session[s].turns =>
        /\ old \in AttemptNumber /\ old < k /\ attempt[s][old].turn = n
        /\ attempt[s][old].status = "waiting" \/ Harmless(attempt[s][old])
  <2> SUFFICES ASSUME n = session[s].turns
               PROVE  /\ old \in AttemptNumber /\ old < k /\ attempt[s][old].turn = n
                      /\ attempt[s][old].status = "waiting" \/ Harmless(attempt[s][old])
    OBVIOUS
  <2>1. old \in 1..session[s].attempts /\ attempt[s][old].turn = n
    BY <1>2 DEF SInv, Linked
  <2>2. attempt[s][old].status = "waiting" \/ Harmless(attempt[s][old])
    BY <1>2 DEF Opens
  <2> QED
    BY <2>1, <2>2, <1>2
<1>9. \A j \in AttemptNumber : attempt[s][j].status # "running"
  BY DEF Opens, Quiet
<1>a. \A m \in TurnNumber : m # n => turn[s][m].status \notin Live
  BY DEF Opens
<1>10. Numbered(s)'
  BY <1>2, <1>3, <1>4, <1>5, <1>6, <1>7 DEF SInv, Numbered
<1>11. Budgeted(s)'
  BY BudgetKept DEF SInv, Opens
<1>12. Linked(s)'
  <2>1. Exists(s)' /\ session'[s].turns > 0
    BY <1>3 DEF Exists
  <2>2. ASSUME NEW m \in TurnNumber, m <= session'[s].turns
        PROVE  /\ turn'[s][m].active \in 1..session'[s].attempts
               /\ attempt'[s][turn'[s][m].active].turn = m
    <3>1. CASE m = n
      BY <3>1, <1>2, <1>3, <1>4, <1>6
    <3>2. CASE m # n
      <4>1. /\ turn[s][m].active \in 1..session[s].attempts
            /\ attempt[s][turn[s][m].active].turn = m
        BY <1>2, <1>3, <1>7, <2>2, <3>2 DEF SInv, Linked
      <4>2. turn[s][m].active \in AttemptNumber /\ turn[s][m].active # k
        BY <4>1, <1>2
      <4> QED
        BY <3>2, <4>1, <4>2, <1>2, <1>3, <1>4, <1>5
    <3> QED
      BY <3>1, <3>2
  <2>3. ASSUME NEW j \in AttemptNumber, j <= session'[s].attempts
        PROVE  /\ attempt'[s][j].turn \in 1..session'[s].turns
               /\ attempt'[s][j].branch \in Route
               /\ j <= turn'[s][attempt'[s][j].turn].active
    <3>1. CASE j = k
      BY <3>1, <1>2, <1>3, <1>4, <1>6
    <3>2. CASE j # k
      <4>1. /\ attempt[s][j].turn \in 1..session[s].turns /\ attempt[s][j].branch \in Route
            /\ j <= turn[s][attempt[s][j].turn].active
        BY <1>2, <1>3, <2>3, <3>2 DEF SInv, Linked
      <4>2. /\ attempt'[s][j] = attempt[s][j] /\ attempt[s][j].turn \in TurnNumber
            /\ attempt[s][j].turn \in 1..n /\ j <= k
        BY <3>2, <4>1, <1>2, <1>3, <1>5, <1>7, <2>3
      <4>3. j <= turn'[s][attempt[s][j].turn].active
        BY <4>1, <4>2, <1>4
      <4> QED
        BY <4>1, <4>2, <4>3, <1>3
    <3> QED
      BY <3>1, <3>2
  <2>4. ASSUME NEW j \in AttemptNumber, j > session'[s].attempts
        PROVE  attempt'[s][j].turn = 0 /\ attempt'[s][j].native = NoNative
    BY <1>2, <1>3, <1>5, <2>4 DEF SInv, Linked
  <2> QED
    BY <1>3, <2>1, <2>2, <2>3, <2>4 DEF Linked
<1>13. OnActive(s)'
  BY <1>3, <1>4, <1>6, <1>a DEF OnActive
<1>14. Receipted(s)'
  BY <1>4, <1>5, <1>6, <1>a DEF SInv, Receipted, HasReceipt
<1>15. MatchesTurn(s)'
  BY <1>3, <1>4, <1>a DEF MatchesTurn
<1>16. Exclusive(s)'
  BY <1>3, <1>4, <1>5, <1>6, <1>9 DEF Exclusive, OwnsSession
<1>17. RealSuccess(s)'
  <2> SUFFICES ASSUME NEW m \in TurnNumber, turn'[s][m].status = "completed"
               PROVE  attempt'[s][turn'[s][m].active].status = "completed"
    BY DEF RealSuccess
  <2>1. m # n /\ turn[s][m].status = "completed"
    BY <1>4
  <2>2. m <= session[s].turns
    BY <2>1, <1>2 DEF SInv, Numbered
  <2>3. turn[s][m].active \in AttemptNumber /\ turn[s][m].active # k
    <3>1. turn[s][m].active \in 1..session[s].attempts
      BY <2>2 DEF SInv, Linked
    <3> QED
      BY <3>1, <1>2
  <2> QED
    BY <1>4, <1>5, <2>1, <2>3 DEF SInv, RealSuccess
<1>18. SafeReplay(s)'
  <2> SUFFICES ASSUME NEW j \in AttemptNumber, NEW i \in AttemptNumber, j < i,
                      attempt'[s][i].turn # 0, attempt'[s][j].turn = attempt'[s][i].turn
               PROVE  attempt'[s][j].status = "waiting" \/ Harmless(attempt'[s][j])
    BY DEF SafeReplay
  <2>1. CASE i # k /\ j # k
    BY <2>1, <1>5 DEF SInv, SafeReplay
  <2>2. CASE i = k
    <3>1. attempt[s][j].turn = n /\ j <= session[s].attempts /\ attempt'[s][j] = attempt[s][j]
      BY <2>2, <1>2, <1>5, <1>6
    <3>2. n = session[s].turns /\ j <= old
      BY <3>1, <1>2, <1>7 DEF SInv, Linked
    <3>3. CASE j = old
      BY <3>1, <3>2, <3>3, <1>8
    <3>4. CASE j < old
      BY <3>1, <3>2, <3>4, <1>8, BoundAssumption DEF SInv, SafeReplay
    <3> QED
      BY <3>2, <3>3, <3>4, <1>8
  <2>3. CASE j = k
    <3>1. i > session[s].attempts /\ attempt'[s][i] = attempt[s][i]
      BY <2>3, <1>2, <1>5
    <3> QED
      BY <3>1 DEF SInv, Linked
  <2> QED
    BY <2>1, <2>2, <2>3
<1>19. SameNative(s)'
  <2>1. \A q \in Route : branch'[s][q].native = branch[s][q].native
    BY DEF Opens
  <2> SUFFICES ASSUME NEW j \in AttemptNumber, attempt'[s][j].native # NoNative
               PROVE  attempt'[s][j].native = branch'[s][attempt'[s][j].branch].native
    BY DEF SameNative
  <2>2. CASE j = k
    BY <2>1, <2>2, <1>6
  <2>3. CASE j # k
    <3>1. j <= session[s].attempts /\ attempt[s][j].branch \in Route
      BY <2>3, <1>2, <1>5 DEF SInv, Linked
    <3> QED
      BY <2>1, <2>3, <3>1, <1>5 DEF SInv, SameNative
  <2> QED
    BY <2>2, <2>3
<1> QED
  BY <1>10, <1>11, <1>12, <1>13, <1>14, <1>15, <1>16, <1>17, <1>18, <1>19 DEF SInv

\* Recording an event changes the one attempt that is running.
LEMMA NotesKeeps ==
    ASSUME RowTypes, RowTypes', NEW s \in Session, SInv(s), NEW k \in AttemptNumber,
           NEW e \in Event, Notes(s, k, e)
    PROVE  SInv(s)'
<1> DEFINE a == attempt[s][k]
<1> DEFINE n == attempt[s][k].turn
<1>1. /\ session[s] \in SessionRecord /\ turn[s] \in [TurnNumber -> TurnRecord]
      /\ attempt[s] \in [AttemptNumber -> AttemptRecord]
      /\ attempt'[s] \in [AttemptNumber -> AttemptRecord]
      /\ branch[s] \in [Route -> BranchRecord]
  BY DEF RowTypes
<1>2. /\ session[s].turns \in 0..MaxTurn /\ session[s].attempts \in 0..MaxAttempt
      /\ MaxTurn \in Nat /\ MaxAttempt \in Nat
  BY <1>1, BoundAssumption DEF SessionRecord
<1>3. session'[s] = session[s] /\ turn'[s] = turn[s]
  BY DEF Notes
<1>4. \A j \in AttemptNumber : j # k => attempt'[s][j] = attempt[s][j]
  BY DEF Notes
<1>5. /\ attempt'[s][k].turn = n /\ attempt'[s][k].branch = a.branch
      /\ attempt'[s][k].native = NativeAfter(s, k, e)
      /\ attempt'[s][k].status \in {"running"} \cup Outcome
      /\ attempt'[s][k].status = "waiting" => HasReceipt(attempt'[s][k]) /\ ~attempt'[s][k].error
  BY DEF Notes
<1>6. a.status = "running" /\ k <= session[s].attempts /\ a.branch \in Route
  <2>1. a.status = "running"
    BY DEF Notes
  <2>2. k <= session[s].attempts
    BY <1>2, <2>1 DEF SInv, Numbered
  <2> QED
    BY <2>1, <2>2 DEF SInv, Linked
<1>7. /\ n = session[s].turns /\ n \in TurnNumber /\ turn[s][n].status = "running"
      /\ turn[s][n].active = k /\ a.branch = session[s].active
  <2>1. OwnsSession(s, k)
    BY <1>6 DEF SInv, Exclusive
  <2>2. n \in 1..session[s].turns
    BY <1>6 DEF SInv, Linked
  <2> QED
    BY <1>2, <2>1, <2>2 DEF OwnsSession
<1>8. \A m \in TurnNumber : m # n /\ m <= session[s].turns =>
        turn[s][m].active \in AttemptNumber /\ turn[s][m].active # k
  <2> SUFFICES ASSUME NEW m \in TurnNumber, m # n, m <= session[s].turns
               PROVE  turn[s][m].active \in AttemptNumber /\ turn[s][m].active # k
    OBVIOUS
  <2>1. /\ turn[s][m].active \in 1..session[s].attempts
        /\ attempt[s][turn[s][m].active].turn = m
    BY DEF SInv, Linked
  <2> QED
    BY <2>1, <1>2
<1>10. Numbered(s)'
  <2>1. attempt'[s][k].status # "absent"
    BY <1>5
  <2> QED
    BY <2>1, <1>2, <1>3, <1>4, <1>6 DEF SInv, Numbered
<1>11. Budgeted(s)'
  <2>1. Branches(s)' = Branches(s)
    BY DEF Notes, Branches
  <2> QED
    BY <2>1 DEF SInv, Budgeted
<1>12. Linked(s)'
  <2>1. Exists(s)' = Exists(s) /\ Branches(s)' = Branches(s)
    BY <1>3 DEF Notes, Branches, Exists
  <2>2. \A m \in TurnNumber : m <= session'[s].turns =>
          /\ turn'[s][m].active \in 1..session'[s].attempts
          /\ attempt'[s][turn'[s][m].active].turn = m
    <3> SUFFICES ASSUME NEW m \in TurnNumber, m <= session[s].turns
                 PROVE  /\ turn[s][m].active \in 1..session[s].attempts
                        /\ attempt'[s][turn[s][m].active].turn = m
      BY <1>3
    <3>1. /\ turn[s][m].active \in 1..session[s].attempts
          /\ attempt[s][turn[s][m].active].turn = m
      BY DEF SInv, Linked
    <3> QED
      BY <3>1, <1>2, <1>4, <1>5, <1>7
  <2>3. \A j \in AttemptNumber : /\ attempt'[s][j].turn = attempt[s][j].turn
                                 /\ attempt'[s][j].branch = attempt[s][j].branch
    BY <1>4, <1>5
  <2>4. \A j \in AttemptNumber : j > session[s].attempts => attempt'[s][j] = attempt[s][j]
    BY <1>2, <1>4, <1>6
  <2> QED
    BY <1>3, <2>1, <2>2, <2>3, <2>4 DEF SInv, Linked
<1>13. OnActive(s)'
  <2> SUFFICES ASSUME NEW m \in TurnNumber, turn'[s][m].status \in Live
               PROVE  attempt'[s][turn'[s][m].active].branch = session'[s].active
    BY DEF OnActive
  <2>1. m = n
    BY <1>3, <1>7 DEF SInv, MatchesTurn
  <2> QED
    BY <2>1, <1>3, <1>5, <1>7
<1>14. Receipted(s)'
  <2>1. ASSUME NEW m \in TurnNumber, turn'[s][m].status = "waiting"
        PROVE  attempt'[s][turn'[s][m].active].status = "waiting"
    <3>1. m # n /\ turn[s][m].status = "waiting" /\ m <= session[s].turns
      BY <2>1, <1>2, <1>3, <1>7 DEF SInv, Numbered
    <3> QED
      BY <3>1, <1>3, <1>4, <1>8 DEF SInv, Receipted
  <2>2. ASSUME NEW j \in AttemptNumber, attempt'[s][j].status = "waiting"
        PROVE  HasReceipt(attempt'[s][j]) /\ ~attempt'[s][j].error
    BY <2>2, <1>4, <1>5 DEF SInv, Receipted
  <2> QED
    BY <2>1, <2>2 DEF Receipted, HasReceipt
<1>15. MatchesTurn(s)'
  BY <1>3 DEF SInv, MatchesTurn
<1>16. Exclusive(s)'
  BY <1>3, <1>4, <1>5, <1>7 DEF SInv, Exclusive, OwnsSession
<1>17. RealSuccess(s)'
  <2> SUFFICES ASSUME NEW m \in TurnNumber, turn'[s][m].status = "completed"
               PROVE  attempt'[s][turn'[s][m].active].status = "completed"
    BY DEF RealSuccess
  <2>1. m # n /\ turn[s][m].status = "completed" /\ m <= session[s].turns
    BY <1>2, <1>3, <1>7 DEF SInv, Numbered
  <2> QED
    BY <2>1, <1>3, <1>4, <1>8 DEF SInv, RealSuccess
<1>18. SafeReplay(s)'
  <2> SUFFICES ASSUME NEW j \in AttemptNumber, NEW i \in AttemptNumber, j < i,
                      attempt'[s][i].turn # 0, attempt'[s][j].turn = attempt'[s][i].turn
               PROVE  attempt'[s][j].status = "waiting" \/ Harmless(attempt'[s][j])
    BY DEF SafeReplay
  <2>1. attempt[s][i].turn # 0 /\ attempt[s][j].turn = attempt[s][i].turn
    BY <1>4, <1>5
  <2>2. CASE j # k
    BY <2>1, <2>2, <1>4 DEF SInv, SafeReplay
  <2>3. CASE j = k
    <3>1. i <= session[s].attempts
      BY <2>1, <1>2 DEF SInv, Linked
    <3>2. i <= turn[s][n].active
      BY <2>1, <2>3, <3>1 DEF SInv, Linked
    <3> QED
      BY <2>3, <3>2, <1>2, <1>7
  <2> QED
    BY <2>2, <2>3
<1>19. SameNative(s)'
  <2> SUFFICES ASSUME NEW j \in AttemptNumber, attempt'[s][j].native # NoNative
               PROVE  attempt'[s][j].native = branch'[s][attempt'[s][j].branch].native
    BY DEF SameNative
  <2>1. \A q \in Route : branch'[s][q].native =
          IF q = a.branch /\ NamesNative(e) THEN e.native ELSE branch[s][q].native
    BY DEF Notes
  <2>2. CASE j = k
    BY <2>1, <2>2, <1>5, <1>6 DEF NativeAfter, SInv, SameNative
  <2>3. CASE j # k
    <3>1. j <= session[s].attempts /\ attempt[s][j].native # NoNative
      BY <2>3, <1>2, <1>4 DEF SInv, Linked
    <3>2. /\ attempt[s][j].branch \in Route
          /\ attempt[s][j].native = branch[s][attempt[s][j].branch].native
      BY <3>1 DEF SInv, Linked, SameNative
    <3>3. NamesNative(e) => branch[s][a.branch].native \in {NoNative, e.native}
      BY DEF Notes
    <3> QED
      BY <2>1, <2>3, <3>1, <3>2, <3>3, <1>4
  <2> QED
    BY <2>2, <2>3
<1> QED
  BY <1>10, <1>11, <1>12, <1>13, <1>14, <1>15, <1>16, <1>17, <1>18, <1>19 DEF SInv

\* Ending a turn ends its attempt, unless that already has its outcome.
LEMMA SettlesKeeps ==
    ASSUME RowTypes, RowTypes', NEW s \in Session, SInv(s), NEW n \in TurnNumber,
           NEW k, NEW o \in Outcome, Settles(s, n, k, o)
    PROVE  SInv(s)'
<1>1. /\ session[s] \in SessionRecord /\ turn[s] \in [TurnNumber -> TurnRecord]
      /\ attempt[s] \in [AttemptNumber -> AttemptRecord]
      /\ attempt'[s] \in [AttemptNumber -> AttemptRecord]
      /\ branch[s] \in [Route -> BranchRecord]
  BY DEF RowTypes
<1>2. /\ session[s].turns \in 0..MaxTurn /\ session[s].attempts \in 0..MaxAttempt
      /\ MaxTurn \in Nat /\ MaxAttempt \in Nat
  BY <1>1, BoundAssumption DEF SessionRecord
<1>3. /\ session'[s].status = o /\ session'[s].active = session[s].active
      /\ session'[s].turns = session[s].turns /\ session'[s].attempts = session[s].attempts
      /\ branch'[s] = branch[s]
  BY DEF Settles
<1>4. \A m \in TurnNumber :
        /\ turn'[s][m].status = IF m = n THEN o ELSE turn[s][m].status
        /\ turn'[s][m].active = turn[s][m].active
  BY DEF Settles
<1>5. \A j \in AttemptNumber : j # k => attempt'[s][j] = attempt[s][j]
  BY DEF Settles
<1>6. /\ turn[s][n].status = "running" /\ n = session[s].turns /\ k = turn[s][n].active
      /\ k \in AttemptNumber /\ k <= session[s].attempts /\ attempt[s][k].turn = n
      /\ attempt[s][k].status # "absent"
  <2>1. turn[s][n].status = "running" /\ k = turn[s][n].active
    BY DEF Settles
  <2>2. n = session[s].turns
    BY <2>1 DEF SInv, MatchesTurn
  <2>3. k \in 1..session[s].attempts /\ attempt[s][k].turn = n
    BY <2>1, <2>2, <1>2 DEF SInv, Linked
  <2>4. k \in AttemptNumber
    BY <2>3, <1>2
  <2> QED
    BY <2>1, <2>2, <2>3, <2>4, <1>2 DEF SInv, Numbered
<1>7. /\ attempt'[s][k].turn = attempt[s][k].turn
      /\ attempt'[s][k].branch = attempt[s][k].branch
      /\ attempt'[s][k].native = attempt[s][k].native
      /\ attempt'[s][k].status \in Outcome
      /\ o \in {"completed", "waiting"} => attempt'[s][k].status = o
      /\ attempt'[s][k] = attempt[s][k] \/ attempt'[s][k].status = o
      /\ attempt'[s][k].status = "waiting" => attempt'[s][k] = attempt[s][k]
  <2>1. attempt[s][k].status \in Status
    BY <1>1, <1>6 DEF AttemptRecord
  <2> QED
    BY <1>6, <2>1 DEF Settles
<1>8. \A m \in TurnNumber : m # n /\ m <= session[s].turns =>
        turn[s][m].active \in AttemptNumber /\ turn[s][m].active # k
  <2> SUFFICES ASSUME NEW m \in TurnNumber, m # n, m <= session[s].turns
               PROVE  turn[s][m].active \in AttemptNumber /\ turn[s][m].active # k
    OBVIOUS
  <2>1. /\ turn[s][m].active \in 1..session[s].attempts
        /\ attempt[s][turn[s][m].active].turn = m
    BY DEF SInv, Linked
  <2> QED
    BY <2>1, <1>2, <1>6
<1>9. \A j \in AttemptNumber : /\ attempt'[s][j].turn = attempt[s][j].turn
                               /\ attempt'[s][j].branch = attempt[s][j].branch
                               /\ attempt'[s][j].native = attempt[s][j].native
  BY <1>5, <1>7
<1>a. \A m \in TurnNumber : m # n => turn[s][m].status \notin Live
  BY <1>6 DEF SInv, MatchesTurn
<1>10. Numbered(s)'
  <2>1. \A m \in TurnNumber : turn'[s][m].status = "absent" <=> turn[s][m].status = "absent"
    BY <1>4, <1>6
  <2>2. \A j \in AttemptNumber :
          attempt'[s][j].status = "absent" <=> attempt[s][j].status = "absent"
    BY <1>5, <1>6, <1>7
  <2> QED
    BY <1>3, <2>1, <2>2 DEF SInv, Numbered
<1>11. Budgeted(s)'
  BY <1>3 DEF SInv, Budgeted, Branches
<1>12. Linked(s)'
  <2>1. session[s].turns > 0 /\ Exists(s)' /\ Exists(s)
    <3>1. session[s].status = "running" /\ session[s].turns > 0
      BY <1>2, <1>6 DEF SInv, MatchesTurn
    <3> QED
      BY <1>3, <3>1 DEF Exists
  <2>2. Branches(s)' = Branches(s)
    BY <1>3 DEF Branches
  <2> QED
    <3>1. \A m \in TurnNumber : m <= session'[s].turns =>
            /\ turn'[s][m].active \in 1..session'[s].attempts
            /\ attempt'[s][turn'[s][m].active].turn = m
      <4> SUFFICES ASSUME NEW m \in TurnNumber, m <= session[s].turns
                   PROVE  /\ turn[s][m].active \in 1..session[s].attempts
                          /\ attempt'[s][turn[s][m].active].turn = m
        BY <1>3, <1>4
      <4>1. /\ turn[s][m].active \in 1..session[s].attempts
            /\ attempt[s][turn[s][m].active].turn = m
        BY DEF SInv, Linked
      <4>2. turn[s][m].active \in AttemptNumber
        BY <4>1, <1>2
      <4> QED
        BY <4>1, <4>2, <1>9
    <3>2. \A j \in AttemptNumber : j <= session'[s].attempts =>
            /\ attempt'[s][j].turn \in 1..session'[s].turns
            /\ attempt'[s][j].branch \in Route
            /\ j <= turn'[s][attempt'[s][j].turn].active
      <4> SUFFICES ASSUME NEW j \in AttemptNumber, j <= session[s].attempts
                   PROVE  /\ attempt[s][j].turn \in 1..session[s].turns
                          /\ attempt[s][j].branch \in Route
                          /\ j <= turn'[s][attempt[s][j].turn].active
        BY <1>3, <1>9
      <4>1. /\ attempt[s][j].turn \in 1..session[s].turns
            /\ attempt[s][j].branch \in Route
            /\ j <= turn[s][attempt[s][j].turn].active
        BY DEF SInv, Linked
      <4>2. attempt[s][j].turn \in TurnNumber
        BY <4>1, <1>2
      <4> QED
        BY <4>1, <4>2, <1>4
    <3>3. \A j \in AttemptNumber : j > session'[s].attempts =>
            attempt'[s][j].turn = 0 /\ attempt'[s][j].native = NoNative
      BY <1>3, <1>9 DEF SInv, Linked
    <3>4. session'[s].active \in Route /\ session'[s].turns > 0
      BY <1>3, <2>1 DEF SInv, Linked
    <3> QED
      BY <2>1, <3>1, <3>2, <3>3, <3>4 DEF Linked
<1>13. OnActive(s)'
  <2> SUFFICES ASSUME NEW m \in TurnNumber, turn'[s][m].status \in Live
               PROVE  attempt'[s][turn'[s][m].active].branch = session'[s].active
    BY DEF OnActive
  <2>1. m = n
    BY <1>4, <1>a
  <2> QED
    BY <2>1, <1>3, <1>4, <1>6, <1>7 DEF SInv, OnActive
<1>14. Receipted(s)'
  <2>1. ASSUME NEW m \in TurnNumber, turn'[s][m].status = "waiting"
        PROVE  attempt'[s][turn'[s][m].active].status = "waiting"
    <3>1. m = n
      BY <2>1, <1>4, <1>a
    <3> QED
      BY <2>1, <3>1, <1>4, <1>6, <1>7
  <2>2. ASSUME NEW j \in AttemptNumber, attempt'[s][j].status = "waiting"
        PROVE  HasReceipt(attempt'[s][j]) /\ ~attempt'[s][j].error
    <3>1. attempt'[s][j] = attempt[s][j]
      BY <2>2, <1>5, <1>7
    <3> QED
      BY <2>2, <3>1 DEF SInv, Receipted
  <2> QED
    BY <2>1, <2>2 DEF Receipted, HasReceipt
<1>15. MatchesTurn(s)'
  BY <1>3, <1>4, <1>6, <1>a DEF MatchesTurn
<1>16. Exclusive(s)'
  <2>1. ASSUME NEW j \in AttemptNumber, attempt'[s][j].status = "running"
        PROVE  FALSE
    <3>1. j # k /\ attempt[s][j].status = "running"
      BY <2>1, <1>5, <1>7
    <3>2. attempt[s][j].turn = n /\ turn[s][n].active = j
      BY <3>1, <1>6 DEF SInv, Exclusive, OwnsSession
    <3> QED
      BY <3>1, <3>2, <1>6
  <2> QED
    BY <2>1 DEF Exclusive
<1>17. RealSuccess(s)'
  <2> SUFFICES ASSUME NEW m \in TurnNumber, turn'[s][m].status = "completed"
               PROVE  attempt'[s][turn'[s][m].active].status = "completed"
    BY DEF RealSuccess
  <2>1. CASE m = n
    BY <2>1, <1>4, <1>6, <1>7
  <2>2. CASE m # n
    <3>1. turn[s][m].status = "completed" /\ m <= session[s].turns
      BY <2>2, <1>2, <1>4 DEF SInv, Numbered
    <3> QED
      BY <2>2, <3>1, <1>4, <1>5, <1>8 DEF SInv, RealSuccess
  <2> QED
    BY <2>1, <2>2
<1>18. SafeReplay(s)'
  <2> SUFFICES ASSUME NEW j \in AttemptNumber, NEW i \in AttemptNumber, j < i,
                      attempt'[s][i].turn # 0, attempt'[s][j].turn = attempt'[s][i].turn
               PROVE  attempt'[s][j].status = "waiting" \/ Harmless(attempt'[s][j])
    BY DEF SafeReplay
  <2>1. attempt[s][i].turn # 0 /\ attempt[s][j].turn = attempt[s][i].turn
    BY <1>9
  <2>2. CASE j # k
    BY <2>1, <2>2, <1>5 DEF SInv, SafeReplay
  <2>3. CASE j = k
    <3>1. i <= session[s].attempts
      BY <2>1, <1>2 DEF SInv, Linked
    <3>2. i <= turn[s][n].active
      BY <2>1, <2>3, <3>1, <1>6 DEF SInv, Linked
    <3> QED
      BY <2>3, <3>2, <1>2, <1>6
  <2> QED
    BY <2>2, <2>3
<1>19. SameNative(s)'
  BY <1>3, <1>9 DEF SInv, SameNative
<1> QED
  BY <1>10, <1>11, <1>12, <1>13, <1>14, <1>15, <1>16, <1>17, <1>18, <1>19 DEF SInv

\* With nothing running, what is known of the attempts does not depend on
\* which branch is active.
LEMMA RearrangesKeeps ==
    ASSUME RowTypes, RowTypes', NEW s \in Session, SInv(s), Rearranges(s)
    PROVE  SInv(s)'
<1> DEFINE n == session[s].turns
<1>1. /\ session[s] \in SessionRecord /\ turn[s] \in [TurnNumber -> TurnRecord]
      /\ attempt[s] \in [AttemptNumber -> AttemptRecord]
      /\ branch[s] \in [Route -> BranchRecord]
  BY DEF RowTypes
<1>2. /\ session[s].turns \in 0..MaxTurn /\ session[s].attempts \in 0..MaxAttempt
      /\ MaxTurn \in Nat /\ MaxAttempt \in Nat
  BY <1>1, BoundAssumption DEF SessionRecord
<1>3. /\ session'[s].turns = n /\ session'[s].attempts = session[s].attempts
      /\ session'[s].active \in Route /\ session'[s].status \in Outcome \ Live
      /\ session[s].status # "running" /\ attempt'[s] = attempt[s]
  BY DEF Rearranges
<1>4. \A m \in TurnNumber :
        /\ turn'[s][m].active = turn[s][m].active
        /\ turn'[s][m].status = turn[s][m].status
             \/ (m = n /\ turn[s][m].status = "waiting" /\ turn'[s][m].status = "interrupted")
  BY DEF Rearranges
<1>5. \A m \in TurnNumber : turn'[s][m].status \notin Live
  <2> SUFFICES ASSUME NEW m \in TurnNumber, turn'[s][m].status \in Live PROVE FALSE
    OBVIOUS
  <2>1. turn[s][m].status = turn'[s][m].status /\ m = n /\ n > 0
    BY <1>2, <1>4 DEF SInv, MatchesTurn
  <2>2. session[s].status \in Live
    BY <2>1 DEF SInv, MatchesTurn
  <2> QED
    BY <2>1, <2>2, <1>3 DEF Rearranges, Exists
<1>6. \A k \in AttemptNumber : attempt[s][k].status # "running"
  <2> SUFFICES ASSUME NEW k \in AttemptNumber, attempt[s][k].status = "running" PROVE FALSE
    OBVIOUS
  <2>1. k <= session[s].attempts /\ OwnsSession(s, k)
    BY <1>2 DEF SInv, Numbered, Exclusive
  <2>2. n \in TurnNumber /\ turn[s][n].status = "running"
    BY <2>1, <1>2 DEF SInv, Linked, OwnsSession
  <2> QED
    BY <2>2, <1>2, <1>3 DEF SInv, MatchesTurn
<1>10. Numbered(s)'
  BY <1>3, <1>4 DEF SInv, Numbered
<1>11. Budgeted(s)'
  BY BudgetKept DEF SInv, Rearranges
<1>12. Linked(s)'
  <2>1. Exists(s)' /\ session'[s].status \notin Live
    BY <1>3 DEF Exists
  <2>2. \A m \in TurnNumber : m <= session'[s].turns =>
          /\ turn'[s][m].active \in 1..session'[s].attempts
          /\ attempt'[s][turn'[s][m].active].turn = m
    BY <1>3, <1>4 DEF SInv, Linked
  <2>3. \A j \in AttemptNumber : j <= session'[s].attempts =>
          /\ attempt'[s][j].turn \in 1..session'[s].turns
          /\ attempt'[s][j].branch \in Route
          /\ j <= turn'[s][attempt'[s][j].turn].active
    <3> SUFFICES ASSUME NEW j \in AttemptNumber, j <= session[s].attempts
                 PROVE  /\ attempt[s][j].turn \in 1..session[s].turns
                        /\ attempt[s][j].branch \in Route
                        /\ j <= turn'[s][attempt[s][j].turn].active
      BY <1>3
    <3>1. /\ attempt[s][j].turn \in 1..session[s].turns
          /\ attempt[s][j].branch \in Route
          /\ j <= turn[s][attempt[s][j].turn].active
      BY DEF SInv, Linked
    <3>2. attempt[s][j].turn \in TurnNumber
      BY <3>1, <1>2
    <3> QED
      BY <3>1, <3>2, <1>4
  <2>4. \A j \in AttemptNumber : j > session'[s].attempts =>
          attempt'[s][j].turn = 0 /\ attempt'[s][j].native = NoNative
    BY <1>3 DEF SInv, Linked
  <2> QED
    BY <1>3, <2>1, <2>2, <2>3, <2>4 DEF Linked
<1>13. OnActive(s)'
  BY <1>5 DEF OnActive
<1>14. Receipted(s)'
  BY <1>3, <1>5 DEF SInv, Receipted, HasReceipt
<1>15. MatchesTurn(s)'
  <2> SUFFICES ASSUME n > 0 PROVE session'[s].status = turn'[s][n].status
    BY <1>3, <1>5 DEF MatchesTurn
  <2>1. n \in TurnNumber /\ session[s].status = turn[s][n].status
    BY <1>2 DEF SInv, MatchesTurn
  <2>2. Exists(s)
    BY <2>1, <1>2 DEF SInv, Numbered, Exists
  <2>3. CASE turn'[s] = turn[s] /\ session'[s].status = session[s].status
    BY <2>1, <2>3
  <2>4. CASE turn'[s][n].status = "interrupted" /\ session'[s].status = "interrupted"
    BY <2>4
  <2> QED
    BY <2>1, <2>2, <2>3, <2>4 DEF Rearranges
<1>16. Exclusive(s)'
  BY <1>3, <1>6 DEF Exclusive
<1>17. RealSuccess(s)'
  BY <1>3, <1>4 DEF SInv, RealSuccess
<1>18. SafeReplay(s)'
  BY <1>3 DEF SInv, SafeReplay, Harmless
<1>19. SameNative(s)'
  <2> SUFFICES ASSUME NEW k \in AttemptNumber, attempt[s][k].native # NoNative
               PROVE  attempt[s][k].native = branch'[s][attempt[s][k].branch].native
    BY <1>3 DEF SameNative
  <2>1. k <= session[s].attempts
    BY <1>2 DEF SInv, Linked
  <2>2. attempt[s][k].branch \in Route
    BY <2>1 DEF SInv, Linked
  <2> QED
    BY <2>2 DEF SInv, SameNative, Rearranges
<1> QED
  BY <1>10, <1>11, <1>12, <1>13, <1>14, <1>15, <1>16, <1>17, <1>18, <1>19 DEF SInv

-----------------------------------------------------------------------------
(* What the rows have in common.                                           *)

\* Updating one row of one session keeps a table well-typed.
LEMMA UpdateTyped ==
    ASSUME NEW S, NEW T, NEW V, NEW f \in [S -> [T -> V]], NEW i \in S, NEW j, NEW v,
           j \in T => v \in V
    PROVE  [f EXCEPT ![i][j] = v] \in [S -> [T -> V]]
<1>1. [f[i] EXCEPT ![j] = v] \in [T -> V]
  OBVIOUS
<1> QED
  BY <1>1

\* Every event an adapter can report has the fields of an event.
LEMMA EventFields ==
    ASSUME NEW e \in Event
    PROVE  e \in EventType
<1>0. Blank \in EventType /\ 0 \in Checkpoint
  BY RevisionAssumption DEF Blank, EventType, Effect, FailureKind
<1>1. CASE \E r \in NativeOrNone : e = Message(r)
  BY <1>0, <1>1 DEF Message, EventType
<1>2. CASE \E n \in NativeOrNone : e = SessionStarted(n)
  BY <1>0, <1>2 DEF SessionStarted, EventType
<1>3. CASE \E n \in NativeOrNone, fx \in Effect : e = Activity(n, fx)
  BY <1>0, <1>3 DEF Activity, EventType
<1>4. CASE \E t \in Tool, fx \in Effect : e = ToolStart(t, fx)
  BY <1>0, <1>4 DEF ToolStart, EventType
<1>5. CASE \E t \in Tool : e = ToolEnd(t)
  BY <1>0, <1>5 DEF ToolEnd, EventType
<1>6. CASE \E r \in BOOLEAN, f \in FailureKind \ {"none"} : e = Error(r, f)
  BY <1>0, <1>6 DEF Error, EventType
<1>7. CASE \E o \in Outcome, w \in Checkpoint : e = Completed(o, w)
  BY <1>0, <1>7 DEF Completed, EventType
<1>8. CASE e = Malformed
  BY <1>0, <1>8 DEF Malformed, EventType
<1> QED
  BY <1>1, <1>2, <1>3, <1>4, <1>5, <1>6, <1>7, <1>8 DEF Event

\* The other sessions.
Elsewhere(s) == \A p \in Session : p # s => Same(p)

\* activate changes neither the native identities of the branches, nor their
\* watermarks, nor, but for the branch it selects, which of them exist.
LEMMA ActivatedRows ==
    ASSUME RowTypes, NEW s \in Session, NEW r \in Route
    PROVE  /\ Activated(s, r) \in [Route -> BranchRecord]
           /\ \A q \in Route :
                /\ Activated(s, r)[q].native = branch[s][q].native
                /\ Activated(s, r)[q].watermark = branch[s][q].watermark
                /\ Activated(s, r)[q].exists = (branch[s][q].exists \/ q = r)
<1>1. ASSUME NEW q \in Route
      PROVE  /\ Activated(s, r)[q] \in BranchRecord
             /\ Activated(s, r)[q].native = branch[s][q].native
             /\ Activated(s, r)[q].watermark = branch[s][q].watermark
             /\ Activated(s, r)[q].exists = (branch[s][q].exists \/ q = r)
  <2> DEFINE b == branch[s][q]
  <2>1. b \in BranchRecord
    BY DEF RowTypes
  <2>2. CASE q = r
    <3> DEFINE c == [b EXCEPT !.exists = TRUE, !.parked = FALSE]
    <3>1. Activated(s, r)[q] = c
      BY <2>2 DEF Activated
    <3> HIDE DEF b
    <3>2. c \in BranchRecord /\ c.native = b.native /\ c.watermark = b.watermark /\ c.exists = TRUE
      BY <2>1 DEF BranchRecord
    <3> QED
      BY <2>2, <3>1, <3>2 DEF b
  <2>3. CASE q # r /\ q = session[s].active
    <3> DEFINE c == [b EXCEPT !.parked = TRUE]
    <3>1. Activated(s, r)[q] = c
      BY <2>3 DEF Activated
    <3> HIDE DEF b
    <3>2. c \in BranchRecord /\ c.native = b.native /\ c.watermark = b.watermark /\ c.exists = b.exists
      BY <2>1 DEF BranchRecord
    <3>3. b.exists \in BOOLEAN
      BY <2>1 DEF BranchRecord
    <3> QED
      BY <2>3, <3>1, <3>2, <3>3 DEF b
  <2>4. CASE q # r /\ q # session[s].active
    <3>1. Activated(s, r)[q] = b
      BY <2>4 DEF Activated
    <3>2. b.exists \in BOOLEAN
      BY <2>1 DEF BranchRecord
    <3> QED
      BY <2>1, <2>4, <3>1, <3>2
  <2> QED
    BY <2>2, <2>3, <2>4
<1> QED
  BY <1>1 DEF Activated

\* The attempt that beginAttempt inserts.
LEMMA NewAttemptRow ==
    ASSUME RowTypes, NEW s \in Session, NEW n \in TurnNumber, NEW r \in Route,
           NEW h \in Handoffs(s, r), NEW cut \in BOOLEAN
    PROVE  LET a == NewAttempt(s, n, r, h, cut) IN
           /\ a \in AttemptRecord
           /\ a.turn = n /\ a.branch = r /\ a.native = branch[s][r].native
           /\ a.status = "running" /\ a.handoff = h /\ a.truncated = cut
<1> DEFINE nat == branch[s][r].native
<1> DEFINE a == [NoAttempt EXCEPT !.turn = n, !.branch = r, !.native = nat,
                                  !.status = "running", !.handoff = h, !.truncated = cut]
<1>1. NoAttempt \in AttemptRecord
  BY RevisionAssumption, BoundAssumption DEF NoAttempt, AttemptRecord, FailureKind
<1>2. nat \in NativeOrNone
  BY DEF RowTypes, BranchRecord
<1>3. h \in SUBSET TurnNumber
  BY DEF Handoffs, Unseen
<1>4. n \in 0..MaxTurn
  OBVIOUS
<1> HIDE DEF nat
<1>5. /\ a \in AttemptRecord /\ a.turn = n /\ a.branch = r /\ a.native = nat
      /\ a.status = "running" /\ a.handoff = h /\ a.truncated = cut
  BY <1>1, <1>2, <1>3, <1>4 DEF AttemptRecord
<1> QED
  BY <1>5 DEF NewAttempt, nat

\* Opening an attempt: its row.
LEMMA OpenedAttempt ==
    ASSUME RowTypes, NEW s \in Session, NEW n \in TurnNumber, NEW r \in Route,
           NEW h \in Handoffs(s, r), NEW cut \in BOOLEAN,
           OpenAttempt(s, n, r, h, cut), NEW k, k = session[s].attempts + 1
    PROVE  /\ attempt' \in [Session -> [AttemptNumber -> AttemptRecord]]
           /\ k \in AttemptNumber
           /\ \A j \in AttemptNumber : j # k => attempt'[s][j] = attempt[s][j]
           /\ attempt'[s][k].turn = n /\ attempt'[s][k].branch = r
           /\ attempt'[s][k].native = branch[s][r].native
           /\ attempt'[s][k].status = "running"
           /\ attempt'[s][k].handoff = h /\ attempt'[s][k].truncated = cut
           /\ \A p \in Session : p # s => attempt'[p] = attempt[p]
<1> DEFINE a == NewAttempt(s, n, r, h, cut)
<1>1. k \in AttemptNumber /\ attempt' = [attempt EXCEPT ![s][k] = a]
  BY DEF OpenAttempt
<1>2. /\ a \in AttemptRecord
      /\ a.turn = n /\ a.branch = r /\ a.native = branch[s][r].native /\ a.status = "running"
      /\ a.handoff = h /\ a.truncated = cut
  BY NewAttemptRow
<1>3. attempt \in [Session -> [AttemptNumber -> AttemptRecord]]
  BY DEF RowTypes
<1> HIDE DEF a
<1>4. attempt' \in [Session -> [AttemptNumber -> AttemptRecord]]
  BY <1>1, <1>2, <1>3, UpdateTyped
<1>5. /\ \A j \in AttemptNumber : attempt'[s][j] = IF j = k THEN a ELSE attempt[s][j]
      /\ \A p \in Session : p # s => attempt'[p] = attempt[p]
  BY <1>1, <1>3
<1> QED
  BY <1>1, <1>2, <1>4, <1>5

\* Its turn, which points at it.
LEMMA OpenAttemptRows ==
    ASSUME RowTypes, NEW s \in Session, NEW n \in TurnNumber, NEW r \in Route,
           NEW h \in Handoffs(s, r), NEW cut \in BOOLEAN,
           OpenAttempt(s, n, r, h, cut)
    PROVE  LET k == session[s].attempts + 1 IN
           /\ attempt' \in [Session -> [AttemptNumber -> AttemptRecord]]
           /\ turn'    \in [Session -> [TurnNumber -> TurnRecord]]
           /\ k \in AttemptNumber /\ k \in 0..MaxAttempt
           /\ \A m \in TurnNumber :
                turn'[s][m] = IF m = n THEN [status |-> "running", active |-> k] ELSE turn[s][m]
           /\ \A j \in AttemptNumber : j # k => attempt'[s][j] = attempt[s][j]
           /\ attempt'[s][k].turn = n /\ attempt'[s][k].branch = r
           /\ attempt'[s][k].native = branch[s][r].native
           /\ attempt'[s][k].status = "running"
           /\ \A p \in Session : p # s => turn'[p] = turn[p] /\ attempt'[p] = attempt[p]
<1> DEFINE k == session[s].attempts + 1
<1> DEFINE t == [status |-> "running", active |-> k]
<1>1. k \in AttemptNumber /\ k \in 0..MaxAttempt /\ turn' = [turn EXCEPT ![s][n] = t]
  BY DEF OpenAttempt
<1>2. t \in TurnRecord
  BY <1>1 DEF TurnRecord
<1>3. turn \in [Session -> [TurnNumber -> TurnRecord]]
  BY DEF RowTypes
<1> HIDE DEF t
<1>4. turn' \in [Session -> [TurnNumber -> TurnRecord]]
  BY <1>1, <1>2, <1>3, UpdateTyped
<1>5. /\ \A m \in TurnNumber : turn'[s][m] = IF m = n THEN t ELSE turn[s][m]
      /\ \A p \in Session : p # s => turn'[p] = turn[p]
  BY <1>1, <1>3
<1>6. /\ attempt' \in [Session -> [AttemptNumber -> AttemptRecord]]
      /\ \A j \in AttemptNumber : j # k => attempt'[s][j] = attempt[s][j]
      /\ attempt'[s][k].turn = n /\ attempt'[s][k].branch = r
      /\ attempt'[s][k].native = branch[s][r].native
      /\ attempt'[s][k].status = "running"
      /\ \A p \in Session : p # s => attempt'[p] = attempt[p]
  BY OpenedAttempt
<1> QED
  BY <1>1, <1>4, <1>5, <1>6 DEF t

-----------------------------------------------------------------------------
(* Each action is one of the five.                                         *)

Shaped(s) ==
    \/ Same(s)
    \/ \E n \in TurnNumber, r \in Route, k \in AttemptNumber : Opens(s, n, r, k)
    \/ \E k \in AttemptNumber, e \in Event : Notes(s, k, e)
    \/ \E n \in TurnNumber, k \in 0..MaxAttempt, o \in Outcome : Settles(s, n, k, o)
    \/ Rearranges(s)

\* Whichever of the five shapes a step has, it keeps the invariant of s.
LEMMA ShapedKeeps ==
    ASSUME RowTypes, RowTypes', NEW s \in Session, SInv(s), Shaped(s)
    PROVE  SInv(s)'
BY SameKeeps, OpensKeeps, NotesKeeps, SettlesKeeps, RearrangesKeeps DEF Shaped

\* A session that is not running executes nothing, and has no running turn.
LEMMA NotRunningIsQuiet ==
    ASSUME RowTypes, NEW s \in Session, SInv(s), session[s].status # "running"
    PROVE  /\ Quiet(s)
           /\ \A m \in TurnNumber : turn[s][m].status \in Live =>
                m = session[s].turns /\ session[s].status = "waiting"
<1>1. /\ session[s].turns \in 0..MaxTurn /\ session[s].attempts \in 0..MaxAttempt
      /\ MaxTurn \in Nat /\ MaxAttempt \in Nat
  BY BoundAssumption DEF RowTypes, SessionRecord
<1>2. \A m \in TurnNumber : turn[s][m].status \in Live =>
        m = session[s].turns /\ session[s].status = "waiting"
  BY <1>1 DEF SInv, MatchesTurn
<1>3. ASSUME NEW k \in AttemptNumber, attempt[s][k].status = "running"
      PROVE  FALSE
  <2>1. k <= session[s].attempts /\ OwnsSession(s, k)
    BY <1>1, <1>3 DEF SInv, Numbered, Exclusive
  <2>2. attempt[s][k].turn \in 1..session[s].turns
    BY <2>1 DEF SInv, Linked
  <2>3. attempt[s][k].turn \in TurnNumber /\ turn[s][attempt[s][k].turn].status = "running"
    BY <2>1, <2>2, <1>1 DEF OwnsSession
  <2>4. session[s].status = "waiting" /\ session[s].status = "running"
    BY <2>1, <2>2, <2>3, <1>1, <1>2 DEF SInv, MatchesTurn, OwnsSession
  <2> QED
    BY <2>4
<1> QED
  BY <1>2, <1>3 DEF Quiet

\* BeginTurn opens the first attempt of a new turn.
LEMMA BeginTurnShaped ==
    ASSUME IInv, NEW s \in Session, NEW r \in Route, BeginTurn(s, r)
    PROVE  RowTypes' /\ Shaped(s) /\ Elsewhere(s)
<1> DEFINE n == session[s].turns + 1
<1> DEFINE k == session[s].attempts + 1
<1>1. /\ RowTypes /\ SInv(s) /\ session \in [Session -> SessionRecord]
      /\ n \in TurnNumber /\ Idle(s)
      /\ session' = [session EXCEPT ![s].status = "running", ![s].turns = n,
                                    ![s].attempts = @ + 1]
      /\ branch' = branch /\ fallback' = fallback /\ waits' = waits
      /\ r = session[s].active
  BY DEF IInv, BeginTurn, BeginTurnAccepts, RowTypes
<1>2. PICK h \in Handoffs(s, r), cut \in BOOLEAN : OpenAttempt(s, n, r, h, cut)
  BY DEF BeginTurn
<1>3. /\ attempt' \in [Session -> [AttemptNumber -> AttemptRecord]]
      /\ turn'    \in [Session -> [TurnNumber -> TurnRecord]]
      /\ k \in AttemptNumber /\ k \in 0..MaxAttempt
      /\ \A m \in TurnNumber :
           turn'[s][m] = IF m = n THEN [status |-> "running", active |-> k] ELSE turn[s][m]
      /\ \A j \in AttemptNumber : j # k => attempt'[s][j] = attempt[s][j]
      /\ attempt'[s][k].turn = n /\ attempt'[s][k].branch = r
      /\ attempt'[s][k].native = branch[s][r].native
      /\ attempt'[s][k].status = "running"
      /\ \A p \in Session : p # s => turn'[p] = turn[p] /\ attempt'[p] = attempt[p]
  BY <1>1, <1>2, OpenAttemptRows
<1>4. n \in 0..MaxTurn
  BY <1>1
<1> DEFINE x == [status |-> "running", active |-> r, turns |-> n, attempts |-> k]
<1>6. session'[s] = x
  BY <1>1 DEF SessionRecord
<1>5. session' \in [Session -> SessionRecord]
  <2>1. x \in SessionRecord
    BY <1>3, <1>4 DEF SessionRecord
  <2> QED
    BY <2>1, <1>1, <1>6
<1>7. \A p \in Session : p # s => session'[p] = session[p]
  BY <1>1
<1>8. RowTypes'
  BY <1>1, <1>3, <1>5 DEF RowTypes
<1>9. Elsewhere(s)
  BY <1>1, <1>3, <1>7 DEF Elsewhere, Same
<1>10. Quiet(s) /\ (\A m \in TurnNumber : turn[s][m].status \notin Live) /\ Exists(s)
  BY <1>1, NotRunningIsQuiet DEF Idle, BlocksInput
<1>11. KeepsBudget(s)
  BY <1>1 DEF KeepsBudget, Branches
<1>12. Opens(s, n, r, k)
  BY <1>1, <1>3, <1>6, <1>10, <1>11 DEF Opens
<1> QED
  BY <1>1, <1>3, <1>8, <1>9, <1>12 DEF Shaped

\* BeginFallback opens an attempt after one that failed harmlessly.
LEMMA BeginFallbackShaped ==
    ASSUME IInv, NEW s \in Session, NEW j \in AttemptNumber, NEW r \in Route,
           BeginFallback(s, j, r)
    PROVE  RowTypes' /\ Shaped(s) /\ Elsewhere(s)
<1> DEFINE n == attempt[s][j].turn
<1> DEFINE k == session[s].attempts + 1
<1>1. /\ RowTypes /\ SInv(s) /\ session \in [Session -> SessionRecord]
      /\ branch \in [Session -> [Route -> BranchRecord]]
      /\ FallbackAccepts(s, j, r)
      /\ session' = [session EXCEPT ![s].active = r, ![s].attempts = @ + 1]
      /\ branch' = [branch EXCEPT ![s] = Activated(s, r)]
      /\ fallback' = fallback /\ waits' = waits
  BY DEF IInv, BeginFallback, RowTypes
<1>2. /\ n \in TurnNumber /\ turn[s][n].status = "running" /\ turn[s][n].active = j
      /\ Harmless(attempt[s][j]) /\ attempt[s][j].status = "failed" /\ MaySelect(s, r)
  BY <1>1 DEF FallbackAccepts, RunningTurns, SafeToReplace, Harmless
<1>3. n = session[s].turns /\ session[s].status = "running"
  <2>1. n = session[s].turns
    BY <1>1, <1>2 DEF SInv, MatchesTurn
  <2> QED
    BY <2>1, <1>1, <1>2 DEF SInv, MatchesTurn
<1>4. PICK h \in Handoffs(s, r), cut \in BOOLEAN : OpenAttempt(s, n, r, h, cut)
  BY DEF BeginFallback
<1>5. /\ attempt' \in [Session -> [AttemptNumber -> AttemptRecord]]
      /\ turn'    \in [Session -> [TurnNumber -> TurnRecord]]
      /\ k \in AttemptNumber /\ k \in 0..MaxAttempt
      /\ \A m \in TurnNumber :
           turn'[s][m] = IF m = n THEN [status |-> "running", active |-> k] ELSE turn[s][m]
      /\ \A i \in AttemptNumber : i # k => attempt'[s][i] = attempt[s][i]
      /\ attempt'[s][k].turn = n /\ attempt'[s][k].branch = r
      /\ attempt'[s][k].native = branch[s][r].native
      /\ attempt'[s][k].status = "running"
      /\ \A p \in Session : p # s => turn'[p] = turn[p] /\ attempt'[p] = attempt[p]
  BY <1>1, <1>2, <1>4, OpenAttemptRows
<1> DEFINE x == [status |-> "running", active |-> r, turns |-> n, attempts |-> k]
<1>7. session'[s] = x
  BY <1>1, <1>3 DEF SessionRecord
<1>6. session' \in [Session -> SessionRecord]
  <2>1. x \in SessionRecord
    BY <1>2, <1>5 DEF SessionRecord
  <2>2. \A p \in Session : p # s => session'[p] = session[p]
    BY <1>1
  <2> HIDE DEF x
  <2> QED
    BY <2>1, <2>2, <1>1, <1>7
<1>8. /\ branch' \in [Session -> [Route -> BranchRecord]]
      /\ \A q \in Route : /\ branch'[s][q].native = branch[s][q].native
                          /\ branch'[s][q].exists = (branch[s][q].exists \/ q = r)
      /\ \A p \in Session : p # s => branch'[p] = branch[p] /\ session'[p] = session[p]
  BY <1>1, ActivatedRows
<1>9. RowTypes'
  BY <1>1, <1>5, <1>6, <1>8 DEF RowTypes
<1>10. Elsewhere(s)
  BY <1>5, <1>8 DEF Elsewhere, Same
<1>11. KeepsBudget(s)
  <2>1. Branches(s)' = Branches(s) \cup {r}
    BY <1>8 DEF Branches
  <2> QED
    BY <2>1, <1>2 DEF KeepsBudget
<1>12. Quiet(s)
  <2> SUFFICES ASSUME NEW i \in AttemptNumber, attempt[s][i].status = "running" PROVE FALSE
    BY DEF Quiet
  <2>1. OwnsSession(s, i)
    BY <1>1 DEF SInv, Exclusive
  <2> QED
    BY <2>1, <1>2, <1>3 DEF OwnsSession
<1>13. \A m \in TurnNumber : turn[s][m].status \in Live => m = n
  BY <1>1, <1>3 DEF SInv, MatchesTurn
<1>14. Opens(s, n, r, k)
  <2>1. Exists(s)
    BY <1>3 DEF Exists
  <2>2. Harmless(attempt[s][turn[s][n].active])
    BY <1>2
  <2> QED
    BY <2>1, <2>2, <1>2, <1>3, <1>5, <1>7, <1>8, <1>11, <1>12, <1>13 DEF Opens
<1> QED
  BY <1>2, <1>5, <1>9, <1>10, <1>14 DEF Shaped

\* BeginWaitResume opens an attempt after one that waits.
LEMMA BeginWaitResumeShaped ==
    ASSUME IInv, NEW s \in Session, NEW r \in Route, NEW n \in TurnNumber,
           NEW w \in Checkpoint, BeginWaitResume(s, r, n, w)
    PROVE  RowTypes' /\ Shaped(s) /\ Elsewhere(s)
<1> DEFINE k == session[s].attempts + 1
<1>1. /\ RowTypes /\ SInv(s) /\ session \in [Session -> SessionRecord]
      /\ WaitResumeAccepts(s, r, n, w)
      /\ OpenAttempt(s, n, r, {}, FALSE)
      /\ session' = [session EXCEPT ![s].status = "running", ![s].attempts = @ + 1]
      /\ branch' = branch /\ fallback' = fallback /\ waits' = waits
  BY DEF IInv, BeginWaitResume, RowTypes
<1>2. /\ session[s].status = "waiting" /\ session[s].active = r /\ n = session[s].turns
      /\ turn[s][n].status = "waiting"
      /\ attempt[s][turn[s][n].active].status = "waiting"
  BY <1>1 DEF WaitResumeAccepts
<1>3. PICK h \in Handoffs(s, r), cut \in BOOLEAN : h = {} /\ cut = FALSE
  <2>1. {} \in Handoffs(s, r)
    BY FS_EmptySet, BoundAssumption DEF Handoffs
  <2> QED
    BY <2>1
<1>a. OpenAttempt(s, n, r, h, cut)
  BY <1>1, <1>3
<1>4. /\ attempt' \in [Session -> [AttemptNumber -> AttemptRecord]]
      /\ turn'    \in [Session -> [TurnNumber -> TurnRecord]]
      /\ k \in AttemptNumber /\ k \in 0..MaxAttempt
      /\ \A m \in TurnNumber :
           turn'[s][m] = IF m = n THEN [status |-> "running", active |-> k] ELSE turn[s][m]
      /\ \A j \in AttemptNumber : j # k => attempt'[s][j] = attempt[s][j]
      /\ attempt'[s][k].turn = n /\ attempt'[s][k].branch = r
      /\ attempt'[s][k].native = branch[s][r].native
      /\ attempt'[s][k].status = "running"
      /\ \A p \in Session : p # s => turn'[p] = turn[p] /\ attempt'[p] = attempt[p]
  BY <1>1, <1>a, OpenAttemptRows
<1> DEFINE x == [status |-> "running", active |-> r, turns |-> n, attempts |-> k]
<1>6. session'[s] = x
  BY <1>1, <1>2 DEF SessionRecord
<1>7. \A p \in Session : p # s => session'[p] = session[p]
  BY <1>1
<1>5. session' \in [Session -> SessionRecord]
  <2>1. x \in SessionRecord
    BY <1>4, BoundAssumption DEF SessionRecord
  <2> HIDE DEF x
  <2> QED
    BY <2>1, <1>1, <1>6, <1>7
<1>8. RowTypes'
  BY <1>1, <1>4, <1>5 DEF RowTypes
<1>9. Elsewhere(s)
  BY <1>1, <1>4, <1>7 DEF Elsewhere, Same
<1>10. Quiet(s) /\ (\A m \in TurnNumber : turn[s][m].status \in Live => m = n) /\ Exists(s)
  BY <1>1, <1>2, NotRunningIsQuiet DEF Exists
<1>11. KeepsBudget(s)
  BY <1>1 DEF KeepsBudget, Branches
<1>12. Opens(s, n, r, k)
  BY <1>1, <1>2, <1>4, <1>6, <1>10, <1>11 DEF Opens
<1> QED
  BY <1>4, <1>8, <1>9, <1>12 DEF Shaped

\* Record notes an event of the running attempt.
LEMMA RecordShaped ==
    ASSUME IInv, NEW s \in Session, NEW k \in AttemptNumber, NEW e \in Event,
           NEW fx \in BOOLEAN, Record(s, k, e, fx)
    PROVE  RowTypes' /\ Shaped(s) /\ Elsewhere(s)
<1> DEFINE a == attempt[s][k]
<1> DEFINE b == branch[s][a.branch]
<1> DEFINE nat == NativeAfter(s, k, e)
<1> DEFINE x == [a EXCEPT !.native  = nat,
                          !.effects = a.effects \/ fx,
                          !.failure = IF IsFatal(e) THEN e.failure ELSE a.failure,
                          !.error   = a.error \/ IsFatal(e),
                          !.status  = IF e.kind = "completed" THEN e.outcome ELSE a.status,
                          !.wait    = IF e.kind = "completed" THEN e.wait ELSE a.wait]
<1> DEFINE y == [b EXCEPT !.native = IF NamesNative(e) THEN e.native ELSE b.native,
                          !.watermark = IF e.kind = "completed" /\ e.outcome = "completed"
                                          THEN a.turn ELSE b.watermark]
<1>1. /\ RowTypes /\ SInv(s)
      /\ attempt \in [Session -> [AttemptNumber -> AttemptRecord]]
      /\ branch \in [Session -> [Route -> BranchRecord]]
      /\ RecordAccepts(s, k, e)
      /\ attempt' = [attempt EXCEPT ![s][k] = x]
      /\ branch' = [branch EXCEPT ![s][a.branch] = y]
      /\ session' = session /\ turn' = turn /\ fallback' = fallback /\ waits' = waits
  BY DEF IInv, RowTypes, Record
<1>2. /\ e.native \in NativeOrNone /\ e.failure \in FailureKind
      /\ e.outcome \in Outcome /\ e.wait \in Checkpoint
  BY EventFields DEF EventType
<1>3. /\ a \in AttemptRecord /\ a.status = "running" /\ a.native \in NativeOrNone
      /\ a.turn \in 0..MaxTurn
  BY <1>1 DEF RecordAccepts, AttemptRecord
<1>4. a.branch \in Route
  <2>1. k <= session[s].attempts
    BY <1>1, <1>3, BoundAssumption DEF SInv, Numbered, RowTypes, SessionRecord
  <2> QED
    BY <2>1, <1>1 DEF SInv, Linked
<1>5. b \in BranchRecord
  BY <1>1, <1>4
<1>6. nat \in NativeOrNone
  BY <1>2, <1>3 DEF NativeAfter
<1>7. /\ x \in AttemptRecord /\ x.turn = a.turn /\ x.branch = a.branch /\ x.native = nat
      /\ x.status = IF e.kind = "completed" THEN e.outcome ELSE a.status
      /\ x.wait = IF e.kind = "completed" THEN e.wait ELSE a.wait
      /\ x.error = (a.error \/ IsFatal(e))
  <2> HIDE DEF a, nat
  <2> QED
    BY <1>2, <1>3, <1>6 DEF AttemptRecord
<1>8. /\ y \in BranchRecord /\ y.exists = b.exists
      /\ y.native = IF NamesNative(e) THEN e.native ELSE b.native
  <2> HIDE DEF a, b
  <2> QED
    BY <1>2, <1>3, <1>5 DEF BranchRecord
<1> HIDE DEF x, y
<1>9. /\ attempt' \in [Session -> [AttemptNumber -> AttemptRecord]]
      /\ branch' \in [Session -> [Route -> BranchRecord]]
  <2> HIDE DEF a, b
  <2> QED
    BY <1>1, <1>7, <1>8, UpdateTyped
<1>10. RowTypes'
  BY <1>1, <1>9 DEF RowTypes
<1>11. /\ attempt'[s][k] = x
       /\ \A j \in AttemptNumber : j # k => attempt'[s][j] = attempt[s][j]
       /\ \A p \in Session : p # s => attempt'[p] = attempt[p] /\ branch'[p] = branch[p]
       /\ \A q \in Route : branch'[s][q] = IF q = a.branch THEN y ELSE branch[s][q]
  BY <1>1, <1>4
<1>12. Elsewhere(s)
  BY <1>1, <1>11 DEF Elsewhere, Same
<1>13. Notes(s, k, e)
  <2>1. x.status \in {"running"} \cup Outcome
    BY <1>2, <1>3, <1>7
  <2>2. x.status = "waiting" => HasReceipt(x) /\ ~x.error
    <3> SUFFICES ASSUME x.status = "waiting" PROVE HasReceipt(x) /\ ~x.error
      OBVIOUS
    <3>1. e.kind = "completed" /\ e.outcome = "waiting"
      BY <1>3, <1>7
    <3>2. e.wait # 0 /\ nat # NoNative /\ ~a.error
      BY <3>1, <1>1 DEF RecordAccepts, IsWaiting
    <3> QED
      BY <3>1, <3>2, <1>7 DEF HasReceipt, ValidCheckpoint, IsFatal
  <2>3. NamesNative(e) => branch[s][a.branch].native \in {NoNative, e.native}
    BY <1>1 DEF RecordAccepts
  <2>4. \A q \in Route :
          /\ branch'[s][q].exists = branch[s][q].exists
          /\ branch'[s][q].native = IF q = a.branch /\ NamesNative(e) THEN e.native
                                                                     ELSE branch[s][q].native
    BY <1>8, <1>11
  <2> QED
    BY <2>1, <2>2, <2>3, <2>4, <1>1, <1>3, <1>7, <1>11 DEF Notes
<1> QED
  BY <1>10, <1>12, <1>13 DEF Shaped

\* The attempt of a turn that ends.
LEMMA AbandonedRow ==
    ASSUME NEW a \in AttemptRecord, NEW o \in Outcome
    PROVE  /\ Abandoned(a, o) \in AttemptRecord
           /\ IF a.status # "running" THEN Abandoned(a, o) = a
              ELSE /\ Abandoned(a, o).status = o /\ Abandoned(a, o).turn = a.turn
                   /\ Abandoned(a, o).branch = a.branch /\ Abandoned(a, o).native = a.native
<1>1. CASE a.status # "running"
  BY <1>1 DEF Abandoned
<1>2. CASE a.status = "running"
  <2> DEFINE x == [a EXCEPT !.status = o, !.error = TRUE]
  <2>1. x \in AttemptRecord /\ x.status = o /\ x.turn = a.turn /\ x.branch = a.branch
          /\ x.native = a.native
    BY DEF AttemptRecord
  <2>2. Abandoned(a, o) = x
    BY <1>2 DEF Abandoned
  <2> QED
    BY <1>2, <2>1, <2>2
<1> QED
  BY <1>1, <1>2

\* The active attempt of a turn that is not absent.
LEMMA ActiveAttempt ==
    ASSUME RowTypes, NEW s \in Session, SInv(s), NEW n \in TurnNumber,
           turn[s][n].status # "absent"
    PROVE  /\ turn[s][n].active \in AttemptNumber /\ turn[s][n].active <= session[s].attempts
           /\ attempt[s][turn[s][n].active].turn = n
           /\ attempt[s][turn[s][n].active].status # "absent"
<1>1. /\ session[s].turns \in 0..MaxTurn /\ session[s].attempts \in 0..MaxAttempt
      /\ MaxTurn \in Nat /\ MaxAttempt \in Nat
  BY BoundAssumption DEF RowTypes, SessionRecord
<1>2. n <= session[s].turns
  BY <1>1 DEF SInv, Numbered
<1>3. turn[s][n].active \in 1..session[s].attempts /\ attempt[s][turn[s][n].active].turn = n
  BY <1>2 DEF SInv, Linked
<1> QED
  BY <1>1, <1>3 DEF SInv, Numbered

\* FinishTurn settles the running turn and its attempt.
LEMMA FinishTurnShaped ==
    ASSUME IInv, NEW s \in Session, NEW n \in TurnNumber, NEW o \in Outcome,
           FinishTurn(s, n, o)
    PROVE  RowTypes' /\ Shaped(s) /\ Elsewhere(s)
<1> DEFINE k == turn[s][n].active
<1> DEFINE a == attempt[s][k]
<1> DEFINE b == Abandoned(a, o)
<1>1. /\ RowTypes /\ SInv(s)
      /\ session \in [Session -> SessionRecord]
      /\ turn    \in [Session -> [TurnNumber -> TurnRecord]]
      /\ attempt \in [Session -> [AttemptNumber -> AttemptRecord]]
      /\ FinishAccepts(s, n, o)
      /\ attempt' = [attempt EXCEPT ![s][k] = b]
      /\ turn' = [turn EXCEPT ![s][n].status = o]
      /\ session' = [session EXCEPT ![s].status = o]
      /\ branch' = branch /\ fallback' = fallback /\ waits' = waits
  BY DEF IInv, RowTypes, FinishTurn
<1>2. turn[s][n].status = "running" /\ (o \in {"completed", "waiting"} => a.status = o)
  BY <1>1 DEF FinishAccepts
<1>3. k \in AttemptNumber
  BY <1>1, <1>2, ActiveAttempt
<1>4. a \in AttemptRecord
  BY <1>1, <1>3
<1>5. /\ b \in AttemptRecord
      /\ IF a.status # "running" THEN b = a
         ELSE b.status = o /\ b.turn = a.turn /\ b.branch = a.branch /\ b.native = a.native
  BY <1>4, AbandonedRow
<1> DEFINE t == [status |-> o, active |-> k]
<1>6. t \in TurnRecord
  BY <1>1 DEF TurnRecord
<1>7. turn' = [turn EXCEPT ![s][n] = t]
  <2>1. turn[s][n] \in TurnRecord
    BY <1>1
  <2>2. [turn[s][n] EXCEPT !.status = o] = t
    BY <2>1 DEF TurnRecord
  <2> QED
    BY <2>2, <1>1
<1> DEFINE z == [status |-> o, active |-> session[s].active,
                 turns |-> session[s].turns, attempts |-> session[s].attempts]
<1>8. session' = [session EXCEPT ![s] = z] /\ z \in SessionRecord
  <2>1. session[s] \in SessionRecord
    BY <1>1
  <2>2. [session[s] EXCEPT !.status = o] = z /\ z \in SessionRecord
    BY <2>1 DEF SessionRecord
  <2> QED
    BY <2>2, <1>1
<1> HIDE DEF b, t, z
<1>a. /\ session \in [Session -> SessionRecord] /\ session' = [session EXCEPT ![s] = z]
      /\ turn \in [Session -> [TurnNumber -> TurnRecord]] /\ turn' = [turn EXCEPT ![s][n] = t]
      /\ attempt \in [Session -> [AttemptNumber -> AttemptRecord]]
      /\ attempt' = [attempt EXCEPT ![s][k] = b]
  BY <1>1, <1>7, <1>8
<1>9. RowTypes'
  <2>1. attempt' \in [Session -> [AttemptNumber -> AttemptRecord]]
    BY <1>a, <1>5, UpdateTyped
  <2>2. turn' \in [Session -> [TurnNumber -> TurnRecord]]
    BY <1>a, <1>6, UpdateTyped
  <2>3. session' \in [Session -> SessionRecord]
    BY <1>1, <1>8
  <2> QED
    BY <2>1, <2>2, <2>3, <1>1 DEF RowTypes
<1>10. /\ attempt'[s][k] = b
       /\ \A j \in AttemptNumber : j # k => attempt'[s][j] = attempt[s][j]
       /\ \A m \in TurnNumber : turn'[s][m] = IF m = n THEN t ELSE turn[s][m]
       /\ session'[s] = z
       /\ \A p \in Session : p # s => /\ attempt'[p] = attempt[p] /\ turn'[p] = turn[p]
                                      /\ session'[p] = session[p]
  BY <1>a, <1>3
<1>11. Elsewhere(s)
  BY <1>1, <1>10 DEF Elsewhere, Same
<1>12. Settles(s, n, k, o)
  BY <1>1, <1>2, <1>5, <1>10 DEF Settles, t, z
<1> QED
  BY <1>3, <1>9, <1>11, <1>12 DEF Shaped

\* The calls an idle session takes only rearrange it.
LEMMA IdleShaped ==
    ASSUME IInv, NEW s \in Session, IdleStep(s)
    PROVE  RowTypes' /\ Shaped(s) /\ Elsewhere(s)
<1>1. /\ RowTypes /\ SInv(s)
      /\ session \in [Session -> SessionRecord]
      /\ branch \in [Session -> [Route -> BranchRecord]]
  BY DEF IInv, RowTypes
<1>2. session[s] \in SessionRecord
  BY <1>1
<1>3. Idle(s) => session[s].active \in Route /\ session[s].status \in Outcome \ Live
  BY <1>1, <1>2 DEF Idle, BlocksInput, Exists, SInv, Linked, SessionRecord
<1>4. ASSUME NEW r \in Route, CreateSession(s, r)
      PROVE  RowTypes' /\ Shaped(s) /\ Elsewhere(s)
  <2> DEFINE x == [session[s] EXCEPT !.status = "completed", !.active = r]
  <2> DEFINE y == [branch[s][r] EXCEPT !.exists = TRUE]
  <2>1. /\ ~Exists(s)
        /\ session' = [session EXCEPT ![s].status = "completed", ![s].active = r]
        /\ branch' = [branch EXCEPT ![s][r].exists = TRUE]
        /\ turn' = turn /\ attempt' = attempt /\ fallback' = fallback /\ waits' = waits
    BY <1>4 DEF CreateSession
  <2>2. /\ session' = [session EXCEPT ![s] = x] /\ x \in SessionRecord
        /\ x.status = "completed" /\ x.active = r
        /\ x.turns = session[s].turns /\ x.attempts = session[s].attempts
    <3>1. /\ x \in SessionRecord /\ x.status = "completed" /\ x.active = r
          /\ x.turns = session[s].turns /\ x.attempts = session[s].attempts
      BY <1>2 DEF SessionRecord
    <3> QED
      BY <3>1, <2>1, <1>1
  <2>3. /\ branch' = [branch EXCEPT ![s][r] = y] /\ y \in BranchRecord
        /\ y.exists = TRUE /\ y.native = branch[s][r].native
    <3> DEFINE b == branch[s][r]
    <3>1. b \in BranchRecord
      BY <1>1
    <3>2. y \in BranchRecord /\ y.exists = TRUE /\ y.native = b.native
      <4> HIDE DEF b
      <4> QED
        BY <3>1 DEF BranchRecord, b
    <3> QED
      BY <3>2, <2>1, <1>1
  <2> HIDE DEF x, y
  <2>4. RowTypes'
    <3>1. session' \in [Session -> SessionRecord]
      BY <2>2, <1>1
    <3>2. branch' \in [Session -> [Route -> BranchRecord]]
      BY <2>3, <1>1, UpdateTyped
    <3> QED
      BY <3>1, <3>2, <2>1, <1>1 DEF RowTypes
  <2>5. /\ session'[s] = x /\ \A p \in Session : p # s => session'[p] = session[p]
        /\ \A q \in Route : branch'[s][q] = IF q = r THEN y ELSE branch[s][q]
        /\ \A p \in Session : p # s => branch'[p] = branch[p]
    BY <2>2, <2>3, <1>1
  <2>6. Elsewhere(s)
    BY <2>1, <2>5 DEF Elsewhere, Same
  <2>7. KeepsBudget(s)
    <3>1. Branches(s) = {}
      BY <1>1, <2>1 DEF SInv, Linked
    <3>2. MaySelect(s, r)
      BY <3>1, FS_EmptySet, BoundAssumption DEF MaySelect
    <3>3. Branches(s)' = Branches(s) \cup {r}
      BY <2>3, <2>5 DEF Branches
    <3> QED
      BY <3>2, <3>3 DEF KeepsBudget
  <2>8. \A q \in Route :
          branch[s][q].native # NoNative => branch'[s][q].native = branch[s][q].native
    BY <2>3, <2>5
  <2>9. session[s].status # "running"
    BY <2>1 DEF Exists
  <2> QED
    BY <2>1, <2>2, <2>4, <2>5, <2>6, <2>7, <2>8, <2>9 DEF Shaped, Rearranges
<1>5. ASSUME NEW r \in Route, Switch(s, r)
      PROVE  RowTypes' /\ Shaped(s) /\ Elsewhere(s)
  <2> DEFINE x == [status |-> session[s].status, active |-> r,
                   turns |-> session[s].turns, attempts |-> session[s].attempts]
  <2>1. /\ Idle(s) /\ MaySelect(s, r)
        /\ session' = [session EXCEPT ![s].active = r]
        /\ branch' = [branch EXCEPT ![s] = Activated(s, r)]
        /\ turn' = turn /\ attempt' = attempt /\ fallback' = fallback /\ waits' = waits
    BY <1>5 DEF Switch
  <2>2. session' = [session EXCEPT ![s] = x] /\ x \in SessionRecord
    <3>1. [session[s] EXCEPT !.active = r] = x /\ x \in SessionRecord
      BY <1>2 DEF SessionRecord
    <3> QED
      BY <3>1, <2>1, <1>1
  <2> HIDE DEF x
  <2>3. /\ branch' \in [Session -> [Route -> BranchRecord]]
        /\ \A q \in Route : /\ branch'[s][q].native = branch[s][q].native
                            /\ branch'[s][q].exists = (branch[s][q].exists \/ q = r)
        /\ \A p \in Session : p # s => branch'[p] = branch[p]
    BY <1>1, <2>1, ActivatedRows
  <2>4. /\ session' \in [Session -> SessionRecord] /\ session'[s] = x
        /\ \A p \in Session : p # s => session'[p] = session[p]
    BY <2>2, <1>1
  <2>5. RowTypes'
    BY <2>1, <2>3, <2>4, <1>1 DEF RowTypes
  <2>6. Elsewhere(s)
    BY <2>1, <2>3, <2>4 DEF Elsewhere, Same
  <2>7. KeepsBudget(s)
    <3>1. Branches(s)' = Branches(s) \cup {r}
      BY <2>3 DEF Branches
    <3> QED
      BY <3>1, <2>1 DEF KeepsBudget
  <2> QED
    BY <1>3, <2>1, <2>3, <2>4, <2>5, <2>6, <2>7 DEF Shaped, Rearranges, x
<1>6. ASSUME NEW F \in SUBSET Route, SetFallback(s, F)
      PROVE  RowTypes' /\ Shaped(s) /\ Elsewhere(s)
  BY <1>1, <1>6 DEF SetFallback, RowTypes, Shaped, Elsewhere, Same
<1>7. ASSUME NEW enabled \in BOOLEAN, SetDurableWaits(s, enabled)
      PROVE  RowTypes' /\ Shaped(s) /\ Elsewhere(s)
  BY <1>1, <1>7 DEF SetDurableWaits, RowTypes, Shaped, Elsewhere, Same
<1>8. ASSUME NEW r \in Route, NEW nat \in Native, BindNative(s, r, nat)
      PROVE  RowTypes' /\ Shaped(s) /\ Elsewhere(s)
  <2> DEFINE y == [exists |-> branch[s][r].exists, native |-> nat,
                   watermark |-> branch[s][r].watermark, parked |-> branch[s][r].parked]
  <2>1. /\ Idle(s) /\ session[s].active = r /\ branch[s][r].native \in {NoNative, nat}
        /\ branch' = [branch EXCEPT ![s][r].native = nat]
        /\ session' = session /\ turn' = turn /\ attempt' = attempt
        /\ fallback' = fallback /\ waits' = waits
    BY <1>8 DEF BindNative
  <2>2. branch' = [branch EXCEPT ![s][r] = y] /\ y \in BranchRecord
    <3>1. branch[s][r] \in BranchRecord
      BY <1>1
    <3>2. [branch[s][r] EXCEPT !.native = nat] = y /\ y \in BranchRecord
      BY <3>1 DEF BranchRecord
    <3> QED
      BY <3>2, <2>1, <1>1
  <2> HIDE DEF y
  <2>3. RowTypes'
    <3>1. branch' \in [Session -> [Route -> BranchRecord]]
      BY <2>2, <1>1, UpdateTyped
    <3> QED
      BY <3>1, <2>1, <1>1 DEF RowTypes
  <2>4. /\ \A q \in Route : branch'[s][q] = IF q = r THEN y ELSE branch[s][q]
        /\ \A p \in Session : p # s => branch'[p] = branch[p]
    BY <2>2, <1>1
  <2>5. Elsewhere(s)
    BY <2>1, <2>4 DEF Elsewhere, Same
  <2>6. KeepsBudget(s)
    <3>1. Branches(s)' = Branches(s)
      BY <2>4 DEF Branches, y
    <3> QED
      BY <3>1 DEF KeepsBudget
  <2>7. \A q \in Route :
          branch[s][q].native # NoNative => branch'[s][q].native = branch[s][q].native
    BY <2>1, <2>4 DEF y
  <2> QED
    BY <1>3, <2>1, <2>3, <2>5, <2>6, <2>7 DEF Shaped, Rearranges
<1> QED
  BY <1>4, <1>5, <1>6, <1>7, <1>8 DEF IdleStep

\* AbandonWaitingTurn interrupts the waiting turn of a quiet session.
LEMMA AbandonWaitingTurnShaped ==
    ASSUME IInv, NEW s \in Session, NEW r \in Route, NEW n \in TurnNumber,
           AbandonWaitingTurn(s, r, n)
    PROVE  RowTypes' /\ Shaped(s) /\ Elsewhere(s)
<1> DEFINE t == [status |-> "interrupted", active |-> turn[s][n].active]
<1> DEFINE x == [status |-> "interrupted", active |-> session[s].active,
                 turns |-> session[s].turns, attempts |-> session[s].attempts]
<1>1. /\ RowTypes /\ SInv(s)
      /\ session \in [Session -> SessionRecord]
      /\ turn    \in [Session -> [TurnNumber -> TurnRecord]]
      /\ session[s].active = r /\ session[s].status # "running"
      /\ turn[s][n].status = "waiting"
      /\ turn' = [turn EXCEPT ![s][n].status = "interrupted"]
      /\ session' = [session EXCEPT ![s].status = "interrupted"]
      /\ branch' = branch /\ attempt' = attempt /\ fallback' = fallback /\ waits' = waits
  BY DEF IInv, RowTypes, AbandonWaitingTurn
<1>2. n = session[s].turns
  BY <1>1 DEF SInv, MatchesTurn
<1>3. session' = [session EXCEPT ![s] = x] /\ x \in SessionRecord
  <2>1. session[s] \in SessionRecord
    BY <1>1
  <2>2. [session[s] EXCEPT !.status = "interrupted"] = x /\ x \in SessionRecord
    BY <2>1 DEF SessionRecord
  <2> QED
    BY <2>2, <1>1
<1>4. turn' = [turn EXCEPT ![s][n] = t] /\ t \in TurnRecord
  <2>1. turn[s][n] \in TurnRecord
    BY <1>1
  <2>2. [turn[s][n] EXCEPT !.status = "interrupted"] = t /\ t \in TurnRecord
    BY <2>1 DEF TurnRecord
  <2> QED
    BY <2>2, <1>1
<1> HIDE DEF t, x
<1>5. session \in [Session -> SessionRecord] /\ turn \in [Session -> [TurnNumber -> TurnRecord]]
  BY <1>1
<1>6. /\ session' \in [Session -> SessionRecord]
      /\ turn'    \in [Session -> [TurnNumber -> TurnRecord]]
  BY <1>3, <1>4, <1>5, UpdateTyped
<1>7. /\ session'[s] = x /\ \A m \in TurnNumber : turn'[s][m] = IF m = n THEN t ELSE turn[s][m]
      /\ \A p \in Session : p # s => session'[p] = session[p] /\ turn'[p] = turn[p]
  BY <1>3, <1>4, <1>5
<1>8. RowTypes' /\ Elsewhere(s)
  BY <1>1, <1>6, <1>7 DEF RowTypes, Elsewhere, Same
<1>9. KeepsBudget(s) /\ session[s].active \in Route
  BY <1>1 DEF KeepsBudget, Branches, AbandonWaitingTurn
<1>10. Rearranges(s)
  BY <1>1, <1>2, <1>7, <1>9 DEF Rearranges, t, x
<1> QED
  BY <1>8, <1>10 DEF Shaped

\* Recover settles the running turn of every session that has one.
LEMMA RecoverShaped ==
    ASSUME IInv, Recover
    PROVE  RowTypes' /\ \A s \in Session : Shaped(s)
<1>1. /\ RowTypes
      /\ session \in [Session -> SessionRecord]
      /\ turn    \in [Session -> [TurnNumber -> TurnRecord]]
      /\ attempt \in [Session -> [AttemptNumber -> AttemptRecord]]
      /\ branch' = branch /\ fallback' = fallback /\ waits' = waits
  BY DEF IInv, RowTypes, Recover
<1>2. /\ attempt' = [s \in Session |-> attempt'[s]]
      /\ turn'    = [s \in Session |-> turn'[s]]
      /\ session' = [s \in Session |-> session'[s]]
      /\ \A s \in Session : /\ attempt'[s] = [k \in AttemptNumber |-> attempt'[s][k]]
                             /\ turn'[s] = [n \in TurnNumber |-> turn'[s][n]]
  BY DEF Recover
<1>3. ASSUME NEW s \in Session
      PROVE  /\ session'[s] \in SessionRecord
             /\ \A n \in TurnNumber : turn'[s][n] \in TurnRecord
             /\ \A k \in AttemptNumber : attempt'[s][k] \in AttemptRecord
             /\ Shaped(s)
  <2>1. /\ SInv(s) /\ session[s] \in SessionRecord
        /\ \A n \in TurnNumber : turn[s][n] \in TurnRecord
        /\ \A k \in AttemptNumber : attempt[s][k] \in AttemptRecord
    BY <1>1 DEF IInv
  <2>2. \A k \in AttemptNumber : attempt'[s][k] =
          IF \E n \in RunningTurns(s) : turn[s][n].active = k
            THEN Abandoned(attempt[s][k], "interrupted") ELSE attempt[s][k]
    BY DEF Recover
  <2>3. \A n \in TurnNumber : turn'[s][n] =
          IF n \in RunningTurns(s) THEN [turn[s][n] EXCEPT !.status = Recovered(s, n)]
                                   ELSE turn[s][n]
    BY DEF Recover
  <2>4. session'[s] = IF RunningTurns(s) = {} THEN session[s]
                      ELSE [session[s] EXCEPT !.status =
                              Recovered(s, CHOOSE n \in RunningTurns(s) : TRUE)]
    BY DEF Recover
  <2>5. CASE RunningTurns(s) = {}
    <3>1. session'[s] = session[s]
      BY <2>4, <2>5
    <3>2. \A n \in TurnNumber : turn'[s][n] = turn[s][n]
      BY <2>3, <2>5
    <3>3. \A k \in AttemptNumber : attempt'[s][k] = attempt[s][k]
      BY <2>2, <2>5
    <3>4. turn'[s] = turn[s]
      <4>1. turn[s] = [n \in TurnNumber |-> turn[s][n]]
        BY <1>1
      <4>2. turn'[s] = [n \in TurnNumber |-> turn'[s][n]]
        BY <1>2
      <4>3. [n \in TurnNumber |-> turn'[s][n]] = [n \in TurnNumber |-> turn[s][n]]
        BY <3>2
      <4> QED
        BY <4>1, <4>2, <4>3, Zenon
    <3>5. attempt'[s] = attempt[s]
      <4>1. attempt[s] = [k \in AttemptNumber |-> attempt[s][k]]
        BY <1>1
      <4>2. attempt'[s] = [k \in AttemptNumber |-> attempt'[s][k]]
        BY <1>2
      <4>3. [k \in AttemptNumber |-> attempt'[s][k]] = [k \in AttemptNumber |-> attempt[s][k]]
        BY <3>3
      <4> QED
        BY <4>1, <4>2, <4>3, Zenon
    <3> QED
      BY <2>1, <3>1, <3>2, <3>3, <3>4, <3>5, <1>1 DEF Shaped, Same
  <2>6. CASE RunningTurns(s) # {}
    <3>1. PICK n \in TurnNumber : n \in RunningTurns(s)
      BY <2>6 DEF RunningTurns
    <3>2. turn[s][n].status = "running"
      BY <3>1 DEF RunningTurns
    <3>3. \A m \in RunningTurns(s) : m = n
      BY <2>1, <3>2 DEF SInv, MatchesTurn, RunningTurns
    <3> DEFINE k == turn[s][n].active
    <3> DEFINE b == Abandoned(attempt[s][k], "interrupted")
    <3> DEFINE o == b.status
    <3>4. k \in AttemptNumber /\ attempt[s][k].status # "absent"
      BY <2>1, <1>1, <3>2, ActiveAttempt
    <3>5. /\ b \in AttemptRecord
          /\ IF attempt[s][k].status # "running" THEN b = attempt[s][k]
             ELSE /\ b.status = "interrupted" /\ b.turn = attempt[s][k].turn
                  /\ b.branch = attempt[s][k].branch /\ b.native = attempt[s][k].native
      BY <2>1, <3>4, AbandonedRow
    <3>6. o \in Outcome
      BY <2>1, <3>4, <3>5 DEF AttemptRecord
    <3>7. Recovered(s, n) = o /\ (CHOOSE m \in RunningTurns(s) : TRUE) = n
      <4>1. (CHOOSE m \in RunningTurns(s) : TRUE) = n
        BY <3>1, <3>3
      <4> QED
        BY <4>1 DEF Recovered
    <3> DEFINE t == [status |-> o, active |-> k]
    <3> DEFINE z == [status |-> o, active |-> session[s].active,
                     turns |-> session[s].turns, attempts |-> session[s].attempts]
    <3>8. [turn[s][n] EXCEPT !.status = o] = t /\ t \in TurnRecord
      <4>1. turn[s][n] \in TurnRecord
        BY <2>1
      <4> HIDE DEF o
      <4> QED
        BY <4>1, <3>6 DEF TurnRecord
    <3>9. [session[s] EXCEPT !.status = o] = z /\ z \in SessionRecord
      <4> HIDE DEF o
      <4> QED
        BY <2>1, <3>6 DEF SessionRecord
    <3>10. session'[s] = z
      BY <2>4, <2>6, <3>7, <3>9
    <3>11. \A m \in TurnNumber : turn'[s][m] = IF m = n THEN t ELSE turn[s][m]
      BY <2>3, <3>1, <3>3, <3>7, <3>8
    <3>12. \A j \in AttemptNumber : attempt'[s][j] = IF j = k THEN b ELSE attempt[s][j]
      BY <2>2, <3>1, <3>3
    <3> HIDE DEF b
    <3>13. Settles(s, n, k, o)
      BY <3>2, <3>4, <3>5, <3>10, <3>11, <3>12, <1>1 DEF Settles
    <3>14. k \in 0..MaxAttempt
      BY <3>4
    <3> QED
      BY <2>1, <3>5, <3>6, <3>8, <3>9, <3>10, <3>11, <3>12, <3>13, <3>14 DEF Shaped
  <2> QED
    BY <2>5, <2>6
<1>4. RowTypes'
  <2>1. \A s \in Session : turn'[s] \in [TurnNumber -> TurnRecord]
    BY <1>2, <1>3
  <2>2. \A s \in Session : attempt'[s] \in [AttemptNumber -> AttemptRecord]
    BY <1>2, <1>3
  <2>3. /\ session' \in [Session -> SessionRecord]
        /\ turn'    \in [Session -> [TurnNumber -> TurnRecord]]
        /\ attempt' \in [Session -> [AttemptNumber -> AttemptRecord]]
    BY <1>2, <1>3, <2>1, <2>2
  <2> QED
    BY <1>1, <2>3 DEF RowTypes
<1> QED
  BY <1>3, <1>4

-----------------------------------------------------------------------------
(* The theorems.                                                           *)

\* The empty database satisfies the invariant.
LEMMA InvInit == StoreInit => IInv
<1> SUFFICES ASSUME StoreInit PROVE IInv
  OBVIOUS
<1>1. /\ [status |-> "absent", active |-> NoRoute, turns |-> 0, attempts |-> 0] \in SessionRecord
      /\ NoBranch \in BranchRecord /\ NoTurn \in TurnRecord /\ NoAttempt \in AttemptRecord
  BY BoundAssumption, RevisionAssumption
     DEF SessionRecord, NoBranch, BranchRecord, NoTurn, TurnRecord, NoAttempt,
         AttemptRecord, FailureKind
<1>2. RowTypes
  BY <1>1 DEF StoreInit, RowTypes
<1>3. ASSUME NEW s \in Session
      PROVE  SInv(s)
  <2>1. /\ session[s].status = "absent" /\ session[s].turns = 0 /\ session[s].attempts = 0
        /\ \A n \in TurnNumber : turn[s][n].status = "absent"
        /\ \A k \in AttemptNumber : /\ attempt[s][k].status = "absent" /\ attempt[s][k].turn = 0
                                    /\ attempt[s][k].native = NoNative
        /\ \A r \in Route : branch[s][r].exists = FALSE
    BY DEF StoreInit, NoTurn, NoAttempt, NoBranch
  <2>2. Branches(s) = {}
    BY <2>1 DEF Branches
  <2>3. Budgeted(s)
    BY <2>2, FS_EmptySet, BoundAssumption DEF Budgeted
  <2>4. Numbered(s) /\ Linked(s)
    BY <2>1, <2>2, BoundAssumption DEF Numbered, Linked, Exists
  <2>5. OnActive(s) /\ Receipted(s) /\ MatchesTurn(s) /\ Exclusive(s) /\ RealSuccess(s)
    BY <2>1 DEF OnActive, Receipted, MatchesTurn, Exclusive, RealSuccess
  <2>6. SafeReplay(s) /\ SameNative(s)
    BY <2>1 DEF SafeReplay, SameNative
  <2> QED
    BY <2>3, <2>4, <2>5, <2>6 DEF SInv
<1> QED
  BY <1>2, <1>3 DEF IInv

\* Every transaction does one of the five things to each session.
LEMMA StepShaped == IInv /\ [StoreNext]_storeVars => RowTypes' /\ \A s \in Session : Shaped(s)
<1> SUFFICES ASSUME IInv, [StoreNext]_storeVars
             PROVE  RowTypes' /\ \A s \in Session : Shaped(s)
  OBVIOUS
<1>1. ASSUME NEW s \in Session, Shaped(s), Elsewhere(s)
      PROVE  \A p \in Session : Shaped(p)
  BY <1>1 DEF Elsewhere, Shaped
<1>2. ASSUME NEW s \in Session, TurnStep(s)
      PROVE  RowTypes' /\ \A p \in Session : Shaped(p)
  BY <1>1, <1>2, BeginTurnShaped, BeginFallbackShaped, RecordShaped, FinishTurnShaped
     DEF TurnStep
<1>3. ASSUME NEW s \in Session, IdleStep(s)
      PROVE  RowTypes' /\ \A p \in Session : Shaped(p)
  BY <1>1, <1>3, IdleShaped
<1>4. ASSUME NEW s \in Session, WaitStep(s)
      PROVE  RowTypes' /\ \A p \in Session : Shaped(p)
  BY <1>1, <1>4, BeginWaitResumeShaped, AbandonWaitingTurnShaped DEF WaitStep
<1>5. CASE Recover
  BY <1>5, RecoverShaped
<1>6. CASE UNCHANGED storeVars
  BY <1>6 DEF IInv, RowTypes, storeVars, Shaped, Same
<1> QED
  BY <1>2, <1>3, <1>4, <1>5, <1>6 DEF StoreNext

\* The invariant is inductive.
LEMMA InvNext == IInv /\ [StoreNext]_storeVars => IInv'
BY StepShaped, ShapedKeeps DEF IInv

\* The inductive invariant holds in every reachable state of the store.
THEOREM StoreInvariant == StoreSpec => []IInv
<1>1. StoreInit => IInv
  BY InvInit
<1>2. IInv /\ [StoreNext]_storeVars => IInv'
  BY InvNext
<1> QED
  BY <1>1, <1>2, PTL DEF StoreSpec

\* Rows keep their types, their numbering has no gaps, and no session has
\* more branches than selectBranch allows.
THEOREM StoreTypes == StoreSpec => []TypeOK
<1>1. IInv => TypeOK
  BY DEF IInv, SInv, Budgeted, TypeOK
<1> QED
  BY <1>1, StoreInvariant, PTL

\* The session row agrees with the turn it stands for.
THEOREM StoreSessionMatchesTurn == StoreSpec => []SessionMatchesTurn
<1>1. IInv => SessionMatchesTurn
  BY DEF IInv, SInv, SessionMatchesTurn
<1> QED
  BY <1>1, StoreInvariant, PTL

\* No attempt is left running behind the one that owns the session.
THEOREM StoreOneExecution == StoreSpec => []OneExecution
<1>1. IInv => OneExecution
  BY DEF IInv, SInv, Exclusive, OneExecution
<1> QED
  BY <1>1, StoreInvariant, PTL

\* No input is executed again behind an attempt that may have had effects.
THEOREM StoreNoUnsafeReplay == StoreSpec => []NoUnsafeReplay
<1>1. IInv => NoUnsafeReplay
  BY DEF IInv, SInv, SafeReplay, NoUnsafeReplay
<1> QED
  BY <1>1, StoreInvariant, PTL

\* A turn is successful only if its last attempt was.
THEOREM StoreSuccessIsReal == StoreSpec => []SuccessIsReal
<1>1. IInv => SuccessIsReal
  BY DEF IInv, SInv, RealSuccess, SuccessIsReal
<1> QED
  BY <1>1, StoreInvariant, PTL

\* Attempts run in the native session of their branch.
THEOREM StoreNativeAgrees == StoreSpec => []NativeAgrees
<1>1. IInv => NativeAgrees
  BY DEF IInv, SInv, SameNative, NativeAgrees
<1> QED
  BY <1>1, StoreInvariant, PTL

\* Whatever was committed before a crash, Recover accepts it.
THEOREM StoreAlwaysRecoverable == StoreSpec => []AlwaysRecoverable
<1>1. IInv => AlwaysRecoverable
  <2> SUFFICES ASSUME IInv, NEW s \in Session, NEW n \in RunningTurns(s),
                      attempt[s][turn[s][n].active].status = "waiting"
               PROVE  /\ HasReceipt(attempt[s][turn[s][n].active])
                      /\ ~attempt[s][turn[s][n].active].error
    BY DEF AlwaysRecoverable, RecoverAccepts
  <2>1. n \in TurnNumber /\ turn[s][n].status # "absent"
    BY DEF RunningTurns
  <2>2. turn[s][n].active \in AttemptNumber
    BY <2>1, ActiveAttempt DEF IInv
  <2> QED
    BY <2>2 DEF IInv, SInv, Receipted
<1> QED
  BY <1>1, StoreInvariant, PTL

\* A waiting turn can be continued from its checkpoint or abandoned.
THEOREM StoreWaitingIsEscapable == StoreSpec => []WaitingIsEscapable
<1>1. IInv => WaitingIsEscapable
  <2> SUFFICES ASSUME IInv, NEW s \in Session, session[s].status = "waiting"
               PROVE  LET n == session[s].turns
                          r == session[s].active
                          a == attempt[s][turn[s][n].active] IN
                      /\ IsBranchTurn(s, r, n) /\ turn[s][n].status = "waiting"
                      /\ a.status = "waiting" /\ HasReceipt(a) /\ a.branch = r
                      /\ a.native = branch[s][r].native
    BY DEF WaitingIsEscapable
  <2> DEFINE n == session[s].turns
  <2> DEFINE r == session[s].active
  <2> DEFINE k == turn[s][n].active
  <2>1. RowTypes /\ SInv(s)
    BY DEF IInv
  <2>2. n > 0 /\ n \in TurnNumber /\ session[s].attempts \in 0..MaxAttempt
    <3>1. n > 0
      BY <2>1 DEF SInv, Linked
    <3> QED
      BY <2>1, <3>1, BoundAssumption DEF RowTypes, SessionRecord
  <2>3. turn[s][n].status = "waiting"
    BY <2>1, <2>2 DEF SInv, MatchesTurn
  <2>4. /\ k \in AttemptNumber /\ attempt[s][k].turn = n
    BY <2>1, <2>2, <2>3, ActiveAttempt
  <2>5. attempt[s][k].status = "waiting" /\ HasReceipt(attempt[s][k]) /\ attempt[s][k].branch = r
    <3>1. attempt[s][k].status = "waiting"
      BY <2>1, <2>2, <2>3 DEF SInv, Receipted
    <3>2. HasReceipt(attempt[s][k])
      BY <2>1, <2>4, <3>1 DEF SInv, Receipted
    <3>3. attempt[s][k].branch = r
      BY <2>1, <2>2, <2>3 DEF SInv, OnActive
    <3> QED
      BY <3>1, <3>2, <3>3
  <2>6. attempt[s][k].native = branch[s][r].native
    BY <2>1, <2>4, <2>5 DEF SInv, SameNative, HasReceipt
  <2>7. \A j \in AttemptNumber : attempt[s][j].branch = r => attempt[s][j].turn <= n
    <3> SUFFICES ASSUME NEW j \in AttemptNumber PROVE attempt[s][j].turn <= n
      OBVIOUS
    <3>1. CASE j <= session[s].attempts
      BY <2>1, <2>2, <3>1 DEF SInv, Linked
    <3>2. CASE j > session[s].attempts
      BY <2>1, <2>2, <3>2 DEF SInv, Linked
    <3> QED
      BY <3>1, <3>2, <2>2
  <2>8. IsBranchTurn(s, r, n)
    BY <2>4, <2>5, <2>7 DEF IsBranchTurn
  <2> QED
    BY <2>3, <2>5, <2>6, <2>8
<1> QED
  BY <1>1, StoreInvariant, PTL

\* A branch stays bound to its native session, whatever is called.
THEOREM StoreBindingIsFinal == StoreSpec => BindingIsFinal
<1>1. IInv /\ [StoreNext]_storeVars =>
        \A s \in Session, r \in Route :
          branch[s][r].native # NoNative => branch'[s][r].native = branch[s][r].native
  <2> SUFFICES ASSUME IInv, [StoreNext]_storeVars, NEW s \in Session, NEW r \in Route,
                      branch[s][r].native # NoNative
               PROVE  branch'[s][r].native = branch[s][r].native
    OBVIOUS
  <2>1. Shaped(s)
    BY StepShaped
  <2>2. CASE Same(s)
    BY <2>2 DEF Same
  <2>3. ASSUME NEW n \in TurnNumber, NEW q \in Route, NEW k \in AttemptNumber, Opens(s, n, q, k)
        PROVE  branch'[s][r].native = branch[s][r].native
    BY <2>3 DEF Opens
  <2>4. ASSUME NEW k \in AttemptNumber, NEW e \in Event, Notes(s, k, e)
        PROVE  branch'[s][r].native = branch[s][r].native
    BY <2>4 DEF Notes
  <2>5. ASSUME NEW n \in TurnNumber, NEW k \in 0..MaxAttempt, NEW o \in Outcome,
               Settles(s, n, k, o)
        PROVE  branch'[s][r].native = branch[s][r].native
    BY <2>5 DEF Settles
  <2>6. CASE Rearranges(s)
    BY <2>6 DEF Rearranges
  <2> QED
    BY <2>1, <2>2, <2>3, <2>4, <2>5, <2>6 DEF Shaped
<1>2. []IInv /\ [][StoreNext]_storeVars => BindingIsFinal
  BY <1>1, PTL DEF BindingIsFinal
<1> QED
  BY <1>2, StoreInvariant, PTL DEF StoreSpec

\* What has ended stays: attempts with their outcome, and turns with theirs.
KeepsHistory(s) ==
    /\ \A k \in AttemptNumber :
         attempt[s][k].status \in Outcome => attempt'[s][k] = attempt[s][k]
    /\ \A n \in TurnNumber :
         CASE turn[s][n].status \in Outcome \ Live -> turn'[s][n] = turn[s][n]
           [] turn[s][n].status = "waiting" ->
                turn'[s][n].status \in {"waiting", "running", "interrupted"}
           [] OTHER -> TRUE

LEMMA HistoryKept ==
    ASSUME IInv, [StoreNext]_storeVars, NEW s \in Session
    PROVE  KeepsHistory(s)
<1> USE DEF KeepsHistory
<1>1. Shaped(s) /\ SInv(s) /\ RowTypes
  BY StepShaped DEF IInv
<1>2. CASE Same(s)
  BY <1>2 DEF Same
<1>3. ASSUME NEW n \in TurnNumber, NEW r \in Route, NEW k \in AttemptNumber, Opens(s, n, r, k)
      PROVE  KeepsHistory(s)
  <2>1. /\ attempt[s][k].status = "absent"
        /\ n = session[s].turns + 1 => turn[s][n].status = "absent"
    BY <1>1, <1>3, BoundAssumption DEF SInv, Numbered, Opens, RowTypes, SessionRecord
  <2>2. \A j \in AttemptNumber :
          attempt[s][j].status \in Outcome => attempt'[s][j] = attempt[s][j]
    BY <1>3, <2>1 DEF Opens
  <2>3. turn[s][n].status \in {"absent", "running", "waiting"}
    BY <1>3, <2>1 DEF Opens
  <2>4. \A m \in TurnNumber :
          turn'[s][m] = IF m = n THEN [status |-> "running", active |-> k] ELSE turn[s][m]
    BY <1>3 DEF Opens
  <2> QED
    BY <2>2, <2>3, <2>4
<1>4. ASSUME NEW k \in AttemptNumber, NEW e \in Event, Notes(s, k, e)
      PROVE  KeepsHistory(s)
  BY <1>4 DEF Notes
<1>5. ASSUME NEW n \in TurnNumber, NEW k \in 0..MaxAttempt, NEW o \in Outcome,
             Settles(s, n, k, o)
      PROVE  KeepsHistory(s)
  BY <1>5 DEF Settles
<1>6. CASE Rearranges(s)
  BY <1>6 DEF Rearranges
<1> QED
  BY <1>1, <1>2, <1>3, <1>4, <1>5, <1>6 DEF Shaped

\* No call rewrites a finished attempt, or a turn that has its outcome.
THEOREM StoreHistoryIsFinal == StoreSpec => HistoryIsFinal
<1>1. IInv /\ [StoreNext]_storeVars => \A s \in Session : KeepsHistory(s)
  BY HistoryKept
<1>2. []IInv /\ [][StoreNext]_storeVars => HistoryIsFinal
  BY <1>1, PTL DEF HistoryIsFinal, KeepsHistory
<1> QED
  BY <1>2, StoreInvariant, PTL DEF StoreSpec

-----------------------------------------------------------------------------
(* The properties as they are checked.                                     *)

\* Session, turn, attempt and branch rows, which different transactions write,
\* agree with each other.
THEOREM StoreRowsAgree == StoreSpec => []RowsAgree
<1> QED
  BY StoreSessionMatchesTurn, StoreOneExecution, StoreNativeAgrees, PTL DEF RowsAgree

\* Recover accepts whatever a crash left behind, and a turn that waits can be
\* resumed or abandoned.
THEOREM StoreNoDeadEnd == StoreSpec => []NoDeadEnd
<1> QED
  BY StoreAlwaysRecoverable, StoreWaitingIsEscapable, PTL DEF NoDeadEnd

\* No transaction rewrites an outcome or binds a branch again.
THEOREM StoreNothingIsRewritten == StoreSpec => NothingIsRewritten
<1> QED
  BY StoreBindingIsFinal, StoreHistoryIsFinal DEF NothingIsRewritten

-----------------------------------------------------------------------------
(* What a branch has been told.  WatermarkCovered is not inductive: that a *)
(* watermark may move to a turn when an attempt of it completes rests on   *)
(* what the attempt was handed when it was opened, and a resumed attempt,  *)
(* which is handed nothing, rests on what the waiting one knew.            *)

\* Attempt k ran turn n, was handed it, or was told that it was left out.
Told(s, k, n) ==
    LET a == attempt[s][k] IN
    a.turn = n \/ n \in a.handoff \/ (a.truncated /\ a.turn > n)

\* An attempt on r that got through knows of turn n.
Covered(s, r, n) ==
    \E k \in AttemptNumber :
      /\ attempt[s][k].branch = r /\ attempt[s][k].status \in {"completed", "waiting"}
      /\ Told(s, k, n)

MarkedCovered(s) ==
    \A r \in Route, n \in TurnNumber : n <= branch[s][r].watermark => Covered(s, r, n)

Informed(s) ==
    \A k \in AttemptNumber, n \in TurnNumber : n <= attempt[s][k].turn =>
      LET a == attempt[s][k] IN
      /\ a.status = "running" => Told(s, k, n) \/ Covered(s, a.branch, n)
      /\ a.status \in {"completed", "waiting"} => Covered(s, a.branch, n)

\* The latest turn points at the latest attempt.
Latest(s) == session[s].turns > 0 => turn[s][session[s].turns].active = session[s].attempts

\* The running attempt k of s is on an account the user chose.
Consent(s, k) ==
    LET a == attempt[s][k] IN
    (\E j \in 1..(k - 1) : attempt[s][j].turn = a.turn)
      => \/ a.branch \in fallback[s]
         \/ \E j \in 1..(k - 1) : /\ attempt[s][j].turn = a.turn
                                  /\ attempt[s][j].branch = a.branch
                                  /\ attempt[s][j].status = "waiting"

Consented(s) == \A k \in AttemptNumber : attempt[s][k].status = "running" => Consent(s, k)

Remembers(s) == MarkedCovered(s) /\ Informed(s) /\ Latest(s) /\ Consented(s)

JInv == IInv /\ \A s \in Session : Remembers(s)

-----------------------------------------------------------------------------
(* A transaction opens an attempt, records an event in the running one, or *)
(* leaves alone what the attempts that matter here were told.              *)

KeepsMarks(s) == \A q \in Route : branch'[s][q].watermark = branch[s][q].watermark

Others(s, k) == \A j \in AttemptNumber : j # k => attempt'[s][j] = attempt[s][j]

OpensInformed(s, k) ==
    /\ KeepsMarks(s) /\ Others(s, k)
    /\ attempt'[s][k].status = "running"
    /\ \A n \in TurnNumber : n <= attempt'[s][k].turn =>
         Told(s, k, n)' \/ Covered(s, attempt'[s][k].branch, n)

NotesInformed(s, k) ==
    /\ Others(s, k)
    /\ attempt[s][k].status = "running"
    /\ attempt'[s][k].turn = attempt[s][k].turn
    /\ attempt'[s][k].branch = attempt[s][k].branch
    /\ attempt'[s][k].handoff = attempt[s][k].handoff
    /\ attempt'[s][k].truncated = attempt[s][k].truncated
    /\ \A q \in Route :
         \/ branch'[s][q].watermark = branch[s][q].watermark
         \/ /\ q = attempt[s][k].branch /\ attempt'[s][k].status = "completed"
            /\ branch'[s][q].watermark = attempt[s][k].turn

LeavesInformed(s) ==
    /\ KeepsMarks(s)
    /\ \A k \in AttemptNumber :
         attempt'[s][k].status \in {"running", "completed", "waiting"} =>
           attempt'[s][k] = attempt[s][k]

Informs(s) ==
    \/ \E k \in AttemptNumber : OpensInformed(s, k) \/ NotesInformed(s, k)
    \/ LeavesInformed(s)

\* A branch does not forget: an attempt that got through keeps what it knew.
LEMMA CoveredKept ==
    ASSUME NEW s \in Session, KeepsHistory(s), NEW r, NEW n, Covered(s, r, n)
    PROVE  Covered(s, r, n)'
BY DEF KeepsHistory, Covered, Told

\* Every branch stays informed of the turns under its watermark.
LEMMA InformsKeeps ==
    ASSUME RowTypes, RowTypes', NEW s \in Session, KeepsHistory(s), MarkedCovered(s),
           Informed(s), Informs(s)
    PROVE  (MarkedCovered(s) /\ Informed(s))'
<1>1. \A r, n : Covered(s, r, n) => Covered(s, r, n)'
  BY CoveredKept
<1>2. ASSUME NEW k \in AttemptNumber, OpensInformed(s, k)
      PROVE  (MarkedCovered(s) /\ Informed(s))'
  <2>1. MarkedCovered(s)'
    BY <1>1, <1>2 DEF OpensInformed, KeepsMarks, MarkedCovered
  <2>2. ASSUME NEW j \in AttemptNumber, NEW n \in TurnNumber, n <= attempt'[s][j].turn
        PROVE  /\ attempt'[s][j].status = "running" =>
                    Told(s, j, n)' \/ Covered(s, attempt[s][j].branch, n)'
               /\ attempt'[s][j].status \in {"completed", "waiting"} =>
                    Covered(s, attempt[s][j].branch, n)'
    <3>1. CASE j = k
      BY <1>1, <1>2, <2>2, <3>1 DEF OpensInformed
    <3>2. CASE j # k
      <4>1. attempt'[s][j] = attempt[s][j]
        BY <1>2, <3>2 DEF OpensInformed, Others
      <4>2. Told(s, j, n) => Told(s, j, n)'
        BY <4>1 DEF Told
      <4> QED
        BY <1>1, <2>2, <4>1, <4>2 DEF Informed
    <3> QED
      BY <3>1, <3>2
  <2> QED
    BY <2>1, <2>2 DEF Informed
<1>3. ASSUME NEW k \in AttemptNumber, NotesInformed(s, k)
      PROVE  (MarkedCovered(s) /\ Informed(s))'
  <2>1. \A n \in TurnNumber : Told(s, k, n) => Told(s, k, n)'
    BY <1>3 DEF NotesInformed, Told
  <2>2. \A n \in TurnNumber :
          n <= attempt[s][k].turn /\ attempt'[s][k].status \in {"completed", "waiting"} =>
            Covered(s, attempt[s][k].branch, n)'
    <3> SUFFICES ASSUME NEW n \in TurnNumber, n <= attempt[s][k].turn,
                        attempt'[s][k].status \in {"completed", "waiting"}
                 PROVE  Covered(s, attempt[s][k].branch, n)'
      OBVIOUS
    <3>1. Told(s, k, n) \/ Covered(s, attempt[s][k].branch, n)
      BY <1>3 DEF NotesInformed, Informed
    <3>2. CASE Told(s, k, n)
      <4>1. Told(s, k, n)' /\ attempt'[s][k].branch = attempt[s][k].branch
        BY <1>3, <2>1, <3>2 DEF NotesInformed
      <4> QED
        BY <4>1 DEF Covered
    <3>3. CASE Covered(s, attempt[s][k].branch, n)
      <4>1. PICK q : q = attempt[s][k].branch
        OBVIOUS
      <4>2. Covered(s, q, n)' /\ attempt'[s][k].branch = q
        BY <1>1, <1>3, <3>3, <4>1 DEF NotesInformed
      <4> QED
        BY <4>2
    <3> QED
      BY <3>1, <3>2, <3>3
  <2>3. MarkedCovered(s)'
    BY <1>1, <1>3, <2>2 DEF NotesInformed, MarkedCovered
  <2>4. ASSUME NEW j \in AttemptNumber, NEW n \in TurnNumber, n <= attempt'[s][j].turn
        PROVE  /\ attempt'[s][j].status = "running" =>
                    Told(s, j, n)' \/ Covered(s, attempt[s][j].branch, n)'
               /\ attempt'[s][j].status \in {"completed", "waiting"} =>
                    Covered(s, attempt[s][j].branch, n)'
    <3>1. CASE j = k
      <4>1. Told(s, k, n)' \/ Covered(s, attempt[s][k].branch, n)'
        BY <1>1, <1>3, <2>1, <2>4, <3>1 DEF NotesInformed, Informed
      <4> QED
        BY <4>1, <3>1, <2>4, <1>3, <2>2 DEF NotesInformed
    <3>2. CASE j # k
      <4>1. attempt'[s][j] = attempt[s][j]
        BY <1>3, <3>2 DEF NotesInformed, Others
      <4>2. Told(s, j, n) => Told(s, j, n)'
        BY <4>1 DEF Told
      <4> QED
        BY <1>1, <2>4, <4>1, <4>2 DEF Informed
    <3> QED
      BY <3>1, <3>2
  <2> QED
    BY <2>3, <2>4, <1>3 DEF Informed, NotesInformed
<1>4. CASE LeavesInformed(s)
  <2>1. MarkedCovered(s)'
    BY <1>1, <1>4 DEF LeavesInformed, KeepsMarks, MarkedCovered
  <2>2. ASSUME NEW j \in AttemptNumber, NEW n \in TurnNumber, n <= attempt'[s][j].turn,
               attempt'[s][j].status \in {"running", "completed", "waiting"}
        PROVE  /\ attempt'[s][j].branch = attempt[s][j].branch
               /\ attempt'[s][j].status = "running" =>
                    Told(s, j, n)' \/ Covered(s, attempt[s][j].branch, n)'
               /\ attempt'[s][j].status \in {"completed", "waiting"} =>
                    Covered(s, attempt[s][j].branch, n)'
    <3>1. attempt'[s][j] = attempt[s][j]
      BY <1>4, <2>2 DEF LeavesInformed
    <3>2. Told(s, j, n) => Told(s, j, n)'
      BY <3>1 DEF Told
    <3> QED
      BY <1>1, <2>2, <3>1, <3>2 DEF Informed
  <2> QED
    BY <2>1, <2>2 DEF Informed
<1> QED
  BY <1>2, <1>3, <1>4 DEF Informs

-----------------------------------------------------------------------------
(* Each action informs the branches, asks for consent, and keeps the route *)
(* of a turn under way.                                                    *)

RouteKept(s) ==
    BlocksInput(s) =>
      /\ fallback'[s] = fallback[s] /\ waits'[s] = waits[s]
      /\ session'[s].active # session[s].active =>
           /\ session'[s].active \in fallback[s]
           /\ Harmless(attempt[s][session[s].attempts])

Follows(s) == Informs(s) /\ Consented(s)' /\ RouteKept(s)

\* A session that a transaction does not touch.
Unmoved(s) == Same(s) /\ fallback'[s] = fallback[s] /\ waits'[s] = waits[s]

LEMMA UnmovedFollows ==
    ASSUME NEW s \in Session, Consented(s), Unmoved(s)
    PROVE  Follows(s)
<1>1. Informs(s)
  BY DEF Unmoved, Same, Informs, LeavesInformed, KeepsMarks
<1>2. Consented(s)'
  BY DEF Unmoved, Same, Consented, Consent
<1>3. RouteKept(s)
  BY DEF Unmoved, Same, RouteKept
<1> QED
  BY <1>1, <1>2, <1>3 DEF Follows

\* The latest turn keeps pointing at the latest attempt.
LEMMA LatestKept ==
    ASSUME RowTypes, RowTypes', NEW s \in Session, SInv(s), Latest(s), Shaped(s)
    PROVE  Latest(s)'
<1>1. session[s].turns \in 0..MaxTurn /\ MaxTurn \in Nat
  BY BoundAssumption DEF RowTypes, SessionRecord
<1>2. CASE Same(s)
  BY <1>2 DEF Same, Latest
<1>3. ASSUME NEW n \in TurnNumber, NEW r \in Route, NEW k \in AttemptNumber, Opens(s, n, r, k)
      PROVE  Latest(s)'
  <2>1. /\ session'[s] = [status |-> "running", active |-> r, turns |-> n, attempts |-> k]
        /\ turn'[s][n] = [status |-> "running", active |-> k]
    BY <1>3 DEF Opens
  <2> QED
    BY <2>1 DEF Latest
<1>4. ASSUME NEW k \in AttemptNumber, NEW e \in Event, Notes(s, k, e)
      PROVE  Latest(s)'
  BY <1>4 DEF Notes, Latest
<1>5. ASSUME NEW n \in TurnNumber, NEW k \in 0..MaxAttempt, NEW o \in Outcome,
             Settles(s, n, k, o)
      PROVE  Latest(s)'
  <2>1. /\ session'[s].turns = session[s].turns /\ session'[s].attempts = session[s].attempts
        /\ \A m \in TurnNumber : turn'[s][m].active = turn[s][m].active
    BY <1>5 DEF Settles
  <2> QED
    BY <1>1, <2>1 DEF Latest
<1>6. CASE Rearranges(s)
  <2>1. /\ session'[s].turns = session[s].turns /\ session'[s].attempts = session[s].attempts
        /\ \A m \in TurnNumber : turn'[s][m].active = turn[s][m].active
    BY <1>6 DEF Rearranges
  <2> QED
    BY <1>1, <2>1 DEF Latest
<1> QED
  BY <1>2, <1>3, <1>4, <1>5, <1>6 DEF Shaped

\* A handoff tells the branch of every turn that its watermark does not cover,
\* or says that it left some out.
LEMMA OpeningInforms ==
    ASSUME RowTypes, NEW s \in Session, NEW n \in TurnNumber, NEW r \in Route,
           NEW h \in Handoffs(s, r), NEW cut \in BOOLEAN, cut = TRUE \/ h = Unseen(s, r),
           OpenAttempt(s, n, r, h, cut), KeepsMarks(s), MarkedCovered(s),
           n <= session[s].turns + 1,
           \A m \in TurnNumber : turn[s][m].status = "running" => m = n,
           NEW k, k = session[s].attempts + 1
    PROVE  k \in AttemptNumber /\ OpensInformed(s, k)
<1>1. /\ k \in AttemptNumber /\ Others(s, k)
      /\ attempt'[s][k].turn = n /\ attempt'[s][k].branch = r
      /\ attempt'[s][k].status = "running"
      /\ attempt'[s][k].handoff = h /\ attempt'[s][k].truncated = cut
  BY OpenedAttempt DEF Others
<1>2. /\ session[s].turns \in 0..MaxTurn /\ MaxTurn \in Nat
      /\ branch[s][r].watermark \in 0..MaxTurn
  BY BoundAssumption DEF RowTypes, SessionRecord, BranchRecord
<1>3. ASSUME NEW m \in TurnNumber, m <= n
      PROVE  \/ m = n \/ m \in h \/ (cut = TRUE /\ n > m)
             \/ Covered(s, r, m)
  <2>1. CASE m <= branch[s][r].watermark
    BY <2>1 DEF MarkedCovered
  <2>2. CASE ~(m <= branch[s][r].watermark) /\ m # n
    <3>1. m \in Unseen(s, r) /\ n > m
      BY <1>2, <1>3, <2>2 DEF Unseen
    <3> QED
      BY <3>1
  <2> QED
    BY <2>1, <2>2
<1>4. ASSUME NEW m \in TurnNumber, m <= n
      PROVE  Told(s, k, m)' \/ Covered(s, r, m)
  BY <1>1, <1>3, <1>4 DEF Told
<1> QED
  BY <1>1, <1>4 DEF OpensInformed

\* BeginTurn: the first attempt of a turn needs no consent but the prompt.
LEMMA BeginTurnFollows ==
    ASSUME IInv, NEW s \in Session, Remembers(s), NEW r \in Route, BeginTurn(s, r)
    PROVE  Follows(s) /\ \A p \in Session : p # s => Unmoved(p)
<1>0. PICK n \in TurnNumber, k \in AttemptNumber :
         n = session[s].turns + 1 /\ k = session[s].attempts + 1
  BY DEF BeginTurn, OpenAttempt
<1>1. /\ RowTypes /\ SInv(s) /\ session \in [Session -> SessionRecord] /\ ~BlocksInput(s) /\ session[s].status # "running"
      /\ branch' = branch /\ fallback' = fallback /\ waits' = waits
  BY <1>0 DEF IInv, BeginTurn, BeginTurnAccepts, RowTypes, Idle, BlocksInput
<1>2. PICK h \in Handoffs(s, r) : OpenAttempt(s, n, r, h, h # Unseen(s, r))
  BY <1>0 DEF BeginTurn
<1>3. PICK cut \in BOOLEAN : OpenAttempt(s, n, r, h, cut) /\ (cut = TRUE \/ h = Unseen(s, r))
  BY <1>2
<1>4. OpenAttempt(s, n, r, h, cut)
  BY <1>3
<1>5. \A m \in TurnNumber : turn[s][m].status = "running" => m = n
  BY <1>1, NotRunningIsQuiet DEF BlocksInput
<1>6. KeepsMarks(s)
  BY <1>1 DEF KeepsMarks
<1>7. k \in AttemptNumber /\ OpensInformed(s, k)
  <2>1. n <= session[s].turns + 1
    BY <1>0
  <2> QED
    BY <2>1, <1>0, <1>1, <1>3, <1>4, <1>5, <1>6, OpeningInforms DEF Remembers
<1>8. Consented(s)'
  <2>1. Quiet(s)
    BY <1>1, NotRunningIsQuiet
  <2>2. attempt'[s][k].turn = n /\ \A j \in AttemptNumber : j # k => attempt'[s][j] = attempt[s][j]
    BY <1>0, <1>1, <1>4, OpenedAttempt
  <2>3. \A j \in AttemptNumber : attempt[s][j].turn # n
    <3>1. session[s].turns \in 0..MaxTurn /\ session[s].attempts \in 0..MaxAttempt
          /\ MaxTurn \in Nat /\ MaxAttempt \in Nat
      BY <1>1, BoundAssumption DEF SessionRecord
    <3> QED
      BY <1>0, <1>1, <3>1 DEF SInv, Linked
  <2>4. ASSUME NEW i \in AttemptNumber, attempt'[s][i].status = "running"
        PROVE  i = k
    BY <2>1, <2>2, <2>4 DEF Quiet
  <2>5. k \in 1..MaxAttempt /\ MaxAttempt \in Nat
    BY <1>7, BoundAssumption
  <2>6. \A j \in 1..(k - 1) : j \in AttemptNumber /\ attempt'[s][j].turn # n
    BY <2>2, <2>3, <2>5
  <2>7. Consent(s, k)'
    BY <2>2, <2>6 DEF Consent
  <2> QED
    BY <2>4, <2>7 DEF Consented
<1>9. RouteKept(s)
  BY <1>1 DEF RouteKept
<1>10. \A p \in Session : p # s => Unmoved(p)
  BY <1>1, BeginTurnShaped DEF Elsewhere, Unmoved
<1> QED
  BY <1>7, <1>8, <1>9, <1>10 DEF Follows, Informs

\* An attempt that is opened by consent: the others of the session are quiet.
LEMMA OpenedConsented ==
    ASSUME NEW s \in Session, Quiet(s), NEW k \in AttemptNumber, Others(s, k),
           Consent(s, k)'
    PROVE  Consented(s)'
BY DEF Quiet, Others, Consented

\* BeginFallback: its route was approved, and the attempt before it harmless.
LEMMA BeginFallbackFollows ==
    ASSUME IInv, NEW s \in Session, Remembers(s), NEW j \in AttemptNumber, NEW r \in Route,
           BeginFallback(s, j, r)
    PROVE  Follows(s) /\ \A p \in Session : p # s => Unmoved(p)
<1>1. /\ RowTypes /\ SInv(s) /\ session \in [Session -> SessionRecord]
      /\ branch \in [Session -> [Route -> BranchRecord]]
      /\ FallbackAccepts(s, j, r)
      /\ session' = [session EXCEPT ![s].active = r, ![s].attempts = @ + 1]
      /\ branch' = [branch EXCEPT ![s] = Activated(s, r)]
      /\ fallback' = fallback /\ waits' = waits
  BY DEF IInv, BeginFallback, RowTypes
<1>2. PICK n \in TurnNumber :
        /\ n = attempt[s][j].turn /\ turn[s][n].status = "running" /\ turn[s][n].active = j
        /\ Harmless(attempt[s][j]) /\ r \in fallback[s]
  BY <1>1 DEF FallbackAccepts, RunningTurns, SafeToReplace, Harmless
<1>3. PICK k \in AttemptNumber : k = session[s].attempts + 1
  BY DEF BeginFallback, OpenAttempt
<1>4. PICK h \in Handoffs(s, r), cut \in BOOLEAN :
         OpenAttempt(s, n, r, h, cut) /\ (cut = TRUE \/ h = Unseen(s, r))
  <2>1. PICK h \in Handoffs(s, r) : OpenAttempt(s, n, r, h, h # Unseen(s, r))
    BY <1>2 DEF BeginFallback
  <2> QED
    BY <2>1
<1>5. n = session[s].turns /\ \A m \in TurnNumber : turn[s][m].status = "running" => m = n
  BY <1>1, <1>2 DEF SInv, MatchesTurn
<1>6. Quiet(s)
  <2> SUFFICES ASSUME NEW i \in AttemptNumber, attempt[s][i].status = "running" PROVE FALSE
    BY DEF Quiet
  <2>1. OwnsSession(s, i)
    BY <1>1 DEF SInv, Exclusive
  <2> QED
    BY <2>1, <1>2, <1>5 DEF OwnsSession, Harmless
<1>7. KeepsMarks(s)
  BY <1>1, ActivatedRows DEF KeepsMarks
<1>8. OpensInformed(s, k)
  <2>1. n <= session[s].turns + 1
    BY <1>5
  <2> QED
    BY <2>1, <1>1, <1>3, <1>4, <1>5, <1>7, OpeningInforms DEF Remembers
<1>9. Consented(s)'
  <2>1. attempt'[s][k].branch = r /\ Others(s, k)
    BY <1>1, <1>3, <1>4, OpenedAttempt DEF Others
  <2>2. Consent(s, k)'
    BY <2>1, <1>1, <1>2 DEF Consent
  <2> QED
    BY <1>6, <2>1, <2>2, OpenedConsented
<1>10. RouteKept(s)
  <2>1. turn[s][session[s].turns].active = session[s].attempts
    BY <1>5 DEF Remembers, Latest
  <2>2. session'[s].active = r
    BY <1>1 DEF SessionRecord
  <2> QED
    BY <2>1, <2>2, <1>1, <1>2, <1>5 DEF RouteKept
<1>11. \A p \in Session : p # s => Unmoved(p)
  BY <1>1, BeginFallbackShaped DEF Elsewhere, Unmoved
<1> QED
  BY <1>8, <1>9, <1>10, <1>11 DEF Follows, Informs

\* BeginWaitResume: the waiting attempt before it ran on the same branch, and
\* knew of every turn up to its own.
LEMMA BeginWaitResumeFollows ==
    ASSUME IInv, NEW s \in Session, Remembers(s), NEW r \in Route, NEW n \in TurnNumber,
           NEW w \in Checkpoint, BeginWaitResume(s, r, n, w)
    PROVE  Follows(s) /\ \A p \in Session : p # s => Unmoved(p)
<1>1. /\ RowTypes /\ SInv(s) /\ session \in [Session -> SessionRecord]
      /\ WaitResumeAccepts(s, r, n, w)
      /\ OpenAttempt(s, n, r, {}, FALSE)
      /\ session' = [session EXCEPT ![s].status = "running", ![s].attempts = @ + 1]
      /\ branch' = branch /\ fallback' = fallback /\ waits' = waits
  BY DEF IInv, BeginWaitResume, RowTypes
<1>2. PICK k \in AttemptNumber : k = session[s].attempts + 1
  BY <1>1 DEF OpenAttempt
<1>3. PICK h \in Handoffs(s, r), cut \in BOOLEAN : OpenAttempt(s, n, r, h, cut)
  <2>1. PICK h \in Handoffs(s, r) : h = {}
    BY FS_EmptySet, BoundAssumption DEF Handoffs
  <2>2. PICK cut \in BOOLEAN : cut = FALSE
    OBVIOUS
  <2> QED
    BY <1>1, <2>1, <2>2
<1>4. /\ attempt'[s][k].turn = n /\ attempt'[s][k].branch = r
      /\ attempt'[s][k].status = "running" /\ Others(s, k)
  BY <1>1, <1>2, <1>3, OpenedAttempt DEF Others
<1>5. PICK i \in AttemptNumber :
        /\ i = turn[s][n].active /\ i <= session[s].attempts
        /\ attempt[s][i].turn = n /\ attempt[s][i].status = "waiting"
        /\ attempt[s][i].branch = r
  <2>1. turn[s][n].status # "absent"
    BY <1>1 DEF WaitResumeAccepts
  <2> QED
    BY <1>1, <2>1, ActiveAttempt DEF WaitResumeAccepts
<1>6. OpensInformed(s, k)
  <2>1. \A m \in TurnNumber : m <= n => Covered(s, r, m)
    BY <1>5 DEF Remembers, Informed
  <2>2. KeepsMarks(s)
    BY <1>1 DEF KeepsMarks
  <2> QED
    BY <2>1, <2>2, <1>4 DEF OpensInformed
<1>7. Consented(s)'
  <2>1. i \in 1..(k - 1)
    BY <1>1, <1>2, <1>5, BoundAssumption DEF SessionRecord
  <2>2. attempt'[s][i] = attempt[s][i]
    BY <1>2, <1>4, <2>1 DEF Others
  <2>3. Consent(s, k)'
    BY <2>1, <2>2, <1>4, <1>5 DEF Consent
  <2>4. Quiet(s)
    BY <1>1, NotRunningIsQuiet DEF WaitResumeAccepts
  <2> QED
    BY <2>3, <2>4, <1>4, OpenedConsented
<1>8. RouteKept(s)
  <2>1. session'[s].active = session[s].active
    BY <1>1 DEF SessionRecord
  <2> QED
    BY <2>1, <1>1 DEF RouteKept
<1>9. \A p \in Session : p # s => Unmoved(p)
  BY <1>1, BeginWaitResumeShaped DEF Elsewhere, Unmoved
<1> QED
  BY <1>6, <1>7, <1>8, <1>9 DEF Follows, Informs

\* Record: the watermark moves when the attempt of a turn succeeds, and the
\* attempt stays the one it was.
LEMMA RecordFollows ==
    ASSUME IInv, NEW s \in Session, Remembers(s), NEW k \in AttemptNumber, NEW e \in Event,
           NEW fx \in BOOLEAN, Record(s, k, e, fx)
    PROVE  Follows(s) /\ \A p \in Session : p # s => Unmoved(p)
<1> DEFINE a == attempt[s][k]
<1> DEFINE b == branch[s][a.branch]
<1> DEFINE nat == NativeAfter(s, k, e)
<1> DEFINE x == [a EXCEPT !.native  = nat,
                          !.effects = a.effects \/ fx,
                          !.failure = IF IsFatal(e) THEN e.failure ELSE a.failure,
                          !.error   = a.error \/ IsFatal(e),
                          !.status  = IF e.kind = "completed" THEN e.outcome ELSE a.status,
                          !.wait    = IF e.kind = "completed" THEN e.wait ELSE a.wait]
<1> DEFINE y == [b EXCEPT !.native = IF NamesNative(e) THEN e.native ELSE b.native,
                          !.watermark = IF e.kind = "completed" /\ e.outcome = "completed"
                                          THEN a.turn ELSE b.watermark]
<1>1. /\ RowTypes /\ SInv(s)
      /\ attempt \in [Session -> [AttemptNumber -> AttemptRecord]]
      /\ branch \in [Session -> [Route -> BranchRecord]]
      /\ RecordAccepts(s, k, e)
      /\ attempt' = [attempt EXCEPT ![s][k] = x]
      /\ branch' = [branch EXCEPT ![s][a.branch] = y]
      /\ session' = session /\ turn' = turn /\ fallback' = fallback /\ waits' = waits
  BY DEF IInv, RowTypes, Record
<1>2. a \in AttemptRecord /\ a.status = "running"
  BY <1>1 DEF RecordAccepts
<1>3. a.branch \in Route
  <2>1. k <= session[s].attempts
    BY <1>1, <1>2, BoundAssumption DEF SInv, Numbered, RowTypes, SessionRecord
  <2> QED
    BY <2>1, <1>1 DEF SInv, Linked
<1>4. b \in BranchRecord
  BY <1>1, <1>3
<1>5. /\ x.turn = a.turn /\ x.branch = a.branch /\ x.handoff = a.handoff
      /\ x.truncated = a.truncated
      /\ x.status = IF e.kind = "completed" THEN e.outcome ELSE a.status
  <2> HIDE DEF a, nat
  <2> QED
    BY <1>2 DEF AttemptRecord
<1>6. y.watermark = IF e.kind = "completed" /\ e.outcome = "completed"
                      THEN a.turn ELSE b.watermark
  <2> HIDE DEF a, b
  <2> QED
    BY <1>4 DEF BranchRecord
<1> HIDE DEF x, y
<1>7. /\ attempt'[s][k] = x /\ Others(s, k)
      /\ \A q \in Route : branch'[s][q] = IF q = a.branch THEN y ELSE branch[s][q]
  BY <1>1, <1>3 DEF Others
<1>8. NotesInformed(s, k)
  BY <1>2, <1>5, <1>6, <1>7 DEF NotesInformed
<1>9. Consented(s)'
  <2>1. /\ attempt'[s][k].turn = attempt[s][k].turn
        /\ attempt'[s][k].branch = attempt[s][k].branch
    BY <1>5, <1>7
  <2>2. k \in 1..MaxAttempt /\ MaxAttempt \in Nat
    BY BoundAssumption
  <2>3. Consent(s, k) => Consent(s, k)'
    <3>1. \A i \in 1..(k - 1) : attempt'[s][i] = attempt[s][i]
      BY <1>7, <2>2 DEF Others
    <3> QED
      BY <1>1, <2>1, <3>1 DEF Consent
  <2>4. ASSUME NEW i \in AttemptNumber, attempt'[s][i].status = "running"
        PROVE  i = k
    <3> SUFFICES ASSUME i # k PROVE FALSE
      OBVIOUS
    <3>1. attempt[s][i].status = "running"
      BY <1>7, <2>4 DEF Others
    <3>2. OwnsSession(s, i) /\ OwnsSession(s, k)
      BY <1>1, <1>2, <3>1 DEF SInv, Exclusive
    <3> QED
      BY <3>2 DEF OwnsSession
  <2>5. Consent(s, k)
    BY <1>2 DEF Remembers, Consented
  <2> QED
    BY <2>3, <2>4, <2>5 DEF Consented
<1>10. RouteKept(s)
  BY <1>1 DEF RouteKept
<1>11. \A p \in Session : p # s => Unmoved(p)
  BY <1>1, RecordShaped DEF Elsewhere, Unmoved
<1> QED
  BY <1>8, <1>9, <1>10, <1>11 DEF Follows, Informs

\* Attempts that are at most ended keep the consent they had.
LEMMA EndedConsented ==
    ASSUME NEW s \in Session, Consented(s), fallback'[s] = fallback[s],
           \A k \in AttemptNumber :
             /\ attempt'[s][k].turn = attempt[s][k].turn
             /\ attempt'[s][k].branch = attempt[s][k].branch
             /\ attempt[s][k].status = "waiting" => attempt'[s][k].status = "waiting"
             /\ attempt'[s][k].status = "running" => attempt[s][k].status = "running"
    PROVE  Consented(s)'
<1> SUFFICES ASSUME NEW k \in AttemptNumber, attempt'[s][k].status = "running"
             PROVE  Consent(s, k)'
  BY DEF Consented
<1>1. Consent(s, k)
  BY DEF Consented
<1>2. \A j \in 1..(k - 1) : j \in AttemptNumber
  BY BoundAssumption
<1> QED
  BY <1>1, <1>2 DEF Consent

\* FinishTurn: an attempt without a terminal event ends as one that failed.
LEMMA FinishTurnFollows ==
    ASSUME IInv, NEW s \in Session, Remembers(s), NEW n \in TurnNumber, NEW o \in Outcome,
           FinishTurn(s, n, o)
    PROVE  Follows(s) /\ \A p \in Session : p # s => Unmoved(p)
<1> DEFINE k == turn[s][n].active
<1> DEFINE b == Abandoned(attempt[s][k], o)
<1>1. /\ RowTypes /\ SInv(s)
      /\ session \in [Session -> SessionRecord]
      /\ attempt \in [Session -> [AttemptNumber -> AttemptRecord]]
      /\ FinishAccepts(s, n, o)
      /\ attempt' = [attempt EXCEPT ![s][k] = b]
      /\ session' = [session EXCEPT ![s].status = o]
      /\ branch' = branch /\ fallback' = fallback /\ waits' = waits
  BY DEF IInv, RowTypes, FinishTurn
<1>2. /\ turn[s][n].status = "running"
      /\ o \in {"completed", "waiting"} => attempt[s][k].status = o
  BY <1>1 DEF FinishAccepts
<1>3. k \in AttemptNumber /\ attempt[s][k] \in AttemptRecord
  BY <1>1, <1>2, ActiveAttempt
<1>4. IF attempt[s][k].status # "running" THEN b = attempt[s][k]
      ELSE b.status = o /\ b.turn = attempt[s][k].turn /\ b.branch = attempt[s][k].branch
  BY <1>3, AbandonedRow
<1> HIDE DEF b
<1>5. attempt'[s][k] = b /\ \A j \in AttemptNumber : j # k => attempt'[s][j] = attempt[s][j]
  BY <1>1, <1>3
<1>6. LeavesInformed(s)
  BY <1>1, <1>2, <1>4, <1>5 DEF LeavesInformed, KeepsMarks
<1>7. Consented(s)'
  BY <1>1, <1>4, <1>5, EndedConsented DEF Remembers
<1>8. RouteKept(s)
  <2>1. session'[s].active = session[s].active
    BY <1>1 DEF SessionRecord
  <2> QED
    BY <2>1, <1>1 DEF RouteKept
<1>9. \A p \in Session : p # s => Unmoved(p)
  BY <1>1, FinishTurnShaped DEF Elsewhere, Unmoved
<1> QED
  BY <1>6, <1>7, <1>8, <1>9 DEF Follows, Informs

\* The calls an idle session takes, the two policies among them, come when
\* nothing runs or waits.
LEMMA IdleFollows ==
    ASSUME IInv, NEW s \in Session, Remembers(s), IdleStep(s)
    PROVE  Follows(s) /\ \A p \in Session : p # s => Unmoved(p)
<1>1. /\ RowTypes /\ SInv(s)
      /\ branch \in [Session -> [Route -> BranchRecord]]
      /\ fallback \in [Session -> SUBSET Route] /\ waits \in [Session -> BOOLEAN]
  BY DEF IInv, RowTypes
<1>2. ~BlocksInput(s) /\ attempt' = attempt
  BY DEF IdleStep, CreateSession, Switch, SetFallback, SetDurableWaits, BindNative,
         Idle, Exists, BlocksInput
<1>3. Quiet(s)
  BY <1>1, <1>2, NotRunningIsQuiet DEF BlocksInput
<1>4. KeepsMarks(s)
  <2>1. ASSUME NEW r \in Route, NEW q \in Route
        PROVE  /\ [branch EXCEPT ![s][r].exists = TRUE][s][q].watermark = branch[s][q].watermark
               /\ \A nat \in Native :
                    [branch EXCEPT ![s][r].native = nat][s][q].watermark = branch[s][q].watermark
    <3>1. branch[s][r] \in BranchRecord
      BY <1>1
    <3>2. /\ [branch[s][r] EXCEPT !.exists = TRUE].watermark = branch[s][r].watermark
          /\ \A nat \in Native :
               [branch[s][r] EXCEPT !.native = nat].watermark = branch[s][r].watermark
      BY <3>1 DEF BranchRecord
    <3> QED
      BY <3>2, <1>1
  <2>2. ASSUME NEW r \in Route, CreateSession(s, r)
        PROVE  KeepsMarks(s)
    BY <2>1, <2>2 DEF CreateSession, KeepsMarks
  <2>3. ASSUME NEW r \in Route, Switch(s, r)
        PROVE  KeepsMarks(s)
    BY <1>1, <2>3, ActivatedRows DEF Switch, KeepsMarks
  <2>4. ASSUME NEW r \in Route, NEW nat \in Native, BindNative(s, r, nat)
        PROVE  KeepsMarks(s)
    BY <2>1, <2>4 DEF BindNative, KeepsMarks
  <2> QED
    BY <2>2, <2>3, <2>4 DEF IdleStep, SetFallback, SetDurableWaits, KeepsMarks
<1>5. LeavesInformed(s)
  BY <1>2, <1>4 DEF LeavesInformed
<1>6. Consented(s)'
  BY <1>2, <1>3 DEF Quiet, Consented
<1>7. RouteKept(s)
  BY <1>2 DEF RouteKept
<1>8. \A p \in Session : p # s => fallback'[p] = fallback[p] /\ waits'[p] = waits[p]
  BY <1>1 DEF IdleStep, CreateSession, Switch, SetFallback, SetDurableWaits, BindNative
<1>9. \A p \in Session : p # s => Unmoved(p)
  BY <1>8, IdleShaped DEF Elsewhere, Unmoved
<1> QED
  BY <1>5, <1>6, <1>7, <1>9 DEF Follows, Informs

\* AbandonWaitingTurn touches neither the attempts nor the route.
LEMMA AbandonFollows ==
    ASSUME IInv, NEW s \in Session, Remembers(s), NEW r \in Route, NEW n \in TurnNumber,
           AbandonWaitingTurn(s, r, n)
    PROVE  Follows(s) /\ \A p \in Session : p # s => Unmoved(p)
<1>1. /\ session \in [Session -> SessionRecord]
      /\ session' = [session EXCEPT ![s].status = "interrupted"]
      /\ attempt' = attempt /\ branch' = branch /\ fallback' = fallback /\ waits' = waits
  BY DEF IInv, RowTypes, AbandonWaitingTurn
<1>2. LeavesInformed(s)
  BY <1>1 DEF LeavesInformed, KeepsMarks
<1>3. Consented(s)'
  BY <1>1 DEF Remembers, Consented, Consent
<1>4. RouteKept(s)
  <2>1. session'[s].active = session[s].active
    BY <1>1 DEF SessionRecord
  <2> QED
    BY <2>1, <1>1 DEF RouteKept
<1>5. \A p \in Session : p # s => Unmoved(p)
  BY <1>1, AbandonWaitingTurnShaped DEF Elsewhere, Unmoved
<1> QED
  BY <1>2, <1>3, <1>4, <1>5 DEF Follows, Informs

\* Recover ends every attempt that was running, and none of them well.
LEMMA RecoverFollows ==
    ASSUME IInv, NEW s \in Session, Remembers(s), Recover
    PROVE  Follows(s)
<1>1. /\ RowTypes /\ SInv(s)
      /\ session \in [Session -> SessionRecord]
      /\ attempt \in [Session -> [AttemptNumber -> AttemptRecord]]
      /\ branch' = branch /\ fallback' = fallback /\ waits' = waits
  BY DEF IInv, RowTypes, Recover
<1>2. ASSUME NEW k \in AttemptNumber
      PROVE  \/ attempt'[s][k] = attempt[s][k]
             \/ /\ attempt[s][k].status = "running" /\ attempt'[s][k].status = "interrupted"
                /\ attempt'[s][k].turn = attempt[s][k].turn
                /\ attempt'[s][k].branch = attempt[s][k].branch
  <2>1. attempt[s][k] \in AttemptRecord
    BY <1>1
  <2>2. attempt'[s][k] \in {Abandoned(attempt[s][k], "interrupted"), attempt[s][k]}
    BY DEF Recover
  <2> QED
    BY <2>1, <2>2, AbandonedRow
<1>3. LeavesInformed(s)
  BY <1>1, <1>2 DEF LeavesInformed, KeepsMarks
<1>4. Consented(s)'
  BY <1>1, <1>2, EndedConsented DEF Remembers
<1>5. RouteKept(s)
  <2>1. session'[s].active = session[s].active
    <3>1. session'[s] = session[s] \/ \E o : session'[s] = [session[s] EXCEPT !.status = o]
      BY DEF Recover
    <3>2. session[s] \in SessionRecord
      BY <1>1
    <3> QED
      BY <3>1, <3>2 DEF SessionRecord
  <2> QED
    BY <2>1, <1>1 DEF RouteKept
<1> QED
  BY <1>3, <1>4, <1>5 DEF Follows, Informs

\* Every transaction follows, for every session.
LEMMA StepFollows ==
    ASSUME JInv, [StoreNext]_storeVars, NEW s \in Session
    PROVE  Follows(s)
<1>1. IInv /\ \A p \in Session : Remembers(p)
  BY DEF JInv
<1>2. ASSUME NEW p \in Session, Follows(p), \A q \in Session : q # p => Unmoved(q)
      PROVE  Follows(s)
  BY <1>1, <1>2, UnmovedFollows DEF Remembers
<1>3. ASSUME NEW p \in Session, TurnStep(p)
      PROVE  Follows(s)
  <2>1. Follows(p) /\ \A q \in Session : q # p => Unmoved(q)
    BY <1>1, <1>3, BeginTurnFollows, BeginFallbackFollows, RecordFollows, FinishTurnFollows
       DEF TurnStep
  <2> QED
    BY <1>2, <2>1
<1>4. ASSUME NEW p \in Session, IdleStep(p)
      PROVE  Follows(s)
  BY <1>1, <1>2, <1>4, IdleFollows
<1>5. ASSUME NEW p \in Session, WaitStep(p)
      PROVE  Follows(s)
  <2>1. Follows(p) /\ \A q \in Session : q # p => Unmoved(q)
    BY <1>1, <1>5, BeginWaitResumeFollows, AbandonFollows DEF WaitStep
  <2> QED
    BY <1>2, <2>1
<1>6. CASE Recover
  BY <1>1, <1>6, RecoverFollows
<1>7. CASE UNCHANGED storeVars
  <2>1. Unmoved(s)
    BY <1>7 DEF storeVars, Unmoved, Same
  <2> QED
    BY <1>1, <2>1, UnmovedFollows DEF Remembers
<1> QED
  BY <1>3, <1>4, <1>5, <1>6, <1>7 DEF StoreNext

-----------------------------------------------------------------------------

\* The stronger invariant is inductive too.
LEMMA InformedNext == JInv /\ [StoreNext]_storeVars => JInv'
<1> SUFFICES ASSUME JInv, [StoreNext]_storeVars PROVE JInv'
  OBVIOUS
<1>1. IInv /\ IInv' /\ RowTypes /\ RowTypes'
  BY InvNext DEF JInv, IInv
<1>2. ASSUME NEW s \in Session
      PROVE  Remembers(s)'
  <2>1. Remembers(s) /\ SInv(s) /\ Shaped(s) /\ Follows(s) /\ KeepsHistory(s)
    BY <1>1, StepShaped, StepFollows, HistoryKept DEF JInv, IInv
  <2>2. (MarkedCovered(s) /\ Informed(s))'
    BY <1>1, <2>1, InformsKeeps DEF Remembers, Follows
  <2>3. Latest(s)'
    BY <1>1, <2>1, LatestKept DEF Remembers
  <2> QED
    BY <2>1, <2>2, <2>3 DEF Remembers, Follows
<1> QED
  BY <1>1, <1>2 DEF JInv

\* What branches know, and what the user consented to, in every reachable state.
THEOREM StoreInformed == StoreSpec => []JInv
<1>1. StoreInit => JInv
  <2> SUFFICES ASSUME StoreInit, NEW s \in Session PROVE Remembers(s)
    BY InvInit DEF JInv
  <2>1. /\ \A k \in AttemptNumber : attempt[s][k].status = "absent" /\ attempt[s][k].turn = 0
        /\ \A r \in Route : branch[s][r].watermark = 0
        /\ session[s].turns = 0
    BY DEF StoreInit, NoAttempt, NoBranch
  <2>2. MarkedCovered(s) /\ Informed(s)
    BY <2>1, BoundAssumption DEF MarkedCovered, Informed
  <2> QED
    BY <2>1, <2>2 DEF Remembers, Latest, Consented
<1>2. JInv /\ [StoreNext]_storeVars => JInv'
  BY InformedNext
<1> QED
  BY <1>1, <1>2, PTL DEF StoreSpec

\* Whatever a branch's watermark covers, its native session ran, was handed, or
\* was told to be left out: a later handoff may start behind the watermark.
THEOREM StoreWatermarkCovered == StoreSpec => []WatermarkCovered
<1>1. JInv => WatermarkCovered
  BY DEF JInv, Remembers, MarkedCovered, Covered, Told, WatermarkCovered
<1> QED
  BY <1>1, StoreInformed, PTL

\* No call of the store lets a turn go on with an engine that was not approved,
\* nor moves the route or the policies of a turn under way.
THEOREM StoreRoutesAreChosen == StoreSpec => RoutesAreChosen
<1>1. JInv => ConsentedRoute
  BY DEF JInv, Remembers, Consented, Consent, ConsentedRoute
<1>2. JInv /\ [StoreNext]_storeVars => \A s \in Session : RouteKept(s)
  BY StepFollows DEF Follows
<1>3. StoreSpec => ConsentKept
  BY <1>1, StoreInformed, PTL DEF ConsentKept
<1>4. []JInv /\ [][StoreNext]_storeVars => RouteFrozenDuringTurn
  BY <1>2, PTL DEF RouteFrozenDuringTurn, RouteKept
<1> QED
  BY <1>3, <1>4, StoreInformed, PTL DEF StoreSpec, RoutesAreChosen
=============================================================================
