-------------------------- MODULE HubRuntimeProofs --------------------------
(***************************************************************************)
(* Proofs about HubRuntime: for any number of sessions, routes, callers    *)
(* and attempts, what the supervisor believes of a session and what the    *)
(* database holds of it agree in every state, through cancellations,       *)
(* failing store calls, Close and crashes.                                 *)
(*                                                                         *)
(* Every step of the supervisor is one transaction of the store or none,   *)
(* so the invariant of HubStoreProofs holds here too.  What is added to it *)
(* is said per session, by the phase its owner is in, and of the callers   *)
(* and the process.                                                        *)
(***************************************************************************)
EXTENDS HubRuntime, HubStoreProofs

-----------------------------------------------------------------------------
(* The inductive invariant, of a session and r, what its owner believes.   *)

\* The attempt that the owner believes to run.
Mine(s, r) == attempt[s][r.attempt]

\* What a Start or ResumeWait asked for, before the store has answered.
Asked(s, r) ==
    r.phase = "admitting" =>
      /\ r.expected \in Route /\ r.native = NoNative /\ r.tries = 0
      /\ r.wait # 0 => r.turn \in TurnNumber

\* A claim is on a turn that runs, and on the attempt the turn is at.
Claims(s, r) ==
    r.phase \in Owning =>
      /\ r.turn \in TurnNumber /\ r.attempt \in AttemptNumber
      /\ turn[s][r.turn].status = "running" /\ turn[s][r.turn].active = r.attempt

\* A running session has its owner, unless an owner could not finish it.
Owned(s, r) ==
    session[s].status = "running" => r.phase \in Owning \/ process = "down" \/ faults > 0

\* The claimed attempt is as the store opened it.
Unused(s, r) ==
    r.phase = "claimed" => Mine(s, r).status = "running" /\ ~Mine(s, r).error

\* From the first look at the attempt until it is judged, the contract of the
\* stream and the row of the attempt say the same.
Streams(s, r) ==
    r.phase \in {"starting", "executing", "returned", "closing"} =>
      /\ Mine(s, r).status # "running" <=> r.contract.terminal
      /\ r.contract.terminal => Mine(s, r).status = r.outcome
      /\ Mine(s, r).error = r.contract.fatal
      /\ Mine(s, r).native = r.native
      /\ r.effects => Mine(s, r).effects

\* Callbacks come while the engine has not been judged, and the only events
\* after that are the two by which the owner ends the stream itself.
Calls(s, r) ==
    /\ r.pending \in Event
    /\ r.accepting => r.phase \in {"executing", "returned"}
    /\ r.pending # NoEvent => r.phase \in {"executing", "returned", "closing"}
    /\ r.phase = "closing" =>
         /\ r.outcome \in {"failed", "cancelled"}
         /\ \/ r.pending = Completed(r.outcome, 0)
            \/ \E f \in FailureKind \ {"none"} : r.pending = Error(FALSE, f)

\* An outcome that claims something is that of the attempt in the store, whose
\* engine reported it and returned without an error.
Judged(s, r) ==
    /\ r.phase \in {"deciding", "routing", "finishing"}
    /\ r.outcome \in {"completed", "waiting"}
    => Mine(s, r).status = r.outcome /\ r.contract.terminal /\ r.err = "none" /\ ~r.rejected

\* A process that is down has no runs, one that closes admits none.
Admits(s, r) ==
    /\ process \in {"closed", "down"} => r.phase = "none"
    /\ process = "closing" /\ r.phase # "none" => s \in joining

Fits(s, r) ==
    /\ Asked(s, r) /\ Claims(s, r) /\ Owned(s, r) /\ Unused(s, r) /\ Streams(s, r)
    /\ Calls(s, r) /\ Judged(s, r) /\ Admits(s, r)

\* A call under way is to a run that has been admitted and has not left.
Aimed(c) ==
    /\ ctl[c].at # "idle" => ctl[c].session \in Session
    /\ ctl[c].at = "calling" =>
         /\ run[ctl[c].session].phase \notin {"none", "admitting"}
         /\ run[ctl[c].session].gen = ctl[c].gen

ActiveSessions == {s \in Session : Active(s)}

HInv ==
    /\ IInv
    /\ RuntimeTypeOK /\ IsFiniteSet(ActiveSessions)
    /\ \A s \in Session : Fits(s, run[s])
    /\ \A c \in Caller : Aimed(c)

-----------------------------------------------------------------------------
(* What one step may touch.                                                *)

\* The owner of s goes on with x; every other session stays as it is.
Goes(s, x) ==
    /\ Active(s) /\ x \in RunRecord /\ Owner(s, x) /\ Elsewhere(s)
    /\ faults' \in 0..MaxFault /\ faults' >= faults
    /\ IF x.phase = "none" THEN ControlFree(s)
       ELSE x.gen = run[s].gen /\ (x.phase = "admitting" => run[s].phase = "admitting")

\* What does not change the rows of a session, nor the process, leaves an owner
\* with what it may believe.
LEMMA FitsKept ==
    ASSUME RuntimeTypeOK, NEW p \in Session, NEW r, Fits(p, r), Same(p),
           process' = process, joining' = joining, faults' \in Nat, faults' >= faults
    PROVE  Fits(p, r)'
<1>1. faults \in Nat
  BY LimitAssumption DEF RuntimeTypeOK
<1>2. session'[p] = session[p] /\ turn'[p] = turn[p] /\ attempt'[p] = attempt[p]
  BY DEF Same
<1>3. Mine(p, r)' = Mine(p, r)
  BY <1>2 DEF Mine
<1>4. Asked(p, r)' /\ Claims(p, r)'
  BY <1>2 DEF Fits, Asked, Claims
<1>5. Owned(p, r)' /\ Admits(p, r)'
  BY <1>1, <1>2 DEF Fits, Owned, Admits
<1>6. Unused(p, r)' /\ Streams(p, r)' /\ Judged(p, r)'
  BY <1>3 DEF Fits, Unused, Streams, Judged
<1>7. Calls(p, r)'
  BY DEF Fits, Calls
<1> QED
  BY <1>4, <1>5, <1>6, <1>7 DEF Fits

\* The active table, when one owner goes on.
LEMMA GoesTyped ==
    ASSUME RuntimeTypeOK, IsFiniteSet(ActiveSessions), NEW s \in Session, NEW x, Goes(s, x)
    PROVE  /\ RuntimeTypeOK' /\ IsFiniteSet(ActiveSessions)'
           /\ run'[s] = x /\ \A p \in Session : p # s => run'[p] = run[p]
<1>1. /\ run \in [Session -> RunRecord] /\ run' = [run EXCEPT ![s] = x] /\ x \in RunRecord
      /\ gens' = gens /\ ctl' = ctl /\ process' = process /\ joining' = joining
  BY DEF RuntimeTypeOK, Goes, Owner
<1>2. run'[s] = x /\ \A p \in Session : p # s => run'[p] = run[p]
  BY <1>1
<1>3. run' \in [Session -> RunRecord]
  BY <1>1
<1>4. ActiveSessions' \subseteq ActiveSessions
  BY <1>2 DEF ActiveSessions, Active, Goes
<1>5. /\ IsFiniteSet(ActiveSessions)' /\ Cardinality(ActiveSessions)' \in Nat
      /\ Cardinality(ActiveSessions) \in Nat
      /\ Cardinality(ActiveSessions)' <= Cardinality(ActiveSessions)
  BY <1>4, FS_Subset, FS_CardinalityType
<1>6. Cardinality(ActiveSessions)' <= MaxActive
  BY <1>5, LimitAssumption DEF RuntimeTypeOK, ActiveSessions
<1> QED
  BY <1>1, <1>2, <1>3, <1>5, <1>6 DEF RuntimeTypeOK, ActiveSessions, Goes

\* It remains to be shown of an owner's step what it does to its own session.
LEMMA GoesKeeps ==
    ASSUME HInv, IInv', NEW s \in Session, NEW x, Goes(s, x), Fits(s, x)'
    PROVE  HInv'
<1>1. /\ RuntimeTypeOK' /\ IsFiniteSet(ActiveSessions)'
      /\ run'[s] = x /\ \A p \in Session : p # s => run'[p] = run[p]
  BY GoesTyped DEF HInv
<1>2. process' = process /\ joining' = joining /\ ctl' = ctl
  BY DEF Goes, Owner
<1>3. ASSUME NEW p \in Session
      PROVE  Fits(p, run[p])'
  <2>1. CASE p # s
    <3>1. Same(p) /\ run'[p] = run[p] /\ faults' \in Nat /\ faults' >= faults
      BY <1>1, <2>1, LimitAssumption DEF Goes, Elsewhere
    <3> QED
      BY <3>1, <1>2, FitsKept DEF HInv
  <2>2. CASE p = s
    BY <1>1, <2>2
  <2> QED
    BY <2>1, <2>2
<1>4. ASSUME NEW c \in Caller
      PROVE  Aimed(c)'
  BY <1>1, <1>2 DEF HInv, Aimed, Goes, ControlFree
<1> QED
  BY <1>1, <1>3, <1>4 DEF HInv

\* An owner's step that writes nothing, be it that a store call failed.
Rests == Local \/ Fault

LEMMA RestsKeep ==
    ASSUME HInv, Rests
    PROVE  /\ IInv' /\ \A s \in Session : Same(s) /\ Elsewhere(s)
           /\ faults' \in 0..MaxFault /\ faults' >= faults
<1>1. UNCHANGED storeVars
  BY DEF Rests, Local, Fault
<1>2. IInv'
  BY <1>1, InvNext DEF HInv
<1>3. \A s \in Session : Same(s) /\ Elsewhere(s)
  BY <1>1 DEF Same, Elsewhere, storeVars
<1>4. faults' \in 0..MaxFault /\ faults' >= faults
  BY LimitAssumption DEF Rests, Local, Fault, NoFault, HInv, RuntimeTypeOK
<1> QED
  BY <1>2, <1>3, <1>4

\* Such a step keeps the invariant when the owner may go on with x.
LEMMA LocalKeeps ==
    ASSUME HInv, NEW s \in Session, NEW x \in RunRecord, Active(s), Owner(s, x), Rests,
           IF x.phase = "none" THEN ControlFree(s)
           ELSE x.gen = run[s].gen /\ (x.phase = "admitting" => run[s].phase = "admitting"),
           Fits(s, x)
    PROVE  HInv'
<1>1. /\ IInv' /\ Same(s) /\ Elsewhere(s) /\ faults' \in 0..MaxFault /\ faults' >= faults
  BY RestsKeep
<1>2. Goes(s, x)
  BY <1>1 DEF Goes
<1>3. Fits(s, x)'
  BY <1>1, FitsKept, LimitAssumption DEF HInv, Owner
<1> QED
  BY <1>1, <1>2, <1>3, GoesKeeps

\* A claim moves on: its turn and its attempt stay, and what it believes of
\* the stream and of the outcome is to be shown.
LEMMA ClaimMoves ==
    ASSUME HInv, NEW s \in Session, NEW r \in RunRecord, r = run[s], NEW x \in RunRecord,
           Owner(s, x), Rests, r.phase \in Owning, x.phase \in Owning \ {"claimed"},
           x.gen = r.gen, x.turn = r.turn, x.attempt = r.attempt,
           Streams(s, x), Calls(s, x), Judged(s, x)
    PROVE  HInv'
<1>1. Fits(s, r) /\ Active(s)
  BY DEF HInv, Active, Owning
<1>2. Claims(s, x) /\ Owned(s, x)
  BY <1>1 DEF Fits, Claims, Owned
<1>3. Asked(s, x) /\ Unused(s, x) /\ Admits(s, x)
  BY <1>1 DEF Fits, Asked, Unused, Admits, Owning
<1>4. x.phase # "none" /\ x.phase # "admitting"
  BY DEF Owning
<1> QED
  BY <1>1, <1>2, <1>3, <1>4, LocalKeeps DEF Fits

-----------------------------------------------------------------------------
(* The steps of an owner that write nothing.                               *)

\* The events by which an owner ends a stream.
LEMMA EndEvents ==
    /\ \A o \in {"failed", "cancelled"} : Completed(o, 0) \in Event
    /\ \A f \in FailureKind \ {"none"} : Error(FALSE, f) \in Event
<1>1. ASSUME NEW o \in {"failed", "cancelled"}
      PROVE  Completed(o, 0) \in Event
  <2>1. o \in Outcome /\ 0 \in Checkpoint
    BY RevisionAssumption DEF Outcome, Checkpoint
  <2>2. Completed(o, 0) \in {Completed(u, w) : u \in Outcome, w \in Checkpoint}
    BY <2>1
  <2> QED
    BY <2>2 DEF Event
<1>2. ASSUME NEW f \in FailureKind \ {"none"}
      PROVE  Error(FALSE, f) \in Event
  <2>1. PICK b \in BOOLEAN : b = FALSE
    OBVIOUS
  <2>2. Error(b, f) \in {Error(c, g) : c \in BOOLEAN, g \in FailureKind \ {"none"}}
    OBVIOUS
  <2>3. Error(b, f) \in Event
    BY <2>2 DEF Event
  <2> QED
    BY <2>1, <2>3, Zenon
<1> QED
  BY <1>1, <1>2

\* An owner may believe the same once its run is cancelled.
LEMMA CancelledFits ==
    ASSUME NEW s \in Session, NEW r \in RunRecord, Fits(s, r)
    PROVE  LET x == [r EXCEPT !.cancelled = TRUE] IN
           x \in RunRecord /\ x.phase = r.phase /\ x.gen = r.gen /\ Fits(s, x)
<1>1. PICK x : x = [r EXCEPT !.cancelled = TRUE]
  OBVIOUS
<1>2. /\ x \in RunRecord /\ x.phase = r.phase /\ x.gen = r.gen
      /\ x.expected = r.expected /\ x.native = r.native /\ x.tries = r.tries
      /\ x.wait = r.wait /\ x.attempt = r.attempt /\ x.turn = r.turn
      /\ x.outcome = r.outcome /\ x.effects = r.effects
      /\ x.contract = r.contract /\ x.err = r.err /\ x.rejected = r.rejected
      /\ x.pending = r.pending /\ x.accepting = r.accepting
  BY <1>1 DEF RunRecord
<1>3. Asked(s, x) /\ Claims(s, x) /\ Owned(s, x) /\ Admits(s, x)
  BY <1>2 DEF Fits, Asked, Claims, Owned, Admits
<1>4. Mine(s, x) = Mine(s, r)
  BY <1>2 DEF Mine
<1>5. Unused(s, x) /\ Streams(s, x) /\ Judged(s, x)
  BY <1>2, <1>4 DEF Fits, Unused, Streams, Judged
<1>6. Calls(s, x)
  BY <1>2 DEF Fits, Calls
<1> QED
  BY <1>1, <1>2, <1>3, <1>5, <1>6 DEF Fits

\* Every entry of the active table has the owner's variables.
LEMMA Variables ==
    ASSUME HInv, NEW s \in Session
    PROVE  run[s] \in RunRecord /\ Fits(s, run[s])
BY DEF HInv, RuntimeTypeOK

\* attempt() begins with its target, and with nothing reported.
LEMMA TargetKeeps ==
    ASSUME HInv, NEW s \in Session, Target(s)
    PROVE  HInv'
<1>1. PICK r \in RunRecord : r = run[s]
  BY DEF HInv, RuntimeTypeOK
<1>2. PICK x : x = [r EXCEPT !.phase = "starting", !.target = RouteOf(s),
                   !.native = attempt[s][r.attempt].native,
                   !.contract = NewContract, !.rejected = FALSE,
                   !.err = "none", !.outcome = "failed", !.effects = FALSE,
                   !.failure = "execution"]
  OBVIOUS
<1>3. /\ r.phase = "claimed" /\ Owner(s, x) /\ Rests /\ Active(s) /\ Fits(s, r)
  BY <1>1, <1>2 DEF Target, At, Rests, Active, HInv
<1>4. /\ r.attempt \in AttemptNumber /\ attempt[s][r.attempt] \in AttemptRecord
  BY <1>3 DEF Fits, Claims, Owning, Phase, HInv, IInv, RowTypes
<1>5. /\ RouteOf(s) \in Route \cup {NoRoute} /\ attempt[s][r.attempt].native \in NativeOrNone
      /\ attempt[s][r.attempt].error \in BOOLEAN
  BY <1>1, <1>4 DEF RouteOf, AttemptRecord
<1>6. NewContract \in Contract
  BY DEF NewContract, Contract, NativeOrNone
<1>7. /\ x \in RunRecord /\ x.phase = "starting" /\ x.gen = r.gen
      /\ x.attempt = r.attempt /\ x.turn = r.turn /\ x.native = attempt[s][r.attempt].native
      /\ x.contract = NewContract /\ x.effects = FALSE /\ x.pending = r.pending
      /\ x.accepting = r.accepting
  BY <1>2, <1>5, <1>6 DEF RunRecord, Phase, FailureKind, Outcome
<1>8. Claims(s, x) /\ Owned(s, x)
  BY <1>3, <1>7 DEF Fits, Claims, Owned, Owning, Phase
<1>9. Calls(s, x)
  BY <1>3, <1>7 DEF Fits, Calls
<1>11. Streams(s, x)
  <2>1. /\ Mine(s, x) = attempt[s][r.attempt] /\ Mine(s, x).status = "running"
        /\ Mine(s, x).error = FALSE
    BY <1>3, <1>5, <1>7 DEF Fits, Unused, Mine
  <2>2. x.contract.terminal = FALSE /\ x.contract.fatal = FALSE
    BY <1>7 DEF NewContract
  <2> QED
    BY <2>1, <2>2, <1>7 DEF Streams
<1>10. Asked(s, x) /\ Unused(s, x) /\ Judged(s, x) /\ Admits(s, x)
  BY <1>3, <1>7 DEF Fits, Asked, Unused, Judged, Admits
<1> QED
  BY <1>1, <1>3, <1>7, <1>8, <1>9, <1>10, <1>11, LocalKeeps DEF Fits

\* An attempt that is not executed returns at once.
LEMMA RefusedKeeps ==
    ASSUME HInv, NEW s \in Session, Refuse(s) \/ NotAdmitted(s)
    PROVE  HInv'
<1>1. PICK r \in RunRecord : r = run[s]
  BY Variables
<1>2. PICK e \in {"error", "cancelled"}, f \in FailureKind \ {"none"} :
        Owner(s, [r EXCEPT !.phase = "returned", !.err = e, !.failure = f])
  <2>1. CASE Refuse(s)
    <3>1. Unsupported(s) \in FailureKind \ {"none"}
      BY <2>1 DEF Refuse, Unsupported, FailureKind
    <3> QED
      BY <1>1, <2>1, <3>1 DEF Refuse
  <2>2. CASE NotAdmitted(s)
    <3>1. PICK e \in {"error", "cancelled"} : Owner(s, [r EXCEPT !.phase = "returned", !.err = e])
      BY <1>1, <2>2 DEF NotAdmitted
    <3>2. [r EXCEPT !.phase = "returned", !.err = e]
            = [r EXCEPT !.phase = "returned", !.err = e, !.failure = r.failure]
          /\ r.failure \in FailureKind \ {"none"}
      BY DEF RunRecord
    <3> QED
      BY <3>1, <3>2
  <2> QED
    BY <2>1, <2>2
<1>3. PICK x : x = [r EXCEPT !.phase = "returned", !.err = e, !.failure = f]
  OBVIOUS
<1>4. /\ r.phase = "starting" /\ Owner(s, x) /\ Rests /\ Fits(s, r)
  BY <1>1, <1>2, <1>3, Variables DEF Refuse, NotAdmitted, At, Rests
<1>5. /\ x \in RunRecord /\ x.phase = "returned" /\ x.gen = r.gen
      /\ x.attempt = r.attempt /\ x.turn = r.turn /\ x.native = r.native
      /\ x.contract = r.contract /\ x.effects = r.effects /\ x.outcome = r.outcome
      /\ x.pending = r.pending /\ x.accepting = r.accepting
  BY <1>3 DEF RunRecord, Phase
<1>6. Streams(s, x)
  BY <1>4, <1>5 DEF Fits, Streams, Mine
<1>7. Calls(s, x) /\ Judged(s, x)
  BY <1>4, <1>5 DEF Fits, Calls, Judged
<1>8. r.phase \in Owning /\ x.phase \in Owning \ {"claimed"}
  BY <1>4, <1>5 DEF Owning, Phase
<1> QED
  BY <1>1, <1>4, <1>5, <1>6, <1>7, <1>8, ClaimMoves

\* The engine executes, and may call back.
LEMMA LaunchKeeps ==
    ASSUME HInv, NEW s \in Session, Launch(s)
    PROVE  HInv'
<1>1. PICK r \in RunRecord : r = run[s]
  BY Variables
<1>2. PICK x : x = [r EXCEPT !.phase = "executing", !.accepting = TRUE]
  OBVIOUS
<1>3. /\ r.phase = "starting" /\ Owner(s, x) /\ Rests /\ Fits(s, r)
  BY <1>1, <1>2, Variables DEF Launch, At, Rests
<1>4. /\ x \in RunRecord /\ x.phase = "executing" /\ x.gen = r.gen
      /\ x.attempt = r.attempt /\ x.turn = r.turn /\ x.native = r.native
      /\ x.contract = r.contract /\ x.effects = r.effects /\ x.outcome = r.outcome
      /\ x.pending = r.pending /\ x.accepting = TRUE
  BY <1>2 DEF RunRecord, Phase
<1>5. Streams(s, x)
  BY <1>3, <1>4 DEF Fits, Streams, Mine
<1>6. Calls(s, x) /\ Judged(s, x)
  BY <1>3, <1>4 DEF Fits, Calls, Judged
<1>7. r.phase \in Owning /\ x.phase \in Owning \ {"claimed"}
  BY <1>3, <1>4 DEF Owning, Phase
<1> QED
  BY <1>1, <1>3, <1>4, <1>5, <1>6, <1>7, ClaimMoves

\* The engine calls back, with an event or with garbage.
LEMMA ObserveKeeps ==
    ASSUME HInv, NEW s \in Session, NEW e \in Event, Observe(s, e)
    PROVE  HInv'
<1>1. PICK r \in RunRecord : r = run[s]
  BY Variables
<1>2. PICK x : x = [r EXCEPT !.pending = e]
  OBVIOUS
<1>3. r.accepting /\ Owner(s, x) /\ Rests /\ Fits(s, r) /\ e \in EventType
  BY <1>1, <1>2, Variables, EventFields DEF Observe, Rests
<1>4. /\ x \in RunRecord /\ x.phase = r.phase /\ x.gen = r.gen
      /\ x.attempt = r.attempt /\ x.turn = r.turn /\ x.native = r.native
      /\ x.contract = r.contract /\ x.effects = r.effects /\ x.outcome = r.outcome
      /\ x.pending = e /\ x.accepting = r.accepting
  BY <1>2, <1>3 DEF RunRecord
<1>5. r.phase \in {"executing", "returned"}
  BY <1>3 DEF Fits, Calls
<1>6. Streams(s, x)
  BY <1>3, <1>4 DEF Fits, Streams, Mine
<1>7. Calls(s, x) /\ Judged(s, x)
  BY <1>3, <1>4, <1>5 DEF Fits, Calls, Judged
<1>8. r.phase \in Owning /\ x.phase \in Owning \ {"claimed"}
  BY <1>4, <1>5 DEF Owning, Phase
<1> QED
  BY <1>1, <1>3, <1>4, <1>6, <1>7, <1>8, ClaimMoves

LEMMA ObserveGarbageKeeps ==
    ASSUME HInv, NEW s \in Session, ObserveGarbage(s)
    PROVE  HInv'
<1>1. PICK r \in RunRecord : r = run[s]
  BY Variables
<1>2. PICK x : x = [r EXCEPT !.rejected = TRUE]
  OBVIOUS
<1>3. r.accepting /\ Owner(s, x) /\ Rests /\ Fits(s, r)
  BY <1>1, <1>2, Variables DEF ObserveGarbage, Rests
<1>4. /\ x \in RunRecord /\ x.phase = r.phase /\ x.gen = r.gen
      /\ x.attempt = r.attempt /\ x.turn = r.turn /\ x.native = r.native
      /\ x.contract = r.contract /\ x.effects = r.effects /\ x.outcome = r.outcome
      /\ x.pending = r.pending /\ x.accepting = r.accepting
  BY <1>2 DEF RunRecord
<1>5. r.phase \in {"executing", "returned"}
  BY <1>3 DEF Fits, Calls
<1>6. Streams(s, x)
  BY <1>3, <1>4 DEF Fits, Streams, Mine
<1>7. Calls(s, x) /\ Judged(s, x)
  BY <1>3, <1>4, <1>5 DEF Fits, Calls, Judged
<1>8. r.phase \in Owning /\ x.phase \in Owning \ {"claimed"}
  BY <1>4, <1>5 DEF Owning, Phase
<1> QED
  BY <1>1, <1>3, <1>4, <1>6, <1>7, <1>8, ClaimMoves

\* Execute returns.
LEMMA ReturnKeeps ==
    ASSUME HInv, NEW s \in Session, NEW e \in {"none", "error", "cancelled"}, Return(s, e)
    PROVE  HInv'
<1>1. PICK r \in RunRecord : r = run[s]
  BY Variables
<1>2. PICK x : x = [r EXCEPT !.phase = "returned", !.err = e]
  OBVIOUS
<1>3. r.phase = "executing" /\ Owner(s, x) /\ Rests /\ Fits(s, r)
  BY <1>1, <1>2, Variables DEF Return, At, Rests
<1>4. /\ x \in RunRecord /\ x.phase = "returned" /\ x.gen = r.gen
      /\ x.attempt = r.attempt /\ x.turn = r.turn /\ x.native = r.native
      /\ x.contract = r.contract /\ x.effects = r.effects /\ x.outcome = r.outcome
      /\ x.pending = r.pending /\ x.accepting = r.accepting
  BY <1>2 DEF RunRecord, Phase
<1>6. Streams(s, x)
  BY <1>3, <1>4 DEF Fits, Streams, Mine
<1>7. Calls(s, x) /\ Judged(s, x)
  BY <1>3, <1>4 DEF Fits, Calls, Judged
<1>8. r.phase \in Owning /\ x.phase \in Owning \ {"claimed"}
  BY <1>3, <1>4 DEF Owning, Phase
<1> QED
  BY <1>1, <1>3, <1>4, <1>6, <1>7, <1>8, ClaimMoves

\* The attempt is judged, and a stream that did not end is ended by the owner.
LEMMA SealKeeps ==
    ASSUME HInv, NEW s \in Session, Seal(s)
    PROVE  HInv'
<1>1. PICK r \in RunRecord : r = run[s]
  BY Variables
<1>2. PICK x : x = Sealed(s)
  OBVIOUS
<1>3. /\ r.phase = "returned" /\ r.pending = NoEvent /\ Owner(s, x) /\ Rests /\ Fits(s, r)
  BY <1>1, <1>2, Variables DEF Seal, At, Rests
<1>4. Streams(s, r)
  BY <1>3 DEF Fits
<1> DEFINE Rest == /\ x.gen = r.gen /\ x.attempt = r.attempt /\ x.turn = r.turn
                   /\ x.accepting = FALSE
<1>5. CASE Discredited(Stopped(r))
  <2>1. x = [Stopped(r) EXCEPT !.phase = "deciding", !.outcome = "failed", !.effects = TRUE,
                               !.failure = "execution"]
    BY <1>1, <1>2, <1>5 DEF Sealed
  <2>2. /\ x \in RunRecord /\ Rest /\ x.phase = "deciding" /\ x.outcome = "failed"
        /\ x.pending = NoEvent
    BY <2>1, <1>3 DEF Stopped, RunRecord, Phase, Outcome, FailureKind
  <2>3. Streams(s, x) /\ Judged(s, x)
    BY <2>2 DEF Streams, Judged
  <2>4. Calls(s, x)
    BY <2>2, <1>3 DEF Fits, Calls
  <2>5. r.phase \in Owning /\ x.phase \in Owning \ {"claimed"}
    BY <2>2, <1>3 DEF Owning, Phase
  <2> QED
    BY <2>2, <2>3, <2>4, <2>5, <1>1, <1>3, ClaimMoves
<1>6. CASE ~Discredited(Stopped(r)) /\ r.contract.terminal
  <2>1. x = [Stopped(r) EXCEPT !.phase = "deciding"]
    <3>1. Stopped(r).contract = r.contract
      BY DEF Stopped, RunRecord
    <3> QED
      BY <1>1, <1>2, <1>6, <3>1 DEF Sealed
  <2>2. /\ x \in RunRecord /\ Rest /\ x.phase = "deciding" /\ x.outcome = r.outcome
        /\ x.pending = NoEvent /\ x.contract = r.contract /\ x.err = r.err
        /\ x.rejected = r.rejected
    BY <2>1, <1>3 DEF Stopped, RunRecord, Phase
  <2>3. r.err = "none" /\ ~r.rejected
    BY <1>6 DEF Discredited, Stopped, RunRecord
  <2>4. Streams(s, x) /\ Judged(s, x)
    BY <2>2, <2>3, <1>3, <1>4, <1>6 DEF Streams, Judged, Mine
  <2>5. Calls(s, x)
    BY <2>2, <1>3 DEF Fits, Calls
  <2>6. r.phase \in Owning /\ x.phase \in Owning \ {"claimed"}
    BY <2>2, <1>3 DEF Owning, Phase
  <2> QED
    BY <2>2, <2>4, <2>5, <2>6, <1>1, <1>3, ClaimMoves
<1>7. CASE ~Discredited(Stopped(r)) /\ ~r.contract.terminal
  <2>1. PICK o \in {"failed", "cancelled"}, f \in FailureKind \ {"none"}, e \in Event :
          /\ x = [Stopped(r) EXCEPT !.phase = "closing", !.outcome = o, !.failure = f,
                                    !.pending = e]
          /\ e = Completed(o, 0) \/ \E g \in FailureKind \ {"none"} : e = Error(FALSE, g)
    <3> DEFINE q == Stopped(r)
    <3> DEFINE o == IF q.cancelled /\ q.err = "cancelled" THEN "cancelled" ELSE "failed"
    <3> DEFINE f == IF q.err = "none" \/ o = "cancelled" THEN "execution" ELSE q.failure
    <3> DEFINE e == IF q.contract.fatal THEN Completed(o, 0) ELSE Error(FALSE, f)
    <3>1. q.contract = r.contract /\ q.failure \in FailureKind \ {"none"}
      BY DEF Stopped, RunRecord
    <3>2. x = [q EXCEPT !.phase = "closing", !.outcome = o, !.failure = f, !.pending = e]
      BY <1>1, <1>2, <1>7, <3>1 DEF Sealed
    <3>3. o \in {"failed", "cancelled"} /\ f \in FailureKind \ {"none"}
      BY <3>1 DEF FailureKind
    <3>4. e \in Event
      BY <3>3, EndEvents
    <3> QED
      BY <3>2, <3>3, <3>4
  <2>2. e \in EventType
    BY EventFields
  <2>3. /\ x \in RunRecord /\ Rest /\ x.phase = "closing" /\ x.outcome = o
        /\ x.pending = e /\ x.contract = r.contract /\ x.native = r.native
        /\ x.effects = r.effects
    BY <2>1, <2>2, <1>3 DEF Stopped, RunRecord, Phase, Outcome
  <2>4. Streams(s, x)
    BY <2>3, <1>3, <1>4, <1>7 DEF Streams, Mine
  <2>5. Calls(s, x) /\ Judged(s, x)
    BY <2>1, <2>3, <1>3 DEF Fits, Calls, Judged
  <2>6. r.phase \in Owning /\ x.phase \in Owning \ {"claimed"}
    BY <2>3, <1>3 DEF Owning, Phase
  <2> QED
    BY <2>3, <2>4, <2>5, <2>6, <1>1, <1>3, ClaimMoves
<1> QED
  BY <1>5, <1>6, <1>7

\* An event that is refused or could not be stored discredits the stream, or
\* leaves the owner's attempt without a confirmed end.
LEMMA CommitFailsKeeps ==
    ASSUME HInv, NEW s \in Session, CommitFails(s)
    PROVE  HInv'
<1>1. PICK r \in RunRecord : r = run[s]
  BY Variables
<1>2. PICK x : x = Unconfirmed(s)
  OBVIOUS
<1>3. r.pending # NoEvent /\ Owner(s, x) /\ Rests /\ Fits(s, r)
  BY <1>1, <1>2, Variables DEF CommitFails, Rests
<1>4. r.phase \in {"executing", "returned", "closing"} /\ NoEvent \in Event
  BY <1>3 DEF Fits, Calls, Event, NoEvent
<1>5. CASE r.phase = "closing"
  <2>1. x = [r EXCEPT !.pending = NoEvent, !.effects = TRUE, !.phase = "deciding"]
    BY <1>1, <1>2, <1>5 DEF Unconfirmed
  <2>2. /\ x \in RunRecord /\ x.phase = "deciding" /\ x.gen = r.gen
        /\ x.attempt = r.attempt /\ x.turn = r.turn /\ x.outcome = r.outcome
        /\ x.pending = NoEvent /\ x.accepting = r.accepting
    BY <2>1, <1>4, EventFields DEF RunRecord, Phase
  <2>3. Calls(s, x) /\ Judged(s, x) /\ Streams(s, x)
    BY <2>2, <1>3, <1>4, <1>5 DEF Fits, Calls, Judged, Streams
  <2>4. r.phase \in Owning /\ x.phase \in Owning \ {"claimed"}
    BY <2>2, <1>5 DEF Owning, Phase
  <2> QED
    BY <2>2, <2>3, <2>4, <1>1, <1>3, ClaimMoves
<1>6. CASE r.phase # "closing"
  <2>1. x = [r EXCEPT !.pending = NoEvent, !.rejected = TRUE]
    BY <1>1, <1>2, <1>6 DEF Unconfirmed
  <2>2. /\ x \in RunRecord /\ x.phase = r.phase /\ x.gen = r.gen
        /\ x.attempt = r.attempt /\ x.turn = r.turn /\ x.native = r.native
        /\ x.contract = r.contract /\ x.effects = r.effects /\ x.outcome = r.outcome
        /\ x.pending = NoEvent /\ x.accepting = r.accepting
    BY <2>1, <1>4, EventFields DEF RunRecord
  <2>3. Streams(s, x)
    BY <2>2, <1>3 DEF Fits, Streams, Mine
  <2>4. Calls(s, x) /\ Judged(s, x)
    BY <2>2, <1>3, <1>4, <1>6 DEF Fits, Calls, Judged
  <2>5. r.phase \in Owning /\ x.phase \in Owning \ {"claimed"}
    BY <2>2, <1>4 DEF Owning, Phase
  <2> QED
    BY <2>2, <2>3, <2>4, <2>5, <1>1, <1>3, ClaimMoves
<1> QED
  BY <1>5, <1>6

\* executeClaim decides between finishing and falling back.
LEMMA DecideKeeps ==
    ASSUME HInv, NEW s \in Session, Decide(s)
    PROVE  HInv'
<1>1. PICK r \in RunRecord : r = run[s]
  BY Variables
<1>2. PICK f \in {"finishing", "routing"} : Owner(s, [r EXCEPT !.phase = f])
  BY <1>1 DEF Decide
<1>3. PICK x : x = [r EXCEPT !.phase = f]
  OBVIOUS
<1>4. r.phase = "deciding" /\ Owner(s, x) /\ Rests /\ Fits(s, r)
  BY <1>1, <1>2, <1>3, Variables DEF Decide, At, Rests
<1>5. /\ x \in RunRecord /\ x.phase = f /\ x.gen = r.gen
      /\ x.attempt = r.attempt /\ x.turn = r.turn /\ x.outcome = r.outcome
      /\ x.contract = r.contract /\ x.err = r.err /\ x.rejected = r.rejected
      /\ x.pending = r.pending /\ x.accepting = r.accepting
  BY <1>3 DEF RunRecord, Phase
<1>6. Streams(s, x) /\ Calls(s, x)
  BY <1>4, <1>5 DEF Fits, Calls, Streams
<1>7. Judged(s, x)
  BY <1>4, <1>5 DEF Fits, Judged, Mine
<1>8. r.phase \in Owning /\ x.phase \in Owning \ {"claimed"}
  BY <1>4, <1>5 DEF Owning, Phase
<1> QED
  BY <1>1, <1>4, <1>5, <1>6, <1>7, <1>8, ClaimMoves

\* A fallback that could not be stored: its route is not tried again.
LEMMA FallbackFailsKeeps ==
    ASSUME HInv, NEW s \in Session, NEW q \in Route, FallbackFails(s, q)
    PROVE  HInv'
<1>1. PICK r \in RunRecord : r = run[s]
  BY Variables
<1>2. PICK x : x = [r EXCEPT !.skipped = @ \cup {q}]
  OBVIOUS
<1>3. r.phase = "routing" /\ Owner(s, x) /\ Rests /\ Fits(s, r)
  BY <1>1, <1>2, Variables DEF FallbackFails, At, Rests
<1>4. /\ x \in RunRecord /\ x.phase = r.phase /\ x.gen = r.gen
      /\ x.attempt = r.attempt /\ x.turn = r.turn /\ x.outcome = r.outcome
      /\ x.contract = r.contract /\ x.err = r.err /\ x.rejected = r.rejected
      /\ x.pending = r.pending /\ x.accepting = r.accepting
  BY <1>2 DEF RunRecord
<1>5. Streams(s, x) /\ Calls(s, x)
  BY <1>3, <1>4 DEF Fits, Calls, Streams
<1>6. Judged(s, x)
  BY <1>3, <1>4 DEF Fits, Judged, Mine
<1>7. r.phase \in Owning /\ x.phase \in Owning \ {"claimed"}
  BY <1>3, <1>4 DEF Owning, Phase
<1> QED
  BY <1>1, <1>3, <1>4, <1>5, <1>6, <1>7, ClaimMoves

\* No route is left, or the attempts are used up.
LEMMA GiveUpKeeps ==
    ASSUME HInv, NEW s \in Session, GiveUp(s)
    PROVE  HInv'
<1>1. PICK r \in RunRecord : r = run[s]
  BY Variables
<1>2. PICK o \in {r.outcome, "failed"} :
        Owner(s, [r EXCEPT !.phase = "finishing", !.outcome = o])
  <2>1. [r EXCEPT !.phase = "finishing"]
          = [r EXCEPT !.phase = "finishing", !.outcome = r.outcome]
    BY DEF RunRecord
  <2> QED
    BY <1>1, <2>1 DEF GiveUp
<1>3. PICK x : x = [r EXCEPT !.phase = "finishing", !.outcome = o]
  OBVIOUS
<1>4. r.phase = "routing" /\ Owner(s, x) /\ Rests /\ Fits(s, r)
  BY <1>1, <1>2, <1>3, Variables DEF GiveUp, At, Rests
<1>5. /\ x \in RunRecord /\ x.phase = "finishing" /\ x.gen = r.gen
      /\ x.attempt = r.attempt /\ x.turn = r.turn /\ x.outcome = o
      /\ x.contract = r.contract /\ x.err = r.err /\ x.rejected = r.rejected
      /\ x.pending = r.pending /\ x.accepting = r.accepting
  BY <1>3 DEF RunRecord, Phase, Outcome
<1>6. Streams(s, x) /\ Calls(s, x)
  BY <1>4, <1>5 DEF Fits, Calls, Streams
<1>7. Judged(s, x)
  BY <1>4, <1>5 DEF Fits, Judged, Mine
<1>8. r.phase \in Owning /\ x.phase \in Owning \ {"claimed"}
  BY <1>4, <1>5 DEF Owning, Phase
<1> QED
  BY <1>1, <1>4, <1>5, <1>6, <1>7, <1>8, ClaimMoves

\* The run is cancelled by whoever started it; its owner will notice.
LEMMA OwnerCancelKeeps ==
    ASSUME HInv, NEW s \in Session, OwnerCancel(s)
    PROVE  HInv'
<1>1. PICK r \in RunRecord : r = run[s]
  BY Variables
<1>2. PICK x : x = [r EXCEPT !.cancelled = TRUE]
  OBVIOUS
<1>3. Owner(s, x) /\ Rests /\ Fits(s, r) /\ Active(s)
  BY <1>1, <1>2, Variables DEF OwnerCancel, Rests
<1>4. x \in RunRecord /\ x.phase = r.phase /\ x.gen = r.gen /\ Fits(s, x)
  BY <1>2, <1>3, CancelledFits
<1> QED
  BY <1>1, <1>3, <1>4, LocalKeeps DEF Active

-----------------------------------------------------------------------------
(* The end of a run.                                                       *)

\* FinishTurn takes the outcome an owner has decided on.
LEMMA FinishIsTaken ==
    ASSUME HInv, NEW s \in Session, run[s].phase = "finishing"
    PROVE  FinishAccepts(s, run[s].turn, run[s].outcome)
<1>1. PICK r \in RunRecord : r = run[s]
  BY Variables
<1>2. Fits(s, r) /\ SInv(s)
  BY <1>1, Variables DEF HInv, IInv
<1>3. /\ r.turn \in TurnNumber /\ r.attempt \in AttemptNumber
      /\ turn[s][r.turn].status = "running" /\ turn[s][r.turn].active = r.attempt
  BY <1>1, <1>2 DEF Fits, Claims, Owning, Phase
<1>4. r.outcome \in {"completed", "waiting"} => attempt[s][r.attempt].status = r.outcome
  BY <1>1, <1>2 DEF Fits, Judged, Mine
<1>5. attempt[s][r.attempt].status = "waiting" => ValidCheckpoint(attempt[s][r.attempt].wait)
  BY <1>2, <1>3 DEF SInv, Receipted, HasReceipt
<1> QED
  BY <1>1, <1>3, <1>4, <1>5 DEF FinishAccepts

\* A table without runs has its type.
LEMMA EmptyTable ==
    /\ NoRun \in RunRecord /\ NoRun.phase = "none" /\ NoRun.pending = NoEvent
    /\ NoRun.accepting = FALSE
    /\ Idler \in [at : {"idle", "found", "calling"},
                  session : Session \cup {NoRoute}, gen : 0..MaxRun]
    /\ Idler.at = "idle"
<1>1. NewContract \in Contract /\ NoEvent \in Event /\ NoEvent \in EventType
  BY EventFields DEF NewContract, Contract, NativeOrNone, Event, NoEvent
<1>2. NoRun \in RunRecord
  BY <1>1, LimitAssumption, BoundAssumption, RevisionAssumption
     DEF NoRun, RunRecord, Phase, Checkpoint, NativeOrNone, Outcome, FailureKind
<1> QED
  BY <1>2, LimitAssumption DEF NoRun, Idler

\* A session is left with no owner and no beliefs.
LEMMA NoRunFits ==
    ASSUME HInv, NEW s \in Session, run[s].phase \notin Owning
    PROVE  NoRun \in RunRecord /\ NoRun.phase = "none" /\ Fits(s, NoRun)
<1>1. /\ NoEvent \in Event /\ NoRun \in RunRecord
      /\ NoRun.phase = "none" /\ NoRun.accepting = FALSE /\ NoRun.pending = NoEvent
  BY EmptyTable DEF NoEvent, Event
<1>2. Asked(s, NoRun) /\ Claims(s, NoRun) /\ Admits(s, NoRun)
  BY <1>1 DEF Asked, Claims, Admits, Owning
<1>3. Unused(s, NoRun) /\ Streams(s, NoRun) /\ Judged(s, NoRun)
  BY <1>1 DEF Unused, Streams, Judged
<1>4. Calls(s, NoRun)
  BY <1>1 DEF Calls
<1>5. Owned(s, NoRun)
  BY Variables DEF Fits, Owned
<1> QED
  BY <1>1, <1>2, <1>3, <1>4, <1>5 DEF Fits

\* The store refuses to admit the run, or cannot be asked.
LEMMA AdmitFailsKeeps ==
    ASSUME HInv, NEW s \in Session, AdmitFails(s)
    PROVE  HInv'
<1>1. run[s].phase = "admitting" /\ Owner(s, NoRun) /\ Rests
  BY DEF AdmitFails, At, Rests
<1>2. NoRun \in RunRecord /\ NoRun.phase = "none" /\ Fits(s, NoRun)
  BY <1>1, NoRunFits DEF Owning
<1>3. ControlFree(s)
  BY <1>1 DEF HInv, Aimed, ControlFree
<1> QED
  BY <1>1, <1>2, <1>3, LocalKeeps DEF Active

\* The owner leaves when no control call is under way.
LEMMA LeaveKeeps ==
    ASSUME HInv, NEW s \in Session, Leave(s)
    PROVE  HInv'
<1>1. run[s].phase = "leaving" /\ Owner(s, NoRun) /\ Rests /\ ControlFree(s)
  BY DEF Leave, At, Rests
<1>2. NoRun \in RunRecord /\ NoRun.phase = "none" /\ Fits(s, NoRun)
  BY <1>1, NoRunFits DEF Owning
<1> QED
  BY <1>1, <1>2, LocalKeeps DEF Active

\* The owner of s goes on to leave: it believes nothing any more, and the turn
\* has ended or a store call has failed.
LEMMA LeavingFits ==
    ASSUME NEW s \in Session, NEW r \in RunRecord, Fits(s, r), r.phase = "finishing",
           session'[s].status # "running" \/ faults' > 0, process' = process, joining' = joining
    PROVE  LET x == [r EXCEPT !.phase = "leaving"] IN
           x \in RunRecord /\ x.phase = "leaving" /\ x.gen = r.gen
           /\ \A y : y = x => Fits(s, y)'
<1>1. PICK x : x = [r EXCEPT !.phase = "leaving"]
  OBVIOUS
<1>2. /\ x \in RunRecord /\ x.phase = "leaving" /\ x.gen = r.gen
      /\ x.pending = r.pending /\ x.accepting = r.accepting
  BY <1>1 DEF RunRecord, Phase
<1>3. Asked(s, x)' /\ Claims(s, x)' /\ Owned(s, x)'
  BY <1>2 DEF Asked, Claims, Owned, Owning
<1>4. Unused(s, x)' /\ Streams(s, x)' /\ Judged(s, x)'
  BY <1>2 DEF Unused, Streams, Judged
<1>5. Calls(s, x)' /\ Admits(s, x)'
  BY <1>2 DEF Fits, Calls, Admits
<1>6. Fits(s, x)'
  BY <1>3, <1>4, <1>5 DEF Fits
<1> QED
  BY <1>1, <1>2, <1>6

\* Only a store call that fails leaves the turn running without an owner.
LEMMA FinishFailsKeeps ==
    ASSUME HInv, NEW s \in Session, FinishFails(s)
    PROVE  HInv'
<1>1. PICK r \in RunRecord : r = run[s]
  BY Variables
<1>2. PICK x : x = [r EXCEPT !.phase = "leaving"]
  OBVIOUS
<1>3. r.phase = "finishing" /\ Owner(s, x) /\ Fault /\ Fits(s, r) /\ Rests
  BY <1>1, <1>2, Variables, FinishIsTaken DEF FinishFails, At, Rests
<1>4. /\ IInv' /\ Elsewhere(s) /\ faults' \in 0..MaxFault /\ faults' >= faults
  BY <1>3, RestsKeep
<1>5. faults' > 0 /\ process' = process /\ joining' = joining
  BY <1>3, LimitAssumption DEF Fault, HInv, RuntimeTypeOK, Owner
<1>6. x \in RunRecord /\ x.phase = "leaving" /\ x.gen = r.gen /\ Fits(s, x)'
  BY <1>2, <1>3, <1>5, LeavingFits
<1>7. Goes(s, x)
  BY <1>1, <1>3, <1>4, <1>6 DEF Goes, Active
<1> QED
  BY <1>4, <1>6, <1>7, GoesKeeps

-----------------------------------------------------------------------------
(* The steps of an owner that write: one transaction each.                 *)

\* A transaction of one session keeps the database's invariant and does not
\* touch the rows of another session.
LEMMA TransactionKeeps ==
    ASSUME IInv, NEW s \in Session, TurnStep(s) \/ IdleStep(s) \/ WaitStep(s)
    PROVE  IInv' /\ Elsewhere(s)
<1>1. IInv'
  BY InvNext DEF StoreNext
<1>2. ASSUME TurnStep(s) PROVE Elsewhere(s)
  BY <1>2, BeginTurnShaped, BeginFallbackShaped, RecordShaped, FinishTurnShaped DEF TurnStep
<1>3. ASSUME IdleStep(s) PROVE Elsewhere(s)
  BY <1>3, IdleShaped
<1>4. ASSUME WaitStep(s) PROVE Elsewhere(s)
  BY <1>4, BeginWaitResumeShaped, AbandonWaitingTurnShaped DEF WaitStep
<1> QED
  BY <1>1, <1>2, <1>3, <1>4

LEMMA FinishKeeps ==
    ASSUME HInv, NEW s \in Session, Finish(s)
    PROVE  HInv'
<1>1. PICK r \in RunRecord : r = run[s]
  BY Variables
<1>2. PICK x : x = [r EXCEPT !.phase = "leaving"]
  OBVIOUS
<1>3. /\ r.phase = "finishing" /\ Owner(s, x) /\ Fits(s, r) /\ faults' = faults
      /\ FinishTurn(s, r.turn, r.outcome)
  BY <1>1, <1>2, Variables DEF Finish, At, NoFault
<1>4. r.turn \in TurnNumber /\ r.outcome \in Outcome
  BY <1>3 DEF RunRecord, Fits, Claims, Owning, Phase
<1>5. IInv' /\ Elsewhere(s)
  BY <1>3, <1>4, TransactionKeeps DEF TurnStep, HInv
<1>6. session'[s].status # "running"
  <2>1. session' = [session EXCEPT ![s].status = r.outcome] /\ session \in [Session -> SessionRecord]
    BY <1>3 DEF FinishTurn, HInv, IInv, RowTypes
  <2>2. session'[s].status = r.outcome
    BY <2>1 DEF SessionRecord
  <2> QED
    BY <2>2, <1>4 DEF Outcome
<1>7. process' = process /\ joining' = joining
  BY <1>3 DEF Owner
<1>8. x \in RunRecord /\ x.phase = "leaving" /\ x.gen = r.gen /\ Fits(s, x)'
  BY <1>2, <1>3, <1>6, <1>7, LeavingFits
<1>9. Goes(s, x)
  BY <1>1, <1>3, <1>5, <1>8, LimitAssumption DEF Goes, Active, HInv, RuntimeTypeOK
<1> QED
  BY <1>5, <1>8, <1>9, GoesKeeps

\* What the kinds of events carry.
LEMMA EventDetails ==
    ASSUME NEW e \in Event
    PROVE  /\ e.kind = "tool_start" => e.id \in Tool
           /\ e.kind = "error" => e.failure \in FailureKind \ {"none"}
<1>1. CASE \E r \in NativeOrNone : e = Message(r)
  BY <1>1 DEF Message, Blank
<1>2. CASE \E n \in NativeOrNone : e = SessionStarted(n)
  BY <1>2 DEF SessionStarted, Blank
<1>3. CASE \E n \in NativeOrNone, fx \in Effect : e = Activity(n, fx)
  BY <1>3 DEF Activity, Blank
<1>4. CASE \E t \in Tool, fx \in Effect : e = ToolStart(t, fx)
  BY <1>4 DEF ToolStart, Blank
<1>5. CASE \E t \in Tool : e = ToolEnd(t)
  BY <1>5 DEF ToolEnd, Blank
<1>6. CASE \E b \in BOOLEAN, f \in FailureKind \ {"none"} : e = Error(b, f)
  BY <1>6 DEF Error, Blank
<1>7. CASE \E o \in Outcome, w \in Checkpoint : e = Completed(o, w)
  BY <1>7 DEF Completed, Blank
<1>8. CASE e = Malformed
  BY <1>8 DEF Malformed, Blank
<1> QED
  BY <1>1, <1>2, <1>3, <1>4, <1>5, <1>6, <1>7, <1>8 DEF Event

\* The contract after an event.
LEMMA AdvanceTyped ==
    ASSUME NEW c \in Contract, NEW e \in Event
    PROVE  /\ Advance(c, e) \in Contract
           /\ Advance(c, e).terminal = (e.kind = "completed")
           /\ Advance(c, e).fatal = IF e.kind = "error" THEN ~e.recoverable ELSE c.fatal
<1>1. e \in EventType /\ (e.kind = "tool_start" => e.id \in Tool)
  BY EventFields, EventDetails
<1>2. /\ c.started \in BOOLEAN /\ c.fatal \in BOOLEAN /\ c.native \in NativeOrNone
      /\ c.tools \in SUBSET Tool
  BY DEF Contract
<1>3. e.native \in NativeOrNone /\ e.recoverable \in BOOLEAN
  BY <1>1 DEF EventType
<1>4. (CASE e.kind = "tool_start" -> c.tools \cup {e.id}
         [] e.kind = "tool_end"   -> c.tools \ {e.id}
         [] OTHER                 -> c.tools) \in SUBSET Tool
  BY <1>1, <1>2
<1>5. (IF e.native # NoNative THEN e.native ELSE c.native) \in NativeOrNone
  BY <1>2, <1>3
<1> QED
  BY <1>2, <1>3, <1>4, <1>5 DEF Advance, Contract

\* The row of the attempt whose event is recorded.
LEMMA RecordedRow ==
    ASSUME RowTypes, NEW s \in Session, NEW k \in AttemptNumber, NEW e \in Event,
           NEW fx \in BOOLEAN, Record(s, k, e, fx)
    PROVE  LET a == attempt[s][k]
               b == attempt'[s][k] IN
           /\ a \in AttemptRecord /\ a.status = "running"
           /\ b.native = NativeAfter(s, k, e) /\ b.effects = (a.effects \/ fx)
           /\ b.error = (a.error \/ IsFatal(e))
           /\ b.status = IF e.kind = "completed" THEN e.outcome ELSE "running"
           /\ session' = session /\ turn' = turn
<1> DEFINE a == attempt[s][k]
<1> DEFINE nat == NativeAfter(s, k, e)
<1> DEFINE x == [a EXCEPT !.native  = nat,
                          !.effects = a.effects \/ fx,
                          !.failure = IF IsFatal(e) THEN e.failure ELSE a.failure,
                          !.error   = a.error \/ IsFatal(e),
                          !.status  = IF e.kind = "completed" THEN e.outcome ELSE a.status,
                          !.wait    = IF e.kind = "completed" THEN e.wait ELSE a.wait]
<1>1. /\ attempt \in [Session -> [AttemptNumber -> AttemptRecord]]
      /\ RecordAccepts(s, k, e) /\ attempt' = [attempt EXCEPT ![s][k] = x]
      /\ session' = session /\ turn' = turn
  BY DEF RowTypes, Record
<1>2. a \in AttemptRecord /\ a.status = "running"
  BY <1>1 DEF RecordAccepts
<1>3. /\ x.native = nat /\ x.effects = (a.effects \/ fx) /\ x.error = (a.error \/ IsFatal(e))
      /\ x.status = IF e.kind = "completed" THEN e.outcome ELSE a.status
  <2> HIDE DEF a, nat
  <2> QED
    BY <1>2 DEF AttemptRecord
<1> HIDE DEF x
<1>4. attempt'[s][k] = x
  BY <1>1
<1> QED
  BY <1>1, <1>2, <1>3, <1>4

\* An owner that records an event keeps its claim.
LEMMA RecordingKeeps ==
    ASSUME HInv, NEW s \in Session, NEW r \in RunRecord, r = run[s], NEW x \in RunRecord,
           NEW e \in Event, NEW fx \in BOOLEAN, Record(s, r.attempt, e, fx),
           Owner(s, x), faults' = faults, r.phase \in Owning, x.phase \in Owning \ {"claimed"},
           x.gen = r.gen, x.turn = r.turn, x.attempt = r.attempt,
           Streams(s, x)', Calls(s, x)', Judged(s, x)'
    PROVE  HInv'
<1>1. Fits(s, r) /\ RowTypes
  BY Variables DEF HInv, IInv
<1>2. r.attempt \in AttemptNumber
  BY <1>1 DEF Fits, Claims
<1>3. IInv' /\ Elsewhere(s)
  BY <1>2, TransactionKeeps DEF TurnStep, HInv
<1>4. session' = session /\ turn' = turn
  BY DEF Record
<1>5. Asked(s, x)' /\ Unused(s, x)'
  BY DEF Asked, Unused, Owning
<1>6. Claims(s, x)' /\ Owned(s, x)'
  BY <1>1, <1>4 DEF Fits, Claims, Owned
<1>7. Admits(s, x)'
  BY <1>1 DEF Fits, Admits, Owner, Owning
<1>8. Goes(s, x)
  BY <1>3, LimitAssumption DEF Goes, Active, Owning, HInv, RuntimeTypeOK
<1> QED
  BY <1>3, <1>5, <1>6, <1>7, <1>8, GoesKeeps DEF Fits

\* What is recorded of an attempt is what its owner advances the contract by.
LEMMA StreamAdvances ==
    ASSUME RowTypes, NEW s \in Session, NEW r \in RunRecord, r.attempt \in AttemptNumber,
           Streams(s, r), r.phase \in {"executing", "returned", "closing"},
           NEW e \in Event, NEW fx \in BOOLEAN, Record(s, r.attempt, e, fx),
           ~r.contract.terminal, e.kind = "error" => ~r.contract.fatal,
           NEW x \in RunRecord, x.attempt = r.attempt, x.contract = Advance(r.contract, e),
           x.native = IF NamesNative(e) THEN e.native ELSE r.native,
           x.effects => r.effects \/ fx,
           e.kind = "completed" => x.outcome = e.outcome
    PROVE  Streams(s, x)'
<1> DEFINE a == attempt[s][r.attempt]
<1> DEFINE b == attempt'[s][r.attempt]
<1>1. /\ a \in AttemptRecord /\ a.status = "running"
      /\ b.native = NativeAfter(s, r.attempt, e) /\ b.effects = (a.effects \/ fx)
      /\ b.error = (a.error \/ IsFatal(e))
      /\ b.status = IF e.kind = "completed" THEN e.outcome ELSE "running"
  BY RecordedRow
<1>2. r.contract \in Contract /\ e \in EventType
  BY EventFields DEF RunRecord
<1>3. /\ x.contract.terminal = (e.kind = "completed")
      /\ x.contract.fatal = IF e.kind = "error" THEN ~e.recoverable ELSE r.contract.fatal
  BY <1>2, AdvanceTyped
<1>4. a.error = r.contract.fatal /\ a.native = r.native /\ (r.effects => a.effects)
  BY DEF Streams, Mine
<1>5. e.outcome \in Outcome /\ e.outcome # "running"
  BY <1>2 DEF EventType, Outcome
<1>6. b.status # "running" <=> x.contract.terminal
  BY <1>1, <1>3, <1>5
<1>7. x.contract.terminal => b.status = x.outcome
  BY <1>1, <1>3
<1>8. b.error = x.contract.fatal
  BY <1>1, <1>2, <1>3, <1>4 DEF IsFatal, EventType, Contract
<1>9. b.native = x.native /\ (x.effects => b.effects)
  BY <1>1, <1>4 DEF NativeAfter
<1> HIDE DEF a
<1>10. Mine(s, x)' = b
  BY DEF Mine
<1> QED
  BY <1>6, <1>7, <1>8, <1>9, <1>10 DEF Streams

\* Open tools are ended in the store before the attempt is.
LEMMA TidyKeeps ==
    ASSUME HInv, NEW s \in Session, Tidy(s)
    PROVE  HInv'
<1>1. PICK r \in RunRecord : r = run[s]
  BY Variables
<1>2. PICK t \in r.contract.tools :
        /\ Record(s, r.attempt, ToolEnd(t), TRUE)
        /\ Owner(s, [r EXCEPT !.contract = Advance(@, ToolEnd(t))])
  BY <1>1 DEF Tidy
<1>3. PICK x : x = [r EXCEPT !.contract = Advance(@, ToolEnd(t))]
  OBVIOUS
<1>4. /\ r.pending # NoEvent /\ Owner(s, x) /\ Fits(s, r) /\ faults' = faults
      /\ RowTypes
  BY <1>1, <1>2, <1>3, Variables DEF Tidy, NoFault, HInv, IInv
<1>5. r.phase \in {"executing", "returned", "closing"} /\ r.attempt \in AttemptNumber
  BY <1>4 DEF Fits, Calls, Claims, Owning, Phase
<1>6. PICK e \in Event : e = ToolEnd(t)
  BY DEF RunRecord, Contract, Event
<1>7. e.kind = "tool_end" /\ e.native = NoNative /\ ~NamesNative(e)
  BY <1>6 DEF ToolEnd, Blank, NamesNative
<1>8. Advance(r.contract, e) \in Contract
  BY AdvanceTyped DEF RunRecord
<1>9. /\ x \in RunRecord /\ x.phase = r.phase /\ x.gen = r.gen
      /\ x.attempt = r.attempt /\ x.turn = r.turn /\ x.native = r.native
      /\ x.contract = Advance(r.contract, e) /\ x.effects = r.effects
      /\ x.outcome = r.outcome /\ x.pending = r.pending /\ x.accepting = r.accepting
  BY <1>3, <1>6, <1>8 DEF RunRecord
<1>10. PICK fx \in BOOLEAN : fx = TRUE
  OBVIOUS
<1>11. Record(s, r.attempt, e, fx)
  BY <1>2, <1>6, <1>10
<1>12. Streams(s, r) /\ ~r.contract.terminal
  <2>1. attempt[s][r.attempt].status = "running"
    BY <1>11 DEF Record, RecordAccepts
  <2> QED
    BY <2>1, <1>4, <1>5 DEF Fits, Streams, Mine
<1>13. Streams(s, x)'
  BY <1>4, <1>5, <1>7, <1>9, <1>11, <1>12, StreamAdvances
<1>14. Calls(s, x)' /\ Judged(s, x)'
  BY <1>4, <1>5, <1>9 DEF Fits, Calls, Judged
<1>15. r.phase \in Owning /\ x.phase \in Owning \ {"claimed"}
  BY <1>5, <1>9 DEF Owning, Phase
<1> QED
  BY <1>1, <1>4, <1>9, <1>11, <1>13, <1>14, <1>15, RecordingKeeps

\* An event is stored before its owner goes by it; the owner's own Error is
\* followed by its Completed, and that by the end of the attempt.
LEMMA CommitKeeps ==
    ASSUME HInv, NEW s \in Session, Commit(s)
    PROVE  HInv'
<1>1. PICK r \in RunRecord : r = run[s]
  BY Variables
<1>2. PICK e \in Event : e = r.pending
  BY <1>1, Variables DEF Fits, Calls
<1>3. PICK fx \in BOOLEAN : fx = (r.effects \/ Risky(r.target, e))
  OBVIOUS
<1>4. PICK p : p = Published(s, e)
  OBVIOUS
<1>5. PICK x : x = Continue(s, p)
  OBVIOUS
<1>6. /\ e # NoEvent /\ Owner(s, x) /\ Fits(s, r) /\ faults' = faults /\ RowTypes
      /\ Record(s, r.attempt, e, fx) /\ Accepts(r.contract, e)
  <2>1. /\ e # NoEvent /\ Owner(s, x) /\ Fits(s, r) /\ faults' = faults /\ RowTypes
        /\ Accepts(r.contract, e)
    BY <1>1, <1>2, <1>4, <1>5, Variables DEF Commit, CommitAccepts, NoFault, HInv, IInv
  <2>2. Record(s, r.attempt, e, r.effects \/ Risky(r.target, e))
    BY <1>1, <1>2 DEF Commit
  <2> QED
    BY <2>1, <2>2, <1>3
<1>7. r.phase \in {"executing", "returned", "closing"} /\ r.attempt \in AttemptNumber
  BY <1>2, <1>6 DEF Fits, Calls, Claims, Owning, Phase
<1>8. /\ ~r.contract.terminal /\ (e.kind = "error" => ~r.contract.fatal)
      /\ e \in EventType
  BY <1>6, EventFields DEF Accepts
<1>9. Advance(r.contract, e) \in Contract
      /\ Advance(r.contract, e).terminal = (e.kind = "completed")
  BY AdvanceTyped DEF RunRecord
<1>10. /\ (IF NamesNative(e) THEN e.native ELSE r.native) \in NativeOrNone
       /\ (IF IsFatal(e) THEN e.failure ELSE r.failure) \in FailureKind \ {"none"}
       /\ (IF e.kind = "completed" THEN e.outcome ELSE r.outcome) \in Outcome
       /\ NoEvent \in Event /\ NoEvent \in EventType
  BY <1>8, EventDetails, EventFields DEF EventType, RunRecord, IsFatal, Event, NoEvent
<1>11. /\ p \in RunRecord /\ p.phase = r.phase /\ p.gen = r.gen
       /\ p.attempt = r.attempt /\ p.turn = r.turn
       /\ p.native = (IF NamesNative(e) THEN e.native ELSE r.native)
       /\ p.contract = Advance(r.contract, e) /\ p.effects = fx
       /\ p.outcome = (IF e.kind = "completed" THEN e.outcome ELSE r.outcome)
       /\ p.pending = NoEvent /\ p.accepting = r.accepting
  <2> DEFINE c == Advance(r.contract, e)
  <2> DEFINE n == IF NamesNative(e) THEN e.native ELSE r.native
  <2> DEFINE g == IF IsFatal(e) THEN e.failure ELSE r.failure
  <2> DEFINE o == IF e.kind = "completed" THEN e.outcome ELSE r.outcome
  <2>1. p = [r EXCEPT !.contract = c, !.native = n, !.effects = fx, !.failure = g,
                      !.outcome = o, !.pending = NoEvent]
    BY <1>1, <1>3, <1>4 DEF Published
  <2>2. /\ c \in Contract /\ n \in NativeOrNone /\ g \in FailureKind \ {"none"}
        /\ o \in Outcome /\ NoEvent \in EventType
    BY <1>9, <1>10
  <2> HIDE DEF c, n, g, o
  <2>3. /\ p \in RunRecord /\ p.phase = r.phase /\ p.gen = r.gen
        /\ p.attempt = r.attempt /\ p.turn = r.turn /\ p.native = n /\ p.contract = c
        /\ p.effects = fx /\ p.outcome = o /\ p.pending = NoEvent
        /\ p.accepting = r.accepting
    BY <2>1, <2>2 DEF RunRecord
  <2> QED
    BY <2>3 DEF c, n, o
<1>12. PICK f \in {r.phase, "deciding"}, u \in Event :
         /\ x = [p EXCEPT !.phase = f, !.pending = u]
         /\ f = "deciding" => r.phase = "closing"
         /\ u # NoEvent => f = "closing"
         /\ f = "closing" => e.kind # "completed" /\ u = Completed(r.outcome, 0)
  <2>1. CASE r.phase # "closing"
    <3>1. x = p
      BY <1>1, <1>5, <2>1 DEF Continue
    <3>2. p = [p EXCEPT !.phase = r.phase, !.pending = NoEvent]
      BY <1>11 DEF RunRecord
    <3> QED
      BY <2>1, <3>1, <3>2, <1>10, <1>7
  <2>2. CASE r.phase = "closing" /\ p.contract.terminal
    <3>1. x = [p EXCEPT !.phase = "deciding"]
      BY <1>1, <1>5, <2>2 DEF Continue
    <3>2. x = [p EXCEPT !.phase = "deciding", !.pending = NoEvent]
      BY <3>1, <1>11 DEF RunRecord
    <3> QED
      BY <2>2, <3>2, <1>10
  <2>3. CASE r.phase = "closing" /\ ~p.contract.terminal
    <3>1. e.kind # "completed" /\ p.outcome = r.outcome
      BY <2>3, <1>9, <1>11
    <3>2. x = [p EXCEPT !.pending = Completed(r.outcome, 0)]
      BY <1>1, <1>5, <2>3, <3>1 DEF Continue
    <3>3. x = [p EXCEPT !.phase = r.phase, !.pending = Completed(r.outcome, 0)]
      BY <3>2, <1>11 DEF RunRecord
    <3>4. Completed(r.outcome, 0) \in Event
      BY <2>3, <1>6, EndEvents DEF Fits, Calls
    <3> QED
      BY <2>3, <3>1, <3>3, <3>4
  <2> QED
    BY <2>1, <2>2, <2>3
<1>13. /\ x \in RunRecord /\ x.phase = f /\ x.gen = r.gen
       /\ x.attempt = r.attempt /\ x.turn = r.turn
       /\ x.native = p.native /\ x.contract = p.contract /\ x.effects = p.effects
       /\ x.outcome = p.outcome /\ x.pending = u /\ x.accepting = r.accepting
  <2>1. f \in Phase /\ u \in EventType
    BY EventFields DEF Phase, RunRecord
  <2> QED
    BY <2>1, <1>11, <1>12 DEF RunRecord
<1>14. Streams(s, x)'
  <2>1. Streams(s, r)
    BY <1>6 DEF Fits
  <2>2. x.effects => r.effects \/ fx
    BY <1>11, <1>13
  <2> QED
    BY <2>1, <2>2, <1>6, <1>7, <1>8, <1>11, <1>13, StreamAdvances
<1>15. r.phase = "closing" => x.outcome = r.outcome /\ r.outcome \in {"failed", "cancelled"}
  <2> SUFFICES ASSUME r.phase = "closing"
               PROVE  x.outcome = r.outcome /\ r.outcome \in {"failed", "cancelled"}
    OBVIOUS
  <2>1. /\ r.outcome \in {"failed", "cancelled"}
        /\ e = Completed(r.outcome, 0) \/ \E g \in FailureKind : e = Error(FALSE, g)
    BY <1>2, <1>6 DEF Fits, Calls
  <2>2. e.kind = "completed" => e.outcome = r.outcome
    BY <2>1 DEF Completed, Error, Blank
  <2> QED
    BY <2>1, <2>2, <1>11, <1>13
<1>16. Calls(s, x)'
  BY <1>6, <1>7, <1>12, <1>13, <1>15 DEF Fits, Calls
<1>17. Judged(s, x)'
  BY <1>7, <1>12, <1>13, <1>15 DEF Judged
<1>18. r.phase \in Owning /\ x.phase \in Owning \ {"claimed"}
  BY <1>7, <1>12, <1>13 DEF Owning, Phase
<1> QED
  BY <1>1, <1>6, <1>13, <1>14, <1>16, <1>17, <1>18, RecordingKeeps

\* The rows of the attempt that is opened, and of its turn.
LEMMA OpenedRow ==
    ASSUME RowTypes, NEW s \in Session, NEW n \in TurnNumber, NEW q \in Route, NEW h, NEW cut,
           OpenAttempt(s, n, q, h, cut)
    PROVE  LET k == session[s].attempts + 1 IN
           /\ k \in AttemptNumber
           /\ turn'[s][n].status = "running" /\ turn'[s][n].active = k
           /\ attempt'[s][k].status = "running" /\ attempt'[s][k].error = FALSE
<1> DEFINE k == session[s].attempts + 1
<1> DEFINE a == NewAttempt(s, n, q, h, cut)
<1>1. /\ k \in AttemptNumber /\ attempt' = [attempt EXCEPT ![s][k] = a]
      /\ turn' = [turn EXCEPT ![s][n] = [status |-> "running", active |-> k]]
      /\ attempt \in [Session -> [AttemptNumber -> AttemptRecord]]
      /\ turn \in [Session -> [TurnNumber -> TurnRecord]]
  BY DEF OpenAttempt, RowTypes
<1>2. a.status = "running" /\ a.error = FALSE
  BY DEF NewAttempt, NoAttempt
<1> HIDE DEF a
<1>3. attempt'[s][k] = a
  BY <1>1
<1>4. turn'[s][n] = [status |-> "running", active |-> k]
  BY <1>1
<1> QED
  BY <1>1, <1>2, <1>3, <1>4

\* An owner claims the attempt that the store has opened for it.
LEMMA ClaimKeeps ==
    ASSUME HInv, NEW s \in Session, run[s].phase \in {"admitting", "routing"},
           run[s].tries < MaxTries, NEW tried \in SUBSET Route, Owner(s, Claimed(s, tried)),
           faults' = faults, TurnStep(s) \/ WaitStep(s),
           NEW n \in TurnNumber, NEW k \in AttemptNumber,
           session'[s].turns = n, session'[s].attempts = k, session'[s].active \in Route,
           turn'[s][n].status = "running", turn'[s][n].active = k,
           attempt'[s][k].status = "running", attempt'[s][k].error = FALSE
    PROVE  HInv'
<1>1. PICK r \in RunRecord : r = run[s]
  BY Variables
<1>2. PICK x : x = Claimed(s, tried)
  OBVIOUS
<1>3. Fits(s, r) /\ Owner(s, x) /\ IInv' /\ Elsewhere(s)
  BY <1>1, <1>2, Variables, TransactionKeeps DEF HInv
<1>4. x = [r EXCEPT !.phase = "claimed", !.turn = n, !.attempt = k, !.tries = r.tries + 1,
                    !.skipped = {}, !.tried = tried \cup {session'[s].active}]
  BY <1>1, <1>2 DEF Claimed
<1>5. r.tries + 1 \in 0..MaxTries /\ n \in 0..MaxTurn /\ k \in 0..MaxAttempt
  BY <1>1, LimitAssumption, BoundAssumption DEF RunRecord, TurnNumber, AttemptNumber
<1>6. /\ x \in RunRecord /\ x.phase = "claimed" /\ x.gen = r.gen /\ x.turn = n
      /\ x.attempt = k /\ x.pending = r.pending /\ x.accepting = r.accepting
  BY <1>4, <1>5 DEF RunRecord, Phase
<1>7. Calls(s, x)' /\ Asked(s, x)' /\ Streams(s, x)' /\ Judged(s, x)'
  BY <1>1, <1>3, <1>6 DEF Fits, Calls, Asked, Streams, Judged
<1>8. Claims(s, x)' /\ Owned(s, x)'
  BY <1>6 DEF Claims, Owned, Owning, Phase
<1>9. Unused(s, x)'
  BY <1>6 DEF Unused, Mine
<1>10. Admits(s, x)'
  BY <1>1, <1>3, <1>6 DEF Fits, Admits, Owner
<1>11. Goes(s, x)
  BY <1>1, <1>3, <1>6, LimitAssumption DEF Goes, Active, HInv, RuntimeTypeOK
<1> QED
  BY <1>3, <1>7, <1>8, <1>9, <1>10, <1>11, GoesKeeps DEF Fits

\* The store admits the run.
LEMMA AdmitKeeps ==
    ASSUME HInv, NEW s \in Session, Admit(s)
    PROVE  HInv'
<1>1. PICK r \in RunRecord : r = run[s]
  BY Variables
<1>2. /\ r.phase = "admitting" /\ Owner(s, Claimed(s, {})) /\ faults' = faults
      /\ Fits(s, r) /\ RowTypes /\ session \in [Session -> SessionRecord]
  BY <1>1, Variables DEF Admit, At, NoFault, HInv, IInv, RowTypes
<1>3. r.expected \in Route /\ r.tries < MaxTries /\ (r.wait # 0 => r.turn \in TurnNumber)
  BY <1>2, LimitAssumption DEF Fits, Asked
<1>6. PICK none \in SUBSET Route : none = {} /\ Owner(s, Claimed(s, none))
  BY <1>2
<1>7. run[s].phase \in {"admitting", "routing"} /\ run[s].tries < MaxTries /\ faults' = faults
  BY <1>1, <1>2, <1>3
<1> DEFINE k == session[s].attempts + 1
<1>4. CASE r.wait = 0
  <2> DEFINE n == session[s].turns + 1
  <2>1. BeginTurn(s, r.expected)
    BY <1>1, <1>4 DEF Admit
  <2>2. /\ n \in TurnNumber /\ session[s].active = r.expected
        /\ \E h \in Handoffs(s, r.expected) :
             OpenAttempt(s, n, r.expected, h, h # Unseen(s, r.expected))
        /\ session' = [session EXCEPT ![s].status = "running", ![s].turns = n,
                                      ![s].attempts = @ + 1]
    BY <2>1 DEF BeginTurn, BeginTurnAccepts
  <2>3. /\ k \in AttemptNumber
        /\ turn'[s][n].status = "running" /\ turn'[s][n].active = k
        /\ attempt'[s][k].status = "running" /\ attempt'[s][k].error = FALSE
    BY <2>2, <1>2, <1>3, OpenedRow
  <2>4. /\ session'[s].turns = n /\ session'[s].attempts = k
        /\ session'[s].active \in Route
    BY <2>2, <1>2, <1>3 DEF SessionRecord
  <2>5. TurnStep(s)
    BY <2>1, <1>3 DEF TurnStep
  <2> QED
    BY <2>2, <2>3, <2>4, <2>5, <1>6, <1>7, ClaimKeeps
<1>5. CASE r.wait # 0
  <2> DEFINE n == r.turn
  <2>1. BeginWaitResume(s, r.expected, n, r.wait)
    BY <1>1, <1>5 DEF Admit
  <2>2. /\ n \in TurnNumber /\ session[s].active = r.expected /\ n = session[s].turns
        /\ OpenAttempt(s, n, r.expected, {}, FALSE)
        /\ session' = [session EXCEPT ![s].status = "running", ![s].attempts = @ + 1]
    BY <2>1, <1>3, <1>5 DEF BeginWaitResume, WaitResumeAccepts
  <2>3. /\ k \in AttemptNumber
        /\ turn'[s][n].status = "running" /\ turn'[s][n].active = k
        /\ attempt'[s][k].status = "running" /\ attempt'[s][k].error = FALSE
    BY <2>2, <1>2, <1>3, OpenedRow
  <2>4. /\ session'[s].turns = n /\ session'[s].attempts = k
        /\ session'[s].active \in Route
    BY <2>2, <1>2, <1>3 DEF SessionRecord
  <2>5. WaitStep(s)
    BY <2>1, <2>2, <1>3 DEF WaitStep, RunRecord
  <2> QED
    BY <2>2, <2>3, <2>4, <2>5, <1>6, <1>7, ClaimKeeps
<1> QED
  BY <1>4, <1>5

\* The owner falls back to another route.
LEMMA FallbackKeeps ==
    ASSUME HInv, NEW s \in Session, NEW q \in Route, Fallback(s, q)
    PROVE  HInv'
<1>1. PICK r \in RunRecord : r = run[s]
  BY Variables
<1>2. /\ r.phase = "routing" /\ r.tries < MaxTries /\ Owner(s, Claimed(s, r.tried))
      /\ BeginFallback(s, r.attempt, q) /\ faults' = faults /\ Fits(s, r) /\ SInv(s)
      /\ RowTypes /\ session \in [Session -> SessionRecord]
  BY <1>1, Variables DEF Fallback, At, NoFault, HInv, IInv, RowTypes
<1>3. r.attempt \in AttemptNumber /\ r.tried \in SUBSET Route
  BY <1>2 DEF Fits, Claims, Owning, Phase, RunRecord
<1> DEFINE k == session[s].attempts + 1
<1> DEFINE n == attempt[s][r.attempt].turn
<1>4. /\ n \in TurnNumber /\ turn[s][n].status = "running"
      /\ \E h \in Handoffs(s, q) : OpenAttempt(s, n, q, h, h # Unseen(s, q))
      /\ session' = [session EXCEPT ![s].active = q, ![s].attempts = @ + 1]
  BY <1>2 DEF BeginFallback, FallbackAccepts, RunningTurns
<1>5. n = session[s].turns
  BY <1>2, <1>4 DEF SInv, MatchesTurn, Live
<1>6. /\ k \in AttemptNumber
      /\ turn'[s][n].status = "running" /\ turn'[s][n].active = k
      /\ attempt'[s][k].status = "running" /\ attempt'[s][k].error = FALSE
  BY <1>2, <1>4, OpenedRow
<1>7. session'[s].turns = n /\ session'[s].attempts = k /\ session'[s].active \in Route
  BY <1>2, <1>4, <1>5 DEF SessionRecord
<1>8. TurnStep(s)
  BY <1>2, <1>3 DEF TurnStep
<1> QED
  BY <1>1, <1>2, <1>3, <1>4, <1>6, <1>7, <1>8, ClaimKeeps

-----------------------------------------------------------------------------
(* Steps that are not of an owner.                                         *)

\* Who owns nothing believes nothing that a change of the rows could refute.
LEMMA UnownedFits ==
    ASSUME NEW s \in Session, NEW r, Fits(s, r), r.phase \notin Owning,
           session'[s].status = "running" => process' = "down" \/ faults' > 0,
           process' \in {"closed", "down"} => r.phase = "none",
           process' = "closing" /\ r.phase # "none" => s \in joining'
    PROVE  Fits(s, r)'
<1>1. r.phase \notin {"claimed", "starting", "executing", "returned", "closing",
                      "deciding", "routing", "finishing"}
  BY DEF Owning, Phase
<1>2. Asked(s, r)' /\ Claims(s, r)' /\ Owned(s, r)' /\ Admits(s, r)'
  BY DEF Fits, Asked, Claims, Owned, Admits
<1>3. Unused(s, r)' /\ Streams(s, r)' /\ Judged(s, r)'
  BY <1>1 DEF Unused, Streams, Judged
<1>4. Calls(s, r)'
  BY DEF Fits, Calls
<1> QED
  BY <1>2, <1>3, <1>4 DEF Fits

\* A session that no turn of runs has no owner.
LEMMA IdleIsUnowned ==
    ASSUME HInv, NEW s \in Session, session[s].status # "running"
    PROVE  run[s].phase \notin Owning
<1>1. RowTypes /\ SInv(s) /\ Claims(s, run[s])
  BY Variables DEF HInv, IInv, Fits
<1>2. \A n \in TurnNumber : turn[s][n].status # "running"
  BY <1>1 DEF SInv, MatchesTurn, Live, TurnNumber
<1> QED
  BY <1>1, <1>2 DEF Claims

\* The product calls that go straight to the store find the session idle, and
\* leave it so.
LEMMA ClientFindsIdle ==
    ASSUME HInv, NEW s \in Session, Client(s)
    PROVE  session[s].status # "running" /\ session'[s].status # "running"
<1>1. session[s] \in SessionRecord /\ session \in [Session -> SessionRecord]
  BY DEF HInv, IInv, RowTypes
<1>2. CASE \E q \in Route : CreateSession(s, q)
  BY <1>1, <1>2 DEF CreateSession, Exists, SessionRecord
<1>3. CASE \E q \in Route : Switch(s, q)
  BY <1>1, <1>3 DEF Switch, Idle, BlocksInput, SessionRecord
<1>4. CASE \E F \in SUBSET Route : SetFallback(s, F)
  BY <1>4 DEF SetFallback, Idle, BlocksInput
<1>5. CASE \E enabled \in BOOLEAN : SetDurableWaits(s, enabled)
  BY <1>5 DEF SetDurableWaits, Idle, BlocksInput
<1>6. CASE \E q \in Route, nat \in Native : BindNative(s, q, nat)
  BY <1>6 DEF BindNative, Idle, BlocksInput
<1>7. CASE \E q \in Route, n \in TurnNumber : AbandonWaitingTurn(s, q, n)
  BY <1>1, <1>7 DEF AbandonWaitingTurn, SessionRecord
<1> QED
  BY <1>2, <1>3, <1>4, <1>5, <1>6, <1>7 DEF Client, IdleStep

LEMMA ClientKeeps ==
    ASSUME HInv, NEW s \in Session, Client(s)
    PROVE  HInv'
<1>1. /\ run' = run /\ gens' = gens /\ ctl' = ctl /\ process' = process
      /\ joining' = joining /\ faults' = faults /\ faults \in Nat
  BY LimitAssumption DEF Client, hubVars, HInv, RuntimeTypeOK
<1>2. IInv' /\ Elsewhere(s)
  BY TransactionKeeps DEF Client, WaitStep, HInv
<1>3. session[s].status # "running" /\ session'[s].status # "running"
  BY ClientFindsIdle
<1>4. RuntimeTypeOK' /\ IsFiniteSet(ActiveSessions)'
  BY <1>1 DEF HInv, RuntimeTypeOK, ActiveSessions, Active
<1>5. ASSUME NEW p \in Session
      PROVE  Fits(p, run[p])'
  <2>1. PICK r \in RunRecord : r = run[p] /\ Fits(p, r)
    BY Variables
  <2>2. CASE p # s
    <3>1. Same(p)
      BY <1>2, <2>2 DEF Elsewhere
    <3>2. Fits(p, r)'
      BY <1>1, <2>1, <3>1, FitsKept DEF HInv
    <3> QED
      BY <1>1, <2>1, <3>2
  <2>3. CASE p = s
    <3>1. r.phase \notin Owning
      BY <1>3, <2>1, <2>3, IdleIsUnowned
    <3>2. Admits(s, r)
      BY <2>1, <2>3 DEF Fits
    <3>3. Fits(s, r)'
      BY <1>1, <1>3, <2>1, <2>3, <3>1, <3>2, UnownedFits DEF Admits
    <3> QED
      BY <1>1, <2>1, <2>3, <3>3
  <2> QED
    BY <2>2, <2>3
<1>6. \A c \in Caller : Aimed(c)'
  BY <1>1 DEF HInv, Aimed
<1> QED
  BY <1>2, <1>4, <1>5, <1>6 DEF HInv

\* Start and ResumeWait enter the session into the active table.
LEMMA InsertKeeps ==
    ASSUME HInv, NEW s \in Session, NEW q \in Route, NEW n \in 0..MaxTurn, NEW w \in Checkpoint,
           w # 0 => n \in TurnNumber, Insert(s, q, n, w)
    PROVE  HInv'
<1>1. /\ ~Active(s) /\ process = "up" /\ Cardinality(ActiveSessions) < MaxActive
      /\ gens[s] < MaxRun /\ gens \in [Session -> 0..MaxRun] /\ MaxRun \in Nat
      /\ gens' = [gens EXCEPT ![s] = @ + 1]
      /\ ctl' = ctl /\ process' = process /\ joining' = joining /\ Rests
  BY LimitAssumption DEF Insert, MayStart, ActiveSessions, Rests, HInv, RuntimeTypeOK
<1>2. PICK g \in 0..MaxRun : g = gens[s] + 1
  BY <1>1
<1>3. PICK x : x = [NoRun EXCEPT !.phase = "admitting", !.gen = g, !.expected = q,
                                 !.turn = n, !.wait = w]
  OBVIOUS
<1>4. run \in [Session -> RunRecord] /\ run' = [run EXCEPT ![s] = x]
  <2>1. gens'[s] = g
    BY <1>1, <1>2
  <2> QED
    BY <2>1, <1>3 DEF Insert, HInv, RuntimeTypeOK
<1>5. run[s].phase \notin Owning /\ Fits(s, run[s]) /\ NoRun \in RunRecord
  BY <1>1, Variables, NoRunFits DEF Active, Owning
<1>6. /\ x \in RunRecord /\ x.phase = "admitting" /\ x.expected = q /\ x.native = NoNative
      /\ x.tries = 0 /\ x.wait = w /\ x.turn = n /\ x.pending = NoEvent /\ x.accepting = FALSE
  BY <1>3, <1>5 DEF NoRun, RunRecord, Phase
<1>7. /\ IInv' /\ \A p \in Session : Same(p)
      /\ faults' \in 0..MaxFault /\ faults' >= faults /\ faults' \in Nat
  BY <1>1, RestsKeep, LimitAssumption
<1>8. /\ run'[s] = x /\ run' \in [Session -> RunRecord]
      /\ \A p \in Session : p # s => run'[p] = run[p]
  BY <1>4, <1>6
<1>9. RuntimeTypeOK' /\ IsFiniteSet(ActiveSessions)'
  <2>1. ActiveSessions' = ActiveSessions \cup {s} /\ s \notin ActiveSessions
    BY <1>1, <1>6, <1>8 DEF ActiveSessions, Active
  <2>2. /\ IsFiniteSet(ActiveSessions') /\ Cardinality(ActiveSessions') = Cardinality(ActiveSessions) + 1
        /\ Cardinality(ActiveSessions) \in Nat
    BY <2>1, FS_AddElement, FS_CardinalityType DEF HInv
  <2>3. Cardinality(ActiveSessions') <= MaxActive
    BY <2>2, <1>1, LimitAssumption
  <2>4. gens' \in [Session -> 0..MaxRun]
    BY <1>1
  <2> QED
    BY <2>2, <2>3, <2>4, <1>1, <1>7, <1>8 DEF HInv, RuntimeTypeOK, ActiveSessions
<1>10. Fits(s, x)'
  <2>1. Asked(s, x) /\ Claims(s, x) /\ Unused(s, x) /\ Streams(s, x) /\ Judged(s, x)
    BY <1>6 DEF Asked, Claims, Unused, Streams, Judged, Owning
  <2>2. NoEvent \in Event
    BY DEF NoEvent, Event
  <2>3. Calls(s, x)
    BY <1>6, <2>2 DEF Calls
  <2>4. Owned(s, x) /\ Admits(s, x)
    BY <1>1, <1>5, <1>6 DEF Fits, Owned, Admits
  <2> QED
    BY <2>1, <2>3, <2>4, <1>1, <1>7, FitsKept DEF Fits, HInv
<1>11. ASSUME NEW p \in Session
       PROVE  Fits(p, run[p])'
  <2>1. CASE p # s
    <3>1. PICK r \in RunRecord : r = run[p] /\ Fits(p, r)
      BY Variables
    <3>2. Fits(p, r)'
      BY <1>1, <1>7, <3>1, FitsKept DEF HInv
    <3> QED
      BY <1>8, <2>1, <3>1, <3>2
  <2>2. CASE p = s
    BY <1>8, <1>10, <2>2
  <2> QED
    BY <2>1, <2>2
<1>12. ASSUME NEW c \in Caller
       PROVE  Aimed(c)'
  BY <1>1, <1>8 DEF HInv, Aimed, Active
<1> QED
  BY <1>7, <1>9, <1>11, <1>12 DEF HInv

\* Callers find a run, aim at it under its control lock, and return.
LEMMA ControlKeeps ==
    ASSUME HInv, NEW c \in Caller, ControlStep(c)
    PROVE  HInv'
<1>1. /\ IInv' /\ \A p \in Session : Same(p)
      /\ faults' \in 0..MaxFault /\ faults' >= faults /\ faults' \in Nat
  BY RestsKeep, LimitAssumption DEF ControlStep, CtlFind, CtlAim, CtlReturn, Control, Rests
<1>2. /\ gens' = gens /\ process' = process /\ joining' = joining
      /\ \E y : ctl' = [ctl EXCEPT ![c] = y]
      /\ run \in [Session -> RunRecord]
      /\ ctl \in [Caller -> [at : {"idle", "found", "calling"},
                             session : Session \cup {NoRoute}, gen : 0..MaxRun]]
  BY DEF ControlStep, CtlFind, CtlAim, CtlReturn, Control, HInv, RuntimeTypeOK
<1>3. PICK y : ctl' = [ctl EXCEPT ![c] = y]
  BY <1>2
<1>4. ctl'[c] = y /\ \A d \in Caller : d # c => ctl'[d] = ctl[d]
  BY <1>2, <1>3
<1>5. Idler \in [at : {"idle", "found", "calling"},
                 session : Session \cup {NoRoute}, gen : 0..MaxRun] /\ Idler.at = "idle"
  BY LimitAssumption DEF Idler
\* Only the flag of the run that is cancelled changes.
<1>6. /\ run' \in [Session -> RunRecord]
      /\ \A p \in Session : /\ run'[p].phase = run[p].phase /\ run'[p].gen = run[p].gen
                            /\ Fits(p, run'[p])
  <2>1. CASE run' = run
    BY <2>1, <1>2, Variables
  <2>2. CASE run' # run
    <3>1. PICK s \in Session : run' = [run EXCEPT ![s].cancelled = TRUE]
      BY <2>2 DEF ControlStep, CtlFind, CtlAim, CtlReturn, Control, HInv, Aimed
    <3>2. PICK r \in RunRecord : r = run[s] /\ Fits(s, r)
      BY Variables
    <3>3. PICK x : x = [r EXCEPT !.cancelled = TRUE]
      OBVIOUS
    <3>4. x \in RunRecord /\ x.phase = r.phase /\ x.gen = r.gen /\ Fits(s, x)
      BY <3>2, <3>3, CancelledFits
    <3>5. run' = [run EXCEPT ![s] = x]
      BY <3>1, <3>2, <3>3
    <3>6. run'[s] = x /\ \A p \in Session : p # s => run'[p] = run[p]
      BY <3>5, <1>2
    <3> QED
      BY <3>2, <3>4, <3>5, <3>6, <1>2, Variables
  <2> QED
    BY <2>1, <2>2
<1>7. /\ y \in [at : {"idle", "found", "calling"},
                session : Session \cup {NoRoute}, gen : 0..MaxRun]
      /\ y.at # "idle" => y.session \in Session
      /\ y.at = "calling" => /\ run[y.session].phase \notin {"none", "admitting"}
                             /\ run[y.session].gen = y.gen
  <2>1. CASE \E s \in Session : CtlFind(c, s)
    <3>1. PICK s \in Session : CtlFind(c, s)
      BY <2>1
    <3>2. y = [at |-> "found", session |-> s, gen |-> run[s].gen]
      BY <3>1, <1>2, <1>4 DEF CtlFind, Control
    <3>3. run[s].gen \in 0..MaxRun
      BY <1>2 DEF RunRecord
    <3> QED
      BY <3>2, <3>3
  <2>2. CASE \E cancels \in BOOLEAN : CtlAim(c, cancels)
    <3> DEFINE s == ctl[c].session
    <3> DEFINE aims == /\ Active(s) /\ run[s].gen = ctl[c].gen
                       /\ run[s].target \in Registered /\ run[s].native # NoNative
    <3>1. ctl[c].at = "found" /\ y = IF aims THEN [ctl[c] EXCEPT !.at = "calling"] ELSE Idler
      BY <2>2, <1>2, <1>4 DEF CtlAim, Control
    <3>2. s \in Session
      BY <3>1 DEF HInv, Aimed
    <3>3. aims => run[s].phase \notin {"none", "admitting"}
      BY <3>2, Variables DEF Active, Fits, Asked
    <3> QED
      BY <3>1, <3>2, <3>3, <1>2, <1>5
  <2>3. CASE CtlReturn(c)
    <3>1. y = Idler
      BY <2>3, <1>2, <1>4 DEF CtlReturn, Control
    <3> QED
      BY <3>1, <1>5
  <2> QED
    BY <2>1, <2>2, <2>3 DEF ControlStep
<1>8. RuntimeTypeOK' /\ IsFiniteSet(ActiveSessions)'
  <2>1. ActiveSessions' = ActiveSessions
    BY <1>6 DEF ActiveSessions, Active
  <2>2. ctl' \in [Caller -> [at : {"idle", "found", "calling"},
                             session : Session \cup {NoRoute}, gen : 0..MaxRun]]
    BY <1>2, <1>3, <1>7
  <2> QED
    BY <2>1, <2>2, <1>1, <1>2, <1>6 DEF HInv, RuntimeTypeOK, ActiveSessions
<1>9. ASSUME NEW p \in Session
      PROVE  Fits(p, run[p])'
  <2>1. PICK r : r = run'[p] /\ Fits(p, r)
    BY <1>6
  <2>2. Fits(p, r)'
    BY <1>1, <1>2, <2>1, FitsKept DEF HInv
  <2> QED
    BY <2>1, <2>2
<1>10. ASSUME NEW d \in Caller
       PROVE  Aimed(d)'
  <2>1. CASE d # c
    BY <2>1, <1>4, <1>6 DEF HInv, Aimed
  <2>2. CASE d = c
    BY <2>2, <1>4, <1>6, <1>7 DEF Aimed
  <2> QED
    BY <2>1, <2>2
<1> QED
  BY <1>1, <1>8, <1>9, <1>10 DEF HInv

\* Close cancels every run and waits for the runs it found.
LEMMA CloseKeeps ==
    ASSUME HInv, Close
    PROVE  HInv'
<1>1. /\ process = "up" /\ process' = "closing" /\ joining' = ActiveSessions
      /\ run' = CancelledRuns /\ gens' = gens /\ ctl' = ctl /\ faults' = faults /\ Rests
  BY DEF Close, ActiveSessions, Local, NoFault, Rests
<1>2. IInv' /\ \A p \in Session : Same(p)
  BY <1>1, RestsKeep
<1>3. ASSUME NEW p \in Session
      PROVE  /\ run'[p] \in RunRecord /\ run'[p].phase = run[p].phase
             /\ run'[p].gen = run[p].gen /\ Fits(p, run'[p])
  <2>1. PICK r \in RunRecord : r = run[p] /\ Fits(p, r)
    BY Variables
  <2>2. PICK x : x = [r EXCEPT !.cancelled = TRUE]
    OBVIOUS
  <2>3. x \in RunRecord /\ x.phase = r.phase /\ x.gen = r.gen /\ Fits(p, x)
    BY <2>1, <2>2, CancelledFits
  <2>4. run'[p] = IF Active(p) THEN x ELSE r
    BY <1>1, <2>1, <2>2 DEF CancelledRuns
  <2> QED
    BY <2>1, <2>3, <2>4
<1>4. RuntimeTypeOK' /\ IsFiniteSet(ActiveSessions)'
  <2>1. ActiveSessions' = ActiveSessions
    BY <1>3 DEF ActiveSessions, Active
  <2>2. run' \in [Session -> RunRecord]
    BY <1>1, <1>3 DEF CancelledRuns
  <2> QED
    BY <2>1, <2>2, <1>1 DEF HInv, RuntimeTypeOK, ActiveSessions
<1>5. ASSUME NEW p \in Session
      PROVE  Fits(p, run[p])'
  <2>1. PICK x : x = run'[p] /\ Fits(p, x)
    BY <1>3
  <2>2. /\ session'[p] = session[p] /\ turn'[p] = turn[p] /\ attempt'[p] = attempt[p]
    BY <1>2 DEF Same
  <2>3. Mine(p, x)' = Mine(p, x)
    BY <2>2 DEF Mine
  <2>4. Asked(p, x)' /\ Claims(p, x)' /\ Unused(p, x)' /\ Streams(p, x)' /\ Judged(p, x)'
    BY <2>1, <2>2, <2>3 DEF Fits, Asked, Claims, Unused, Streams, Judged
  <2>5. Calls(p, x)' /\ Owned(p, x)'
    BY <1>1, <2>1, <2>2 DEF Fits, Calls, Owned
  <2>6. Admits(p, x)'
    BY <1>1, <1>3, <2>1 DEF Admits, ActiveSessions, Active
  <2>7. Fits(p, x)'
    BY <2>4, <2>5, <2>6 DEF Fits
  <2> QED
    BY <2>1, <2>7
<1>6. \A c \in Caller : Aimed(c)'
  BY <1>1, <1>3 DEF HInv, Aimed
<1> QED
  BY <1>2, <1>4, <1>5, <1>6 DEF HInv

\* Close returns when the runs it found have left, and so has everybody.
LEMMA CloseReturnsKeeps ==
    ASSUME HInv, CloseReturns
    PROVE  HInv'
<1>1. /\ process = "closing" /\ process' = "closed" /\ joining' = {} /\ run' = run
      /\ gens' = gens /\ ctl' = ctl /\ faults' = faults /\ Rests
      /\ \A s \in joining : ~Active(s)
  BY DEF CloseReturns, Local, NoFault, Rests
<1>2. IInv' /\ \A p \in Session : Same(p)
  BY <1>1, RestsKeep
<1>3. ASSUME NEW p \in Session
      PROVE  Fits(p, run[p])'
  <2>1. PICK r \in RunRecord : r = run[p] /\ Fits(p, r)
    BY Variables
  <2>2. r.phase = "none"
    BY <1>1, <2>1 DEF Fits, Admits, Active
  <2>3. session'[p] = session[p] /\ faults' = faults
    BY <1>1, <1>2 DEF Same
  <2>4. r.phase \notin Owning
    BY <2>2 DEF Owning
  <2>5. session'[p].status = "running" => faults' > 0
    BY <1>1, <2>1, <2>3, <2>4 DEF Fits, Owned
  <2>6. Fits(p, r)'
    BY <1>1, <2>1, <2>2, <2>4, <2>5, UnownedFits
  <2> QED
    BY <1>1, <2>1, <2>6
<1>4. RuntimeTypeOK' /\ IsFiniteSet(ActiveSessions)'
  BY <1>1 DEF HInv, RuntimeTypeOK, ActiveSessions, Active
<1>5. \A c \in Caller : Aimed(c)'
  BY <1>1 DEF HInv, Aimed
<1> QED
  BY <1>2, <1>3, <1>4, <1>5 DEF HInv

\* Nobody is in the active table, and if a turn runs all the same, the process
\* is down or a store call has failed.
Nobody ==
    /\ IInv /\ run = [s \in Session |-> NoRun] /\ ctl = [c \in Caller |-> Idler]
    /\ gens \in [Session -> 0..MaxRun] /\ process \in {"up", "down"} /\ joining = {}
    /\ faults \in 0..MaxFault
    /\ \A s \in Session : session[s].status = "running" => process = "down" \/ faults > 0

LEMMA NobodyFits == Nobody => HInv
<1> SUFFICES ASSUME Nobody PROVE HInv
  OBVIOUS
<1> USE DEF Nobody
<1>1. \A s \in Session : run[s] = NoRun
  OBVIOUS
<1>2. ActiveSessions = {}
  BY <1>1, EmptyTable DEF ActiveSessions, Active
<1>3. IsFiniteSet(ActiveSessions) /\ Cardinality(ActiveSessions) <= MaxActive
  BY <1>2, FS_EmptySet, LimitAssumption
<1>4. RuntimeTypeOK
  BY <1>3, EmptyTable DEF RuntimeTypeOK, ActiveSessions
<1>5. ASSUME NEW s \in Session
      PROVE  Fits(s, run[s])
  <2>1. Asked(s, NoRun) /\ Claims(s, NoRun) /\ Admits(s, NoRun) /\ Owned(s, NoRun)
    BY EmptyTable DEF Asked, Claims, Admits, Owning, Owned
  <2>2. Unused(s, NoRun) /\ Streams(s, NoRun) /\ Judged(s, NoRun)
    BY EmptyTable DEF Unused, Streams, Judged
  <2>3. Calls(s, NoRun)
    BY EmptyTable DEF Calls, NoEvent, Event
  <2> QED
    BY <1>1, <2>1, <2>2, <2>3 DEF Fits
<1>6. \A c \in Caller : Aimed(c)
  BY EmptyTable DEF Aimed
<1> QED
  BY <1>3, <1>4, <1>5, <1>6 DEF HInv

\* A crash takes every owner with it.
LEMMA CrashKeeps ==
    ASSUME HInv, Crash
    PROVE  HInv'
<1>1. /\ process' = "down" /\ run' = [s \in Session |-> NoRun]
      /\ ctl' = [c \in Caller |-> Idler] /\ joining' = {} /\ gens' = gens
      /\ faults' = faults /\ Rests
  BY DEF Crash, Local, NoFault, Rests
<1>2. IInv'
  BY <1>1, RestsKeep
<1>3. Nobody'
  BY <1>1, <1>2 DEF Nobody, HInv, RuntimeTypeOK
<1> QED
  BY <1>3, NobodyFits, PTL

\* While the process is down there are no runs.
LEMMA DownIsEmpty ==
    ASSUME HInv, process = "down", NEW s \in Session
    PROVE  run[s].phase = "none"
BY Variables DEF Fits, Admits

\* The store has been recovered before the next process takes a call, so that
\* no turn runs without an owner.
LEMMA RecoverEndsTurns ==
    ASSUME IInv, Recover, NEW s \in Session
    PROVE  session'[s].status # "running"
<1>1. RowTypes' /\ SInv(s)' /\ SInv(s) /\ RowTypes
  BY InvNext DEF IInv, StoreNext
<1>2. ASSUME NEW n \in TurnNumber
      PROVE  turn'[s][n].status # "running"
  <2> DEFINE a == attempt[s][turn[s][n].active]
  <2>1. turn'[s][n] = IF n \in RunningTurns(s) THEN [turn[s][n] EXCEPT !.status = Recovered(s, n)]
                                               ELSE turn[s][n]
    BY DEF Recover
  <2>2. turn[s][n] \in TurnRecord
    BY <1>1 DEF RowTypes
  <2>3. CASE n \in RunningTurns(s)
    <3>1. a \in AttemptRecord
      BY <1>1, <2>3, ActiveAttempt DEF RunningTurns, RowTypes
    <3>2. Abandoned(a, "interrupted").status # "running"
      BY <3>1, AbandonedRow DEF Outcome
    <3>3. turn'[s][n].status = Recovered(s, n)
      BY <2>1, <2>2, <2>3 DEF TurnRecord
    <3> QED
      BY <3>2, <3>3 DEF Recovered
  <2>4. CASE n \notin RunningTurns(s)
    BY <2>1, <2>4 DEF RunningTurns
  <2> QED
    BY <2>3, <2>4
<1>3. CASE session'[s].turns > 0
  <2>1. session'[s].turns \in TurnNumber
    BY <1>1, <1>3, BoundAssumption DEF RowTypes, SessionRecord, TurnNumber
  <2> QED
    BY <1>1, <1>2, <1>3, <2>1 DEF SInv, MatchesTurn
<1>4. CASE ~(session'[s].turns > 0)
  BY <1>1, <1>4 DEF SInv, Linked, Live
<1> QED
  BY <1>3, <1>4

LEMMA RestartKeeps ==
    ASSUME HInv, Restart
    PROVE  HInv'
<1>1. /\ process = "down" /\ process' = "up" /\ run' = run /\ gens' = gens /\ ctl' = ctl
      /\ joining' = joining /\ faults' = faults /\ Recover
  BY DEF Restart, NoFault
<1>2. IInv'
  BY <1>1, InvNext DEF StoreNext, HInv
<1>3. ASSUME NEW p \in Session
      PROVE  Fits(p, run[p])'
  <2>1. PICK r \in RunRecord : r = run[p] /\ Fits(p, r)
    BY Variables
  <2>2. r.phase = "none" /\ r.phase \notin Owning
    BY <1>1, <2>1, DownIsEmpty DEF Owning
  <2>3. session'[p].status # "running"
    BY <1>1, RecoverEndsTurns DEF HInv
  <2>4. Fits(p, r)'
    BY <1>1, <2>1, <2>2, <2>3, UnownedFits
  <2> QED
    BY <1>1, <2>1, <2>4
<1>4. RuntimeTypeOK' /\ IsFiniteSet(ActiveSessions)'
  BY <1>1 DEF HInv, RuntimeTypeOK, ActiveSessions, Active
<1>5. \A c \in Caller : Aimed(c)'
  BY <1>1 DEF HInv, Aimed
<1> QED
  BY <1>2, <1>3, <1>4, <1>5 DEF HInv

-----------------------------------------------------------------------------
(* The invariant, and what follows from it.                                *)

\* The process begins with an empty database and an empty table.
LEMMA RuntimeInvInit == RuntimeInit => HInv
<1> SUFFICES ASSUME RuntimeInit PROVE HInv
  OBVIOUS
<1>1. IInv
  BY InvInit DEF RuntimeInit
<1>2. \A s \in Session : session[s].status # "running"
  BY DEF RuntimeInit, StoreInit
<1>3. gens \in [Session -> 0..MaxRun] /\ faults \in 0..MaxFault
  BY LimitAssumption DEF RuntimeInit
<1>4. Nobody
  BY <1>1, <1>2, <1>3 DEF Nobody, RuntimeInit
<1> QED
  BY <1>4, NobodyFits

\* Nothing that happens leaves the invariant.
LEMMA RuntimeInvNext == HInv /\ [RuntimeNext]_vars => HInv'
<1> SUFFICES ASSUME HInv, [RuntimeNext]_vars PROVE HInv'
  OBVIOUS
<1>1. ASSUME NEW s \in Session, Admission(s) PROVE HInv'
  <2>1. CASE \E q \in Route : Start(s, q)
    <3>1. 0 \in 0..MaxTurn /\ 0 \in Checkpoint
      BY BoundAssumption, RevisionAssumption DEF Checkpoint
    <3> QED
      BY <2>1, <3>1, InsertKeeps DEF Start
  <2>2. CASE \E q \in Route, n \in TurnNumber, w \in Checkpoint : ResumeWait(s, q, n, w)
    <3>1. TurnNumber \subseteq 0..MaxTurn
      BY BoundAssumption DEF TurnNumber
    <3> QED
      BY <2>2, <3>1, InsertKeeps DEF ResumeWait
  <2> QED
    BY <1>1, <2>1, <2>2 DEF Admission
<1>2. ASSUME NEW s \in Session, OwnerStep(s) PROVE HInv'
  BY <1>2, AdmitKeeps, AdmitFailsKeeps, TargetKeeps, RefusedKeeps, LaunchKeeps, TidyKeeps,
     CommitKeeps, CommitFailsKeeps, SealKeeps, DecideKeeps, FallbackKeeps, FallbackFailsKeeps,
     GiveUpKeeps, FinishKeeps, FinishFailsKeeps, LeaveKeeps DEF OwnerStep
<1>3. ASSUME NEW s \in Session, Engine(s) PROVE HInv'
  BY <1>3, ObserveKeeps, ObserveGarbageKeeps, ReturnKeeps DEF Engine
<1>4. ASSUME NEW s \in Session, OwnerCancel(s) PROVE HInv'
  BY <1>4, OwnerCancelKeeps
<1>5. ASSUME NEW s \in Session, Client(s) PROVE HInv'
  BY <1>5, ClientKeeps
<1>6. ASSUME NEW c \in Caller, ControlStep(c) PROVE HInv'
  BY <1>6, ControlKeeps
<1>7. CASE ProcessStep
  BY <1>7, CloseKeeps, CloseReturnsKeeps, CrashKeeps, RestartKeeps DEF ProcessStep
<1>8. CASE UNCHANGED vars
  <2>1. /\ UNCHANGED storeVars /\ run' = run /\ gens' = gens /\ ctl' = ctl
        /\ process' = process /\ joining' = joining /\ faults' = faults
    BY <1>8 DEF vars, hubVars
  <2>2. IInv'
    BY <2>1, InvNext DEF HInv
  <2>3. ASSUME NEW p \in Session PROVE Fits(p, run[p])'
    <3>1. PICK r \in RunRecord : r = run[p] /\ Fits(p, r)
      BY Variables
    <3>2. Same(p) /\ faults' \in Nat
      BY <2>1, LimitAssumption DEF Same, storeVars, HInv, RuntimeTypeOK
    <3>3. faults' >= faults
      BY <2>1, LimitAssumption DEF HInv, RuntimeTypeOK
    <3>4. Fits(p, r)'
      BY <2>1, <3>1, <3>2, <3>3, FitsKept DEF HInv
    <3> QED
      BY <2>1, <3>1, <3>4
  <2>4. RuntimeTypeOK' /\ IsFiniteSet(ActiveSessions)'
    BY <2>1 DEF HInv, RuntimeTypeOK, ActiveSessions, Active
  <2>5. \A c \in Caller : Aimed(c)'
    BY <2>1 DEF HInv, Aimed
  <2> QED
    BY <2>2, <2>3, <2>4, <2>5 DEF HInv
<1> QED
  BY <1>1, <1>2, <1>3, <1>4, <1>5, <1>6, <1>7, <1>8 DEF RuntimeNext

\* The inductive invariant holds in every reachable state of the supervisor.
THEOREM RuntimeInvariant == RuntimeSpec => []HInv
<1> QED
  BY RuntimeInvInit, RuntimeInvNext, PTL DEF RuntimeSpec

\* The runtime's own state keeps its shape, and no more runs are admitted than
\* the budget of active runs allows.
THEOREM RuntimeTypes == RuntimeSpec => []RuntimeTypeOK
<1>1. HInv => RuntimeTypeOK
  BY DEF HInv
<1> QED
  BY <1>1, RuntimeInvariant, PTL

\* A claim stands for exactly the attempt the store lets record, and a running
\* turn has an owner unless the database failed to take its end.
THEOREM RuntimeOneOwner == RuntimeSpec => []OneOwner
<1>1. HInv => OneOwner
  <2> SUFFICES ASSUME HInv, NEW s \in Session
               PROVE  /\ run[s].phase \in Owning =>
                           /\ turn[s][run[s].turn].status = "running"
                           /\ turn[s][run[s].turn].active = run[s].attempt
                           /\ RouteOf(s) = session[s].active
                      /\ session[s].status = "running" =>
                           run[s].phase \in Owning \/ process = "down" \/ faults > 0
    BY DEF OneOwner
  <2>1. Claims(s, run[s]) /\ Owned(s, run[s]) /\ SInv(s)
    BY Variables DEF Fits, HInv, IInv
  <2>2. run[s].phase \in Owning => RouteOf(s) = session[s].active
    BY <2>1 DEF Claims, SInv, OnActive, RouteOf, Live
  <2> QED
    BY <2>1, <2>2 DEF Claims, Owned
<1> QED
  BY <1>1, RuntimeInvariant, PTL

\* What the owner knows of its attempt was stored first, and nothing was stored
\* that it does not know.
THEOREM RuntimeStreamMatchesStore == RuntimeSpec => []StreamMatchesStore
<1>1. HInv => StreamMatchesStore
  <2> SUFFICES ASSUME HInv, NEW s \in Session,
                      run[s].phase \in {"executing", "returned", "closing"}
               PROVE  LET a == attempt[s][run[s].attempt] IN
                      /\ a.status # "running" <=> run[s].contract.terminal
                      /\ run[s].contract.terminal => a.status = run[s].outcome
                      /\ a.error = run[s].contract.fatal
                      /\ a.native = run[s].native
                      /\ run[s].effects => a.effects
    BY DEF StreamMatchesStore
  <2>1. Streams(s, run[s])
    BY Variables DEF Fits
  <2> QED
    BY <2>1 DEF Streams, Mine
<1> QED
  BY <1>1, RuntimeInvariant, PTL

\* FinishTurn takes every outcome an owner decides on: only a database that
\* fails leaves a turn running.
THEOREM RuntimeFinishIsAccepted == RuntimeSpec => []FinishIsAccepted
<1>1. HInv => FinishIsAccepted
  BY FinishIsTaken DEF FinishIsAccepted
<1> QED
  BY <1>1, RuntimeInvariant, PTL

\* The active table and the database agree on owners, attempts and outcomes.
THEOREM RuntimeOwnerAndStoreAgree == RuntimeSpec => []OwnerAndStoreAgree
<1> QED
  BY RuntimeTypes, RuntimeOneOwner, RuntimeStreamMatchesStore, RuntimeFinishIsAccepted, PTL
     DEF OwnerAndStoreAgree

\* A control call is on the run it was meant for until it returns, and once
\* Close has returned there are no runs.
THEOREM RuntimeCallsHitTheirRuns == RuntimeSpec => []CallsHitTheirRuns
<1>1. HInv => CallsHitTheirRuns
  <2> SUFFICES ASSUME HInv PROVE CallsHitTheirRuns
    OBVIOUS
  <2>1. ControlHitsOwnRun
    BY DEF HInv, Aimed, ControlHitsOwnRun
  <2>2. ClosedIsQuiet
    BY Variables DEF Fits, Admits, ClosedIsQuiet, Active
  <2> QED
    BY <2>1, <2>2 DEF CallsHitTheirRuns
<1> QED
  BY <1>1, RuntimeInvariant, PTL

-----------------------------------------------------------------------------
(* Every step is at most one transaction.                                  *)

\* The steps of a session that write.
Writes(s) ==
    \/ Admit(s) \/ Tidy(s) \/ Commit(s) \/ Finish(s) \/ Client(s)
    \/ \E q \in Route : Fallback(s, q)

LEMMA Records ==
    ASSUME HInv, NEW s \in Session, Tidy(s) \/ Commit(s)
    PROVE  /\ run[s].phase \in {"executing", "returned", "closing"}
           /\ \E e \in Event, fx \in BOOLEAN : Record(s, run[s].attempt, e, fx)
           /\ run[s].attempt \in AttemptNumber
<1>1. PICK r \in RunRecord : r = run[s] /\ Fits(s, r)
  BY Variables
<1>2. r.pending # NoEvent /\ r.pending \in Event
  BY <1>1 DEF Tidy, Commit, Fits, Calls
<1>3. r.phase \in {"executing", "returned", "closing"} /\ r.attempt \in AttemptNumber
  BY <1>1, <1>2 DEF Fits, Calls, Claims, Owning, Phase
<1>4. CASE Tidy(s)
  <2>1. PICK t \in r.contract.tools : Record(s, r.attempt, ToolEnd(t), TRUE)
    BY <1>1, <1>4 DEF Tidy
  <2>2. PICK e \in Event : e = ToolEnd(t)
    BY DEF RunRecord, Contract, Event
  <2>3. PICK fx \in BOOLEAN : fx = TRUE
    OBVIOUS
  <2>4. Record(s, r.attempt, e, fx)
    BY <2>1, <2>2, <2>3
  <2> QED
    BY <1>1, <1>3, <2>4
<1>5. CASE Commit(s)
  <2>1. PICK e \in Event : e = r.pending
    BY <1>2
  <2>2. PICK fx \in BOOLEAN : fx = (r.effects \/ Risky(r.target, e))
    OBVIOUS
  <2>3. Record(s, r.attempt, e, r.effects \/ Risky(r.target, e))
    BY <1>1, <1>5, <2>1 DEF Commit
  <2>4. Record(s, r.attempt, e, fx)
    BY <2>2, <2>3
  <2> QED
    BY <1>1, <1>3, <2>4
<1> QED
  BY <1>4, <1>5

\* What a step of one session writes is one transaction of that session.
LEMMA WritesOnce ==
    ASSUME HInv, NEW s \in Session, Writes(s)
    PROVE  (TurnStep(s) \/ IdleStep(s) \/ WaitStep(s)) /\ Elsewhere(s)
<1>1. PICK r \in RunRecord : r = run[s] /\ Fits(s, r)
  BY Variables
<1>2. CASE Admit(s)
  <2>1. r.phase = "admitting" /\ r.expected \in Route /\ (r.wait # 0 => r.turn \in TurnNumber)
        /\ r.wait \in Checkpoint
    BY <1>1, <1>2 DEF Admit, At, Fits, Asked, RunRecord
  <2> QED
    BY <1>1, <1>2, <2>1, TransactionKeeps DEF Admit, TurnStep, WaitStep, HInv
<1>3. CASE Tidy(s) \/ Commit(s)
  BY <1>3, Records, TransactionKeeps DEF TurnStep, HInv
<1>4. CASE Finish(s)
  <2>1. r.turn \in TurnNumber /\ r.outcome \in Outcome
    BY <1>1, <1>4 DEF Finish, At, Fits, Claims, Owning, Phase, RunRecord
  <2> QED
    BY <1>1, <1>4, <2>1, TransactionKeeps DEF Finish, TurnStep, HInv
<1>5. CASE Client(s)
  BY <1>5, TransactionKeeps DEF Client, WaitStep, HInv
<1>6. CASE \E q \in Route : Fallback(s, q)
  <2>1. r.attempt \in AttemptNumber
    BY <1>1, <1>6 DEF Fallback, At, Fits, Claims, Owning, Phase
  <2> QED
    BY <1>1, <1>6, <2>1, TransactionKeeps DEF Fallback, TurnStep, HInv
<1> QED
  BY <1>2, <1>3, <1>4, <1>5, <1>6 DEF Writes

\* A step writes nothing, or one session, or it recovers the store.
LEMMA StepWrites ==
    ASSUME [RuntimeNext]_vars
    PROVE  \/ UNCHANGED storeVars
           \/ \E s \in Session : Writes(s)
           \/ Restart
<1>1. ASSUME NEW s \in Session, Admission(s) PROVE UNCHANGED storeVars
  BY <1>1 DEF Admission, Start, ResumeWait, Insert, Local
<1>2. ASSUME NEW s \in Session, OwnerStep(s) PROVE UNCHANGED storeVars \/ Writes(s)
  BY <1>2 DEF OwnerStep, AdmitFails, Target, Refuse, NotAdmitted, Launch, CommitFails, Seal, Decide,
     FallbackFails, GiveUp, FinishFails, Leave, Local, Fault, Writes
<1>3. ASSUME NEW s \in Session, Engine(s) \/ OwnerCancel(s) PROVE UNCHANGED storeVars
  BY <1>3 DEF Engine, Observe, ObserveGarbage, Return, OwnerCancel, Local
<1>4. ASSUME NEW c \in Caller, ControlStep(c) PROVE UNCHANGED storeVars
  BY <1>4 DEF ControlStep, CtlFind, CtlAim, CtlReturn, Control, Local
<1>5. CASE ProcessStep
  BY <1>5 DEF ProcessStep, Close, CloseReturns, Crash, Local
<1>6. CASE UNCHANGED vars
  BY <1>6 DEF vars
<1> QED
  BY <1>1, <1>2, <1>3, <1>4, <1>5, <1>6 DEF RuntimeNext, Writes

\* The supervisor uses the database by its transactions only: what is proved of
\* StoreSpec holds of every database the supervisor leaves behind.
THEOREM RuntimeImplementsStore == RuntimeSpec => StoreSpec
<1>1. RuntimeInit => StoreInit
  BY DEF RuntimeInit
<1>2. HInv /\ [RuntimeNext]_vars => [StoreNext]_storeVars
  <2> SUFFICES ASSUME HInv, [RuntimeNext]_vars PROVE [StoreNext]_storeVars
    OBVIOUS
  <2>1. CASE UNCHANGED storeVars
    BY <2>1
  <2>2. CASE \E s \in Session : Writes(s)
    BY <2>2, WritesOnce DEF StoreNext
  <2>3. CASE Restart
    BY <2>3 DEF Restart, StoreNext
  <2> QED
    BY <2>1, <2>2, <2>3, StepWrites
<1> QED
  BY <1>1, <1>2, RuntimeInvariant, PTL DEF RuntimeSpec, StoreSpec

-----------------------------------------------------------------------------
(* The verdict on an attempt.                                              *)

\* Only the end of the run ends its turn, and then as its owner decided; every
\* other transaction leaves a running turn running, and the attempt of an owner
\* that has judged it alone.
LEMMA TurnsEnd ==
    ASSUME HInv, NEW s \in Session, Writes(s), NEW n \in TurnNumber,
           turn[s][n].status = "running"
    PROVE  \/ Finish(s) /\ n = run[s].turn
           \/ turn'[s][n].status = "running"
<1>1. /\ IInv /\ SInv(s) /\ turn \in [Session -> [TurnNumber -> TurnRecord]]
  BY DEF HInv, IInv, RowTypes
<1>2. session[s].status = "running" /\ n = session[s].turns
  BY <1>1 DEF SInv, MatchesTurn, Live, TurnNumber
<1>3. CASE Admit(s)
  BY <1>2, <1>3 DEF Admit, BeginTurn, BeginTurnAccepts, Idle, BlocksInput, BeginWaitResume,
     WaitResumeAccepts
<1>4. CASE Tidy(s) \/ Commit(s)
  BY <1>4, Records DEF Record
<1>5. CASE Finish(s)
  <2>1. PICK r \in RunRecord : r = run[s] /\ Fits(s, r)
    BY Variables
  <2>2. r.turn \in TurnNumber /\ turn[s][r.turn].status = "running"
    BY <1>5, <2>1 DEF Finish, At, Fits, Claims, Owning, Phase
  <2>3. r.turn = n
    BY <1>1, <1>2, <2>2 DEF SInv, MatchesTurn, Live
  <2> QED
    BY <1>5, <2>1, <2>3
<1>6. CASE Client(s)
  BY <1>2, <1>6, ClientFindsIdle
<1>7. CASE \E q \in Route : Fallback(s, q)
  <2>1. PICK q \in Route : Fallback(s, q)
    BY <1>7
  <2> DEFINE m == attempt[s][run[s].attempt].turn
  <2>2. m \in TurnNumber /\ \E h \in Handoffs(s, q) : OpenAttempt(s, m, q, h, h # Unseen(s, q))
    BY <2>1 DEF Fallback, BeginFallback, FallbackAccepts, RunningTurns
  <2>3. turn' = [turn EXCEPT ![s][m] = [status |-> "running", active |-> session[s].attempts + 1]]
    BY <2>2 DEF OpenAttempt
  <2> QED
    BY <1>1, <2>2, <2>3
<1> QED
  BY <1>3, <1>4, <1>5, <1>6, <1>7 DEF Writes

\* A turn ends in success when its owner finishes it with that outcome, which
\* it only has from its engine.
LEMMA CleanReturns == HInv /\ [RuntimeNext]_vars => NeedsCleanReturn
<1> SUFFICES ASSUME HInv, [RuntimeNext]_vars, NEW s \in Session, NEW n \in TurnNumber,
                    process # "down",
                    turn[s][n].status = "running", turn'[s][n].status = "completed"
             PROVE  /\ run[s].turn = n /\ run[s].contract.terminal
                    /\ run[s].err = "none" /\ ~run[s].rejected
  BY DEF NeedsCleanReturn
<1>1. ~UNCHANGED storeVars /\ ~Restart
  BY DEF storeVars, Restart
<1>2. PICK p \in Session : Writes(p)
  BY <1>1, StepWrites
<1>3. p = s
  <2>1. Elsewhere(p)
    BY <1>2, WritesOnce
  <2> QED
    BY <2>1 DEF Elsewhere, Same
<1>4. Finish(s) /\ n = run[s].turn
  BY <1>2, <1>3, TurnsEnd
<1>5. PICK r \in RunRecord : r = run[s] /\ Fits(s, r)
  BY Variables
<1>6. r.phase = "finishing" /\ FinishTurn(s, n, r.outcome)
  BY <1>4, <1>5 DEF Finish, At
<1>7. turn' = [turn EXCEPT ![s][n].status = r.outcome]
      /\ turn \in [Session -> [TurnNumber -> TurnRecord]]
  BY <1>6 DEF FinishTurn, HInv, IInv, RowTypes
<1>8. r.outcome = "completed"
  BY <1>7 DEF TurnRecord
<1> QED
  BY <1>4, <1>5, <1>6, <1>8 DEF Fits, Judged

\* Behind an owner's judgement nothing is recorded any more: its own next
\* transaction opens another attempt or ends the turn.
LEMMA SealedStays == HInv /\ [RuntimeNext]_vars => IsSealed
<1> SUFFICES ASSUME HInv, [RuntimeNext]_vars, NEW s \in Session,
                    run[s].phase \in {"deciding", "routing", "finishing"},
                    process' # "up" \/ process # "down"
             PROVE  attempt'[s][run[s].attempt] =
                      IF turn'[s][run[s].turn].status = "running"
                        THEN attempt[s][run[s].attempt]
                        ELSE Abandoned(attempt[s][run[s].attempt], run[s].outcome)
  BY DEF IsSealed
<1>1. PICK r \in RunRecord : r = run[s] /\ Fits(s, r)
  BY Variables
<1>2. /\ r.turn \in TurnNumber /\ r.attempt \in AttemptNumber
      /\ turn[s][r.turn].status = "running" /\ turn[s][r.turn].active = r.attempt
  BY <1>1 DEF Fits, Claims, Owning, Phase
<1>3. RowTypes /\ SInv(s)
  BY DEF HInv, IInv
<1>4. CASE turn'[s] = turn[s] /\ attempt'[s] = attempt[s]
  BY <1>1, <1>2, <1>4
<1>5. CASE \E p \in Session : p # s /\ Writes(p)
  BY <1>4, <1>5, WritesOnce DEF Elsewhere, Same
<1>6. CASE Finish(s)
  <2>1. FinishTurn(s, r.turn, r.outcome) /\ r.outcome \in Outcome
    BY <1>1, <1>6 DEF Finish, RunRecord
  <2>2. /\ turn' = [turn EXCEPT ![s][r.turn].status = r.outcome]
        /\ attempt' = [attempt EXCEPT ![s][r.attempt] = Abandoned(attempt[s][r.attempt], r.outcome)]
        /\ turn \in [Session -> [TurnNumber -> TurnRecord]]
        /\ attempt \in [Session -> [AttemptNumber -> AttemptRecord]]
    BY <1>2, <1>3, <2>1 DEF FinishTurn, RowTypes
  <2>3. turn'[s][r.turn].status = r.outcome
    BY <1>2, <2>2 DEF TurnRecord
  <2>4. attempt'[s][r.attempt] = Abandoned(attempt[s][r.attempt], r.outcome)
    BY <1>2, <2>2
  <2> QED
    BY <1>1, <2>1, <2>3, <2>4 DEF Outcome
<1>7. CASE \E q \in Route : Fallback(s, q)
  <2>1. PICK q \in Route : Fallback(s, q)
    BY <1>7
  <2> DEFINE m == attempt[s][r.attempt].turn
  <2> DEFINE k == session[s].attempts + 1
  <2>2. m \in TurnNumber /\ \E h \in Handoffs(s, q) : OpenAttempt(s, m, q, h, h # Unseen(s, q))
    BY <1>1, <2>1 DEF Fallback, BeginFallback, FallbackAccepts, RunningTurns
  <2>3. PICK a : /\ turn' = [turn EXCEPT ![s][m] = [status |-> "running", active |-> k]]
                 /\ attempt' = [attempt EXCEPT ![s][k] = a]
                 /\ turn \in [Session -> [TurnNumber -> TurnRecord]]
                 /\ attempt \in [Session -> [AttemptNumber -> AttemptRecord]]
    BY <1>3, <2>2 DEF OpenAttempt, RowTypes
  <2>4. r.attempt <= session[s].attempts /\ session[s].attempts \in Nat /\ r.attempt \in Nat
    BY <1>2, <1>3, BoundAssumption, ActiveAttempt DEF RowTypes, SessionRecord, AttemptNumber
  <2>5. attempt'[s][r.attempt] = attempt[s][r.attempt]
    BY <2>3, <2>4
  <2>6. turn'[s][r.turn].status = "running"
    BY <1>2, <2>3
  <2> QED
    BY <1>1, <2>5, <2>6
<1>8. ~Admit(s) /\ ~Tidy(s) /\ ~Commit(s) /\ ~Client(s)
  <2>1. session[s].status = "running"
    BY <1>2, <1>3 DEF SInv, MatchesTurn, Live, TurnNumber
  <2> QED
    BY <2>1, Records, ClientFindsIdle DEF Admit, At
<1>9. CASE UNCHANGED storeVars
  BY <1>4, <1>9 DEF storeVars
<1>10. CASE Restart
  BY <1>10, DownIsEmpty DEF Restart
<1> QED
  BY <1>5, <1>6, <1>7, <1>8, <1>9, <1>10, StepWrites DEF Writes

\* A turn succeeds only if its engine reported so and returned cleanly, and
\* nothing the engine calls back later changes what was judged.
THEOREM RuntimeReportsAreJudgedOnce == RuntimeSpec => ReportsAreJudgedOnce
<1>1. HInv /\ [RuntimeNext]_vars => [NeedsCleanReturn /\ IsSealed]_vars
  BY CleanReturns, SealedStays
<1> QED
  BY <1>1, RuntimeInvariant, PTL DEF RuntimeSpec, ReportsAreJudgedOnce
=============================================================================
