------------------------------ MODULE HubStore ------------------------------
(***************************************************************************)
(* The product database of Alva Hub (apps/hub/sqlite/store.go, wait.go):   *)
(* which Turn a session runs, on which native engine branch, with which    *)
(* execution attempts, and what each of them is known to have done.        *)
(*                                                                         *)
(* Every action is one SQLite transaction.  A call the code refuses leaves *)
(* the database as it was, so a refusal is a disabled action.  The caller  *)
(* is anybody who holds a hub.Store: the actions come in any order.        *)
(*                                                                         *)
(* A branch is identified by its route (UNIQUE(session,route)), turns by   *)
(* their sequence number and attempts by their order of creation.  Titles, *)
(* prompts, timestamps and the event log itself are left out.  The turns   *)
(* here are neither worker tasks nor automations: for them the             *)
(* settleWorkerTask and settleAutomation of the code do nothing.           *)
(***************************************************************************)
EXTENDS EngineStream, FiniteSets

CONSTANTS
    Session,       \* identities CreateSession may draw
    Route,         \* RouteKeys of the targets: engine, account, model ...
    NoRoute,       \* the route of nothing
    MaxBranch,     \* branches per session (64 in the code)
    HandoffLimit,  \* turns indexed by one handoff (32 in the code)
    MaxTurn,       \* bound on the turns of a session
    MaxAttempt     \* bound on the attempts of a session

ASSUME RouteAssumption == NoRoute \notin Route
ASSUME BoundAssumption ==
    /\ MaxBranch \in Nat \ {0}
    /\ HandoffLimit \in Nat
    /\ MaxTurn \in Nat
    /\ MaxAttempt \in Nat

VARIABLES
    session,    \* hub_sessions: status, active branch, and how many turns
                \* and attempts exist
    branch,     \* hub_branches
    turn,       \* hub_turns
    attempt,    \* hub_attempts, each with the handoff stored for it
    fallback,   \* hub_fallback: the routes approved for automatic use
    waits       \* hub_settings.durable_waits

storeVars == <<session, branch, turn, attempt, fallback, waits>>

-----------------------------------------------------------------------------

TurnNumber    == 1..MaxTurn
AttemptNumber == 1..MaxAttempt
Status        == Outcome \cup {"absent", "running"}

SessionRecord ==
    [ status : Status, active : Route \cup {NoRoute},
      turns : 0..MaxTurn, attempts : 0..MaxAttempt ]
BranchRecord ==
    [ exists : BOOLEAN, native : NativeOrNone, watermark : 0..MaxTurn,
      parked : BOOLEAN ]
TurnRecord == [ status : Status, active : 0..MaxAttempt ]
AttemptRecord ==
    [ turn : 0..MaxTurn, branch : Route \cup {NoRoute}, native : NativeOrNone,
      status : Status, effects : BOOLEAN, failure : FailureKind,
      error : BOOLEAN, wait : Checkpoint,
      handoff : SUBSET TurnNumber, truncated : BOOLEAN ]

NoBranch  == [exists |-> FALSE, native |-> NoNative, watermark |-> 0, parked |-> FALSE]
NoTurn    == [status |-> "absent", active |-> 0]
NoAttempt == [turn |-> 0, branch |-> NoRoute, native |-> NoNative,
              status |-> "absent", effects |-> FALSE, failure |-> "none",
              error |-> FALSE, wait |-> 0, handoff |-> {}, truncated |-> FALSE]

StoreInit ==
    /\ session  = [s \in Session |-> [status |-> "absent", active |-> NoRoute,
                                      turns |-> 0, attempts |-> 0]]
    /\ branch   = [s \in Session |-> [r \in Route |-> NoBranch]]
    /\ turn     = [s \in Session |-> [n \in TurnNumber |-> NoTurn]]
    /\ attempt  = [s \in Session |-> [k \in AttemptNumber |-> NoAttempt]]
    /\ fallback = [s \in Session |-> {}]
    /\ waits    = [s \in Session |-> FALSE]

-----------------------------------------------------------------------------
(* What the transactions share.                                            *)

Exists(s)      == session[s].status # "absent"
BlocksInput(s) == session[s].status \in {"running", "waiting"}

Idle(s) == Exists(s) /\ ~BlocksInput(s)

RunningTurns(s) == {n \in TurnNumber : turn[s][n].status = "running"}

Branches(s) == {r \in Route : branch[s][r].exists}

\* A faulty variant with an off-by-one in the budget.
MaySelect_OneTooMany(s, r) ==
    r \in Branches(s) \/ Cardinality(Branches(s)) <= MaxBranch

\* selectBranch: a known route keeps its branch, a new one needs room.
MaySelect(s, r) ==
    r \in Branches(s) \/ Cardinality(Branches(s)) < MaxBranch

\* activate: the branches of s once r is its active one.
Activated(s, r) ==
    [q \in Route |->
       CASE q = r                 -> [branch[s][q] EXCEPT !.exists = TRUE, !.parked = FALSE]
         [] q # r /\ q = session[s].active -> [branch[s][q] EXCEPT !.parked = TRUE]
         [] OTHER                 -> branch[s][q]]

\* A faulty variant that leaves out the turns that did not succeed.
Unseen_OnlyCompleted(s, r) ==
    {n \in TurnNumber : n > branch[s][r].watermark /\ turn[s][n].status = "completed"}

\* The turns a handoff to branch r has to tell of.
Unseen(s, r) ==
    {n \in TurnNumber : /\ n <= session[s].turns
                        /\ n > branch[s][r].watermark
                        /\ turn[s][n].status # "running"}

\* The index handoff() may build: the most recent unseen turns, as many as
\* fit its two budgets (a count, and the bytes of the encoding, which is why
\* it may also be shorter).
Handoffs(s, r) ==
    {h \in SUBSET Unseen(s, r) :
        /\ Cardinality(h) <= HandoffLimit
        /\ \A n \in h, m \in Unseen(s, r) : m >= n => m \in h}

\* beginAttempt, as attempt number k of session s.
NewAttempt(s, n, r, h, cut) ==
    [NoAttempt EXCEPT !.turn = n, !.branch = r, !.native = branch[s][r].native,
                      !.status = "running", !.handoff = h, !.truncated = cut]

OpenAttempt(s, n, r, h, cut) ==
    LET k == session[s].attempts + 1 IN
    /\ k \in AttemptNumber
    /\ attempt' = [attempt EXCEPT ![s][k] = NewAttempt(s, n, r, h, cut)]
    /\ turn'    = [turn EXCEPT ![s][n] = [status |-> "running", active |-> k]]

-----------------------------------------------------------------------------
(* Operations of an idle session.                                          *)

CreateSession(s, r) ==
    /\ ~Exists(s)
    /\ session' = [session EXCEPT ![s].status = "completed", ![s].active = r]
    /\ branch'  = [branch EXCEPT ![s][r].exists = TRUE]
    /\ UNCHANGED <<turn, attempt, fallback, waits>>

Switch(s, r) ==
    /\ Idle(s)
    /\ MaySelect(s, r)
    /\ branch'  = [branch EXCEPT ![s] = Activated(s, r)]
    /\ session' = [session EXCEPT ![s].active = r]
    /\ UNCHANGED <<turn, attempt, fallback, waits>>

\* Only the targets approved for automatic use matter to BeginFallback.
SetFallback(s, F) ==
    /\ Idle(s)
    /\ Cardinality(F) <= 7
    /\ fallback' = [fallback EXCEPT ![s] = F]
    /\ UNCHANGED <<session, branch, turn, attempt, waits>>

SetDurableWaits(s, enabled) ==
    /\ Idle(s)
    /\ waits' = [waits EXCEPT ![s] = enabled]
    /\ UNCHANGED <<session, branch, turn, attempt, fallback>>

\* An upload creates the native session before the first turn.
BindNative(s, r, nat) ==
    /\ Idle(s) /\ session[s].active = r
    /\ branch[s][r].native \in {NoNative, nat}
    /\ branch' = [branch EXCEPT ![s][r].native = nat]
    /\ UNCHANGED <<session, turn, attempt, fallback, waits>>

-----------------------------------------------------------------------------
(* Turns and attempts.                                                     *)

\* BeginTurnOnBranch with the branch the caller composed its prompt for.
BeginTurnAccepts(s, expected) == Idle(s) /\ session[s].active = expected

BeginTurn(s, expected) ==
    LET n == session[s].turns + 1
        r == expected IN
    /\ BeginTurnAccepts(s, expected)
    /\ n \in TurnNumber
    /\ \E h \in Handoffs(s, r) : OpenAttempt(s, n, r, h, h # Unseen(s, r))
    /\ session' = [session EXCEPT ![s].status = "running", ![s].turns = n,
                                  ![s].attempts = @ + 1]
    /\ UNCHANGED <<branch, fallback, waits>>

\* A faulty variant that forgets the side effects.
SafeToReplace_IgnoresEffects(a) == a.status = "failed" /\ a.failure \in Retryable

SafeToReplace(a) ==
    a.status = "failed" /\ ~a.effects /\ a.failure \in Retryable

\* A faulty variant that never asks for the user's approval.
FallbackAccepts_Unapproved(s, k, r) ==
    /\ SafeToReplace(attempt[s][k])
    /\ attempt[s][k].turn \in RunningTurns(s) /\ turn[s][attempt[s][k].turn].active = k
    /\ MaySelect(s, r)

FallbackAccepts(s, k, r) ==
    /\ SafeToReplace(attempt[s][k])
    /\ attempt[s][k].turn \in RunningTurns(s) /\ turn[s][attempt[s][k].turn].active = k
    /\ r \in fallback[s]
    /\ MaySelect(s, r)

BeginFallback(s, k, r) ==
    LET n == attempt[s][k].turn IN
    /\ FallbackAccepts(s, k, r)
    /\ branch' = [branch EXCEPT ![s] = Activated(s, r)]
    /\ \E h \in Handoffs(s, r) : OpenAttempt(s, n, r, h, h # Unseen(s, r))
    /\ session' = [session EXCEPT ![s].active = r, ![s].attempts = @ + 1]
    /\ UNCHANGED <<fallback, waits>>

\* The native identity attempt k has once event e is recorded.
NativeAfter(s, k, e) == IF NamesNative(e) THEN e.native ELSE attempt[s][k].native

\* A faulty variant that lets an engine change sessions under its branch.
RecordAccepts_AnyIdentity(s, k, e) ==
    LET a == attempt[s][k] IN
    /\ IsWaiting(e) <=> e.wait # 0
    /\ a.status = "running"
    /\ turn[s][a.turn].status = "running" /\ turn[s][a.turn].active = k
    /\ IsWaiting(e) => NativeAfter(s, k, e) # NoNative /\ ~a.error

\* A faulty variant that suspends a turn after a fatal error.
RecordAccepts_WaitsAfterError(s, k, e) ==
    LET a == attempt[s][k] IN
    /\ IsWaiting(e) <=> e.wait # 0
    /\ a.status = "running"
    /\ turn[s][a.turn].status = "running" /\ turn[s][a.turn].active = k
    /\ NamesNative(e) =>
         /\ a.native \in {NoNative, e.native}
         /\ branch[s][a.branch].native \in {NoNative, e.native}
    /\ IsWaiting(e) => NativeAfter(s, k, e) # NoNative

RecordAccepts(s, k, e) ==
    LET a == attempt[s][k] IN
    /\ IsWaiting(e) <=> e.wait # 0
    /\ a.status = "running"
    /\ turn[s][a.turn].status = "running" /\ turn[s][a.turn].active = k
    /\ NamesNative(e) =>
         /\ a.native \in {NoNative, e.native}
         /\ branch[s][a.branch].native \in {NoNative, e.native}
    /\ e.ref # NoNative => e.ref = NativeAfter(s, k, e)
    /\ IsWaiting(e) => NativeAfter(s, k, e) # NoNative /\ ~a.error

Record(s, k, e, fx) ==
    LET a == attempt[s][k]
        b == branch[s][a.branch]
        ends == e.kind = "completed" IN
    /\ RecordAccepts(s, k, e)
    /\ attempt' = [attempt EXCEPT ![s][k] =
         [a EXCEPT !.native  = NativeAfter(s, k, e),
                   !.effects = a.effects \/ fx,
                   !.failure = IF IsFatal(e) THEN e.failure ELSE a.failure,
                   !.error   = a.error \/ IsFatal(e),
                   !.status  = IF ends THEN e.outcome ELSE a.status,
                   !.wait    = IF ends THEN e.wait ELSE a.wait]]
    /\ branch' = [branch EXCEPT ![s][a.branch] =
         [b EXCEPT !.native    = IF NamesNative(e) THEN e.native ELSE b.native,
                   !.watermark = IF ends /\ e.outcome = "completed" THEN a.turn
                                                                    ELSE b.watermark]]
    /\ UNCHANGED <<session, turn, fallback, waits>>

\* Faulty variants: one overwrites an outcome that was already committed, one
\* forgets the attempt of the turn it ends.
Abandoned_Overwrites(a, o) == [a EXCEPT !.status = o, !.error = TRUE]
Abandoned_Forgets(a, o)    == a

\* What an attempt is once its owner is gone without a terminal event.
Abandoned(a, o) == IF a.status = "running" THEN [a EXCEPT !.status = o, !.error = TRUE]
                                           ELSE a

\* A faulty variant that believes the caller about success.
FinishAccepts_TrustsCaller(s, n, o) ==
    LET a == attempt[s][turn[s][n].active] IN
    /\ turn[s][n].status = "running"
    /\ o = "waiting" => a.status = "waiting" /\ ValidCheckpoint(a.wait)

FinishAccepts(s, n, o) ==
    LET a == attempt[s][turn[s][n].active] IN
    /\ turn[s][n].status = "running"
    /\ o = "waiting"   => a.status = "waiting" /\ ValidCheckpoint(a.wait)
    /\ o = "completed" => a.status = "completed"

FinishTurn(s, n, o) ==
    LET k == turn[s][n].active IN
    /\ FinishAccepts(s, n, o)
    /\ attempt' = [attempt EXCEPT ![s][k] = Abandoned(attempt[s][k], o)]
    /\ turn'    = [turn EXCEPT ![s][n].status = o]
    /\ session' = [session EXCEPT ![s].status = o]
    /\ UNCHANGED <<branch, fallback, waits>>

-----------------------------------------------------------------------------
(* Durable waits.                                                          *)

\* A waiting attempt that can still be continued on its branch.
HasReceipt(a) == ValidCheckpoint(a.wait) /\ a.native # NoNative

WaitResumeAccepts(s, r, n, revision) ==
    LET a == attempt[s][turn[s][n].active] IN
    /\ session[s].status = "waiting" /\ session[s].active = r
    /\ n = session[s].turns /\ turn[s][n].status = "waiting"
    /\ a.status = "waiting" /\ HasReceipt(a) /\ revision >= a.wait
    /\ a.branch = r /\ a.native = branch[s][r].native
    /\ waits[s]

BeginWaitResume(s, r, n, revision) ==
    /\ WaitResumeAccepts(s, r, n, revision)
    /\ OpenAttempt(s, n, r, {}, FALSE)
    /\ session' = [session EXCEPT ![s].status = "running", ![s].attempts = @ + 1]
    /\ UNCHANGED <<branch, fallback, waits>>

\* branchTurn: n is the latest turn that ran on branch r.
IsBranchTurn(s, r, n) ==
    /\ \E k \in AttemptNumber : attempt[s][k].turn = n /\ attempt[s][k].branch = r
    /\ \A k \in AttemptNumber : attempt[s][k].branch = r => attempt[s][k].turn <= n

\* The branch of the code for a turn that is not waiting only logs.
AbandonWaitingTurn(s, r, n) ==
    /\ session[s].active = r /\ session[s].status # "running"
    /\ IsBranchTurn(s, r, n)
    /\ turn[s][n].status = "waiting"
    /\ turn'    = [turn EXCEPT ![s][n].status = "interrupted"]
    /\ session' = [session EXCEPT ![s].status = "interrupted"]
    /\ UNCHANGED <<branch, attempt, fallback, waits>>

-----------------------------------------------------------------------------
(* Open after the previous process is gone.  The whole of Recover is one   *)
(* transaction: one running turn that it refuses keeps the store shut.     *)

RecoverAccepts ==
    \A s \in Session : \A n \in RunningTurns(s) :
       LET a == attempt[s][turn[s][n].active] IN
       a.status = "waiting" => HasReceipt(a) /\ ~a.error

\* The status Recover gives to running turn n: that of its active attempt.
Recovered(s, n) == Abandoned(attempt[s][turn[s][n].active], "interrupted").status

Recover ==
    /\ RecoverAccepts
    /\ attempt' = [s \in Session |-> [k \in AttemptNumber |->
         IF \E n \in RunningTurns(s) : turn[s][n].active = k
           THEN Abandoned(attempt[s][k], "interrupted") ELSE attempt[s][k]]]
    /\ turn' = [s \in Session |-> [n \in TurnNumber |->
         IF n \in RunningTurns(s) THEN [turn[s][n] EXCEPT !.status = Recovered(s, n)]
                                  ELSE turn[s][n]]]
    /\ session' = [s \in Session |->
         IF RunningTurns(s) = {} THEN session[s]
         ELSE [session[s] EXCEPT !.status =
                 Recovered(s, CHOOSE n \in RunningTurns(s) : TRUE)]]
    /\ UNCHANGED <<branch, fallback, waits>>

-----------------------------------------------------------------------------

TurnStep(s) ==
    \/ \E r \in Route : BeginTurn(s, r)
    \/ \E k \in AttemptNumber, r \in Route : BeginFallback(s, k, r)
    \/ \E k \in AttemptNumber, e \in Event, fx \in BOOLEAN : Record(s, k, e, fx)
    \/ \E n \in TurnNumber, o \in Outcome : FinishTurn(s, n, o)

IdleStep(s) ==
    \/ \E r \in Route : CreateSession(s, r)
    \/ \E r \in Route : Switch(s, r)
    \/ \E F \in SUBSET Route : SetFallback(s, F)
    \/ \E enabled \in BOOLEAN : SetDurableWaits(s, enabled)
    \/ \E r \in Route, nat \in Native : BindNative(s, r, nat)

WaitStep(s) ==
    \/ \E r \in Route, n \in TurnNumber, w \in Checkpoint :
         BeginWaitResume(s, r, n, w)
    \/ \E r \in Route, n \in TurnNumber : AbandonWaitingTurn(s, r, n)

StoreNext ==
    \/ \E s \in Session : TurnStep(s) \/ IdleStep(s) \/ WaitStep(s)
    \/ Recover

StoreSpec == StoreInit /\ [][StoreNext]_storeVars

-----------------------------------------------------------------------------
(* What the database promises.                                             *)

\* The shape of the rows: their types, their numbering without gaps, and the
\* branch budget that selectBranch enforces.
Numbered(s) ==
    /\ \A n \in TurnNumber : turn[s][n].status = "absent" <=> n > session[s].turns
    /\ \A k \in AttemptNumber :
         attempt[s][k].status = "absent" <=> k > session[s].attempts

RowTypes ==
    /\ session  \in [Session -> SessionRecord]
    /\ branch   \in [Session -> [Route -> BranchRecord]]
    /\ turn     \in [Session -> [TurnNumber -> TurnRecord]]
    /\ attempt  \in [Session -> [AttemptNumber -> AttemptRecord]]
    /\ fallback \in [Session -> SUBSET Route]
    /\ waits    \in [Session -> BOOLEAN]

TypeOK ==
    /\ RowTypes
    /\ \A s \in Session : Numbered(s) /\ Cardinality(Branches(s)) <= MaxBranch

Live == {"running", "waiting"}

\* The session row, which admission and switching look at, never disagrees
\* with the turn it stands for, and no older turn is left live behind it
\* (FinishTurn, Recover and AbandonWaitingTurn update two rows each).
MatchesTurn(s) ==
    /\ session[s].turns > 0 => session[s].status = turn[s][session[s].turns].status
    /\ \A n \in TurnNumber : turn[s][n].status \in Live => n = session[s].turns

SessionMatchesTurn == \A s \in Session : MatchesTurn(s)

\* At most one engine may be executing for a session, and it is the one the
\* running turn and the active branch name: an attempt is never left running
\* behind a fallback, a resume, a finish or a recovery.
OwnsSession(s, k) ==
    LET n == attempt[s][k].turn IN
    /\ n = session[s].turns
    /\ turn[s][n].status = "running" /\ turn[s][n].active = k
    /\ attempt[s][k].branch = session[s].active

OneExecution ==
    \A s \in Session, k \in AttemptNumber :
      attempt[s][k].status = "running" => OwnsSession(s, k)

\* An input is executed again only when the previous attempt either failed
\* before any possible side effect, for a retryable reason, or stopped at a
\* durable checkpoint (BeginFallback, BeginWaitResume).
Harmless(a) == a.status = "failed" /\ ~a.effects /\ a.failure \in Retryable

NoUnsafeReplay ==
    \A s \in Session, j \in AttemptNumber, k \in AttemptNumber :
      j < k /\ attempt[s][k].turn # 0 /\ attempt[s][j].turn = attempt[s][k].turn
        => attempt[s][j].status = "waiting" \/ Harmless(attempt[s][j])

\* While a turn runs, every attempt after its first is on an account the user
\* approved for automatic use, or continues a checkpoint on its own branch.
ConsentedRoute ==
    \A s \in Session, k \in AttemptNumber :
      LET a == attempt[s][k] IN
      /\ a.status = "running"
      /\ \E j \in 1..(k - 1) : attempt[s][j].turn = a.turn
      => \/ a.branch \in fallback[s]
         \/ \E j \in 1..(k - 1) : /\ attempt[s][j].turn = a.turn
                                  /\ attempt[s][j].branch = a.branch
                                  /\ attempt[s][j].status = "waiting"

\* A turn is reported successful only when its last attempt was: neither
\* FinishTurn nor Recover turns a lost observation into a success.
SuccessIsReal ==
    \A s \in Session, n \in TurnNumber :
      turn[s][n].status = "completed" =>
        attempt[s][turn[s][n].active].status = "completed"

\* An attempt that knows its native session runs in that of its branch, so a
\* resume, a history lookup and an upload all reach the same one.
NativeAgrees ==
    \A s \in Session, k \in AttemptNumber :
      LET a == attempt[s][k] IN
      a.native # NoNative => a.native = branch[s][a.branch].native

\* A waiting turn never gets stuck: both of its exits, continuing from the
\* checkpoint and abandoning it, find what they insist on.
WaitingIsEscapable ==
    \A s \in Session :
      session[s].status = "waiting" =>
        LET n == session[s].turns
            r == session[s].active
            a == attempt[s][turn[s][n].active] IN
        /\ IsBranchTurn(s, r, n) /\ turn[s][n].status = "waiting"
        /\ a.status = "waiting" /\ HasReceipt(a) /\ a.branch = r
        /\ a.native = branch[s][r].native

\* Whatever was committed before a crash, the store opens again.
AlwaysRecoverable == RecoverAccepts

\* Turns at or below a branch's watermark are not handed to it again, so its
\* native session must know of each: it ran the turn, or an attempt that got
\* through was handed the turn, or was told that older turns were left out.
WatermarkCovered ==
    \A s \in Session, r \in Route, n \in TurnNumber :
      n <= branch[s][r].watermark =>
        \E k \in AttemptNumber :
          LET a == attempt[s][k] IN
          /\ a.branch = r /\ a.status \in {"completed", "waiting"}
          /\ a.turn = n \/ n \in a.handoff \/ (a.truncated /\ a.turn > n)

\* Nothing rewrites what is known: a finished attempt keeps every field, and
\* a finished turn its outcome, whatever is called afterwards.  Only a waiting
\* turn moves on, to running again or to interrupted.
HistoryIsFinal ==
    [][\A s \in Session :
         /\ \A k \in AttemptNumber :
              attempt[s][k].status \in Outcome => attempt'[s][k] = attempt[s][k]
         /\ \A n \in TurnNumber :
              CASE turn[s][n].status \in Outcome \ Live -> turn'[s][n] = turn[s][n]
                [] turn[s][n].status = "waiting" ->
                     turn'[s][n].status \in {"waiting", "running", "interrupted"}
                [] OTHER -> TRUE]_storeVars

\* A branch is bound to one native session for good.
BindingIsFinal ==
    [][\A s \in Session, r \in Route :
         branch[s][r].native # NoNative =>
           branch'[s][r].native = branch[s][r].native]_storeVars

\* While a turn is running or waiting its route changes only away from an
\* attempt that failed harmlessly, to a route approved before the turn began.
RouteFrozenDuringTurn ==
    [][\A s \in Session :
         BlocksInput(s) =>
           /\ fallback'[s] = fallback[s] /\ waits'[s] = waits[s]
           /\ session'[s].active # session[s].active =>
                /\ session'[s].active \in fallback[s]
                /\ Harmless(attempt[s][session[s].attempts])]_storeVars

-----------------------------------------------------------------------------
(* What the store promises, in one place.                                  *)

\* Rows that different transactions write agree: a session with its latest
\* turn, a running attempt with its turn and the active branch, and an attempt
\* with the native session of its branch.
RowsAgree == SessionMatchesTurn /\ OneExecution /\ NativeAgrees

\* No history of calls and crashes ends in a state the store cannot leave.
NoDeadEnd == AlwaysRecoverable /\ WaitingIsEscapable

\* Native identities and outcomes are kept, whatever is called later.
NothingIsRewritten == BindingIsFinal /\ HistoryIsFinal

\* An engine is only entered by the choice of the user, before the turn or by
\* an approval given before it: no call of the store lets a turn go on with an
\* engine that was not approved, nor moves the route of a turn under way.
ConsentKept == [][ConsentedRoute']_storeVars
RoutesAreChosen == ConsentKept /\ RouteFrozenDuringTurn
=============================================================================
