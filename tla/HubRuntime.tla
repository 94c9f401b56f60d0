----------------------------- MODULE HubRuntime -----------------------------
(***************************************************************************)
(* The product supervisor of Alva Hub (apps/hub/runtime.go, wait.go).      *)
(*                                                                         *)
(* For each session at most one goroutine owns an admitted turn: it claims *)
(* the turn in the store, runs one engine attempt after another, commits   *)
(* every event the engine reports before acting on it, finishes the turn   *)
(* and only then gives up its entry of the active table.  Meanwhile other  *)
(* goroutines cancel the run or answer its permission requests, the        *)
(* process is closed, or it crashes and the store is opened again.         *)
(*                                                                         *)
(* Store calls are the transactions of HubStore.  Every one may also fail  *)
(* (Fault), which leaves the database as it was.  Engines are foreign:     *)
(* they report any event, in any order, and return with or without error.  *)
(* Workspace admission is a step that succeeds or fails; see               *)
(* WorkspaceLease for what decides it.                                     *)
(***************************************************************************)
EXTENDS HubStore

CONSTANTS
    Registered,      \* routes whose engine is registered with the runtime
    Capable,         \* routes whose engine has the capabilities they require
    Resumable,       \* routes whose engine can resume a native session
    ToolControlled,  \* routes whose engine reports every tool before it runs
    WaitCapable,     \* routes whose engine supports durable waits
    Caller,          \* goroutines that cancel runs or answer permissions
    MaxActive,       \* admitted runs (64 in the code)
    MaxTries,        \* attempts per claim (8 in the code)
    MaxRun,          \* bound on the runs started for a session
    MaxFault         \* bound on the store calls that fail

ASSUME EngineAssumption ==
    /\ Registered \subseteq Route /\ Capable \subseteq Route
    /\ Resumable \subseteq Route /\ ToolControlled \subseteq Route
    /\ WaitCapable \subseteq Route
ASSUME LimitAssumption ==
    /\ MaxActive \in Nat /\ MaxTries \in Nat \ {0}
    /\ MaxRun \in Nat /\ MaxFault \in Nat

VARIABLES
    run,      \* the entry of each session in the active table, with the
              \* local variables of the goroutine that owns it
    gens,     \* runs started so far, to tell them apart
    ctl,      \* where each Caller is
    process,  \* "up", "closing" (Close was called), "closed" (Close has
              \* returned) or "down" (crashed or exited)
    joining,  \* the runs that Close still waits for
    faults    \* store calls that failed so far

hubVars == <<run, gens, ctl, process, joining, faults>>
vars    == <<storeVars, hubVars>>

Phase == {"none", "admitting", "claimed", "starting", "executing", "returned",
          "closing", "deciding", "routing", "finishing", "leaving"}

NoEvent == Malformed   \* no event is being committed

RunRecord ==
    [ phase : Phase, gen : 0..MaxRun, expected : Route \cup {NoRoute},
      wait : Checkpoint, cancelled : BOOLEAN,
      turn : 0..MaxTurn, attempt : 0..MaxAttempt, tries : 0..MaxTries,
      tried : SUBSET Route, skipped : SUBSET Route, target : Route \cup {NoRoute}, native : NativeOrNone,
      contract : Contract, accepting : BOOLEAN, pending : EventType,
      rejected : BOOLEAN, err : {"none", "error", "cancelled"},
      outcome : Outcome, effects : BOOLEAN, failure : FailureKind \ {"none"} ]

NoRun ==
    [ phase |-> "none", gen |-> 0, expected |-> NoRoute, wait |-> 0,
      cancelled |-> FALSE, turn |-> 0, attempt |-> 0, tries |-> 0, tried |-> {},
      skipped |-> {},
      target |-> NoRoute, native |-> NoNative, contract |-> NewContract,
      accepting |-> FALSE, pending |-> NoEvent, rejected |-> FALSE, err |-> "none",
      outcome |-> "failed", effects |-> FALSE, failure |-> "execution" ]

Idler == [at |-> "idle", session |-> NoRoute, gen |-> 0]

RuntimeInit ==
    /\ StoreInit
    /\ run = [s \in Session |-> NoRun]
    /\ gens = [s \in Session |-> 0]
    /\ ctl = [c \in Caller |-> Idler]
    /\ process = "up"
    /\ joining = {}
    /\ faults = 0

-----------------------------------------------------------------------------
(* Helpers.                                                                *)

Active(s)  == run[s].phase # "none"
Running    == process \in {"up", "closing", "closed"}

\* The owner of s is at one of the given points of its code.
At(s, p)   == Running /\ run[s].phase = p

Owner(s, r) == /\ run' = [run EXCEPT ![s] = r]
               /\ UNCHANGED <<gens, ctl, process, joining>>

\* A store call that fails: nothing is written.
Fault == /\ faults < MaxFault
         /\ faults' = faults + 1
         /\ UNCHANGED storeVars

NoFault == UNCHANGED faults

\* The owner's step without a store call.
Local == UNCHANGED storeVars /\ NoFault

\* A faulty variant without the control lock.
ControlFree_Unlocked(s) == TRUE

\* No Caller holds the control lock of the run of s.
ControlFree(s) == \A c \in Caller :
    ~(ctl[c].at = "calling" /\ ctl[c].session = s /\ ctl[c].gen = run[s].gen)

RouteOf(s) == attempt[s][run[s].attempt].branch

-----------------------------------------------------------------------------
(* Admission.                                                              *)

\* Start, StartOnBranch and ResumeWait up to the insertion into the active
\* table.  For Start, expected is the branch admission will find.
MayStart(s) ==
    /\ process = "up"
    /\ ~Active(s)
    /\ Cardinality({q \in Session : Active(q)}) < MaxActive

Insert(s, r, n, w) ==
    /\ MayStart(s) /\ gens[s] < MaxRun /\ session[s].attempts < MaxAttempt
    /\ gens' = [gens EXCEPT ![s] = @ + 1]
    /\ run' = [run EXCEPT ![s] = [NoRun EXCEPT !.phase = "admitting", !.gen = gens'[s],
                                    !.expected = r, !.turn = n, !.wait = w]]
    /\ UNCHANGED <<ctl, process, joining>> /\ Local

Start(s, r) == session[s].turns < MaxTurn /\ Insert(s, r, 0, 0)

ResumeWait(s, r, n, w) == w # 0 /\ Insert(s, r, n, w)

Admissible(s) ==
    IF run[s].wait = 0 THEN BeginTurnAccepts(s, run[s].expected)
    ELSE WaitResumeAccepts(s, run[s].expected, run[s].turn, run[s].wait)

\* A faulty variant that goes on recording for the attempt it replaced.
Claimed_Stale(s, tried) ==
    [run[s] EXCEPT !.phase = "claimed", !.turn = session'[s].turns,
                   !.attempt = IF @ = 0 THEN session'[s].attempts ELSE @,
                   !.tries = @ + 1, !.skipped = {},
                   !.tried = tried \cup {session'[s].active}]

\* The claim: the attempt the owner runs next, and what executeClaim knows.
Claimed(s, tried) ==
    [run[s] EXCEPT !.phase = "claimed", !.turn = session'[s].turns,
                   !.attempt = session'[s].attempts, !.tries = @ + 1,
                   !.skipped = {}, !.tried = tried \cup {session'[s].active}]

Admit(s) ==
    /\ At(s, "admitting") /\ ~run[s].cancelled
    /\ IF run[s].wait = 0
         THEN BeginTurn(s, run[s].expected)
         ELSE BeginWaitResume(s, run[s].expected, run[s].turn, run[s].wait)
    /\ Owner(s, Claimed(s, {})) /\ NoFault

\* The store refuses, or the call fails, or its context was cancelled.
AdmitFails(s) ==
    /\ At(s, "admitting")
    /\ \/ (~Admissible(s) \/ run[s].cancelled) /\ Local
       \/ Fault
    /\ Owner(s, NoRun)

-----------------------------------------------------------------------------
(* One attempt.                                                            *)

\* The beginning of attempt(): its locals, and the target of Cancel and
\* RespondPermission.
Target(s) ==
    /\ At(s, "claimed")
    /\ Owner(s, [run[s] EXCEPT !.phase = "starting", !.target = RouteOf(s),
                   !.native = attempt[s][run[s].attempt].native,
                   !.contract = NewContract, !.rejected = FALSE,
                   !.err = "none", !.outcome = "failed", !.effects = FALSE,
                   !.failure = "execution"])
    /\ Local

\* What attempt() checks before it executes, and the failure it reports then.
Unsupported(s) ==
    LET r == run[s].target IN
    IF run[s].wait # 0 /\ r \in Registered \ WaitCapable      THEN "execution"
    ELSE IF r \notin Registered \cap Capable                  THEN "startup"
    ELSE IF run[s].native # NoNative /\ r \notin Resumable    THEN "execution"
    ELSE "none"

Refuse(s) ==
    /\ At(s, "starting") /\ Unsupported(s) # "none"
    /\ Owner(s, [run[s] EXCEPT !.phase = "returned", !.err = "error",
                               !.failure = Unsupported(s)])
    /\ Local

\* Workspace admission fails, or is given up because the run was cancelled.
NotAdmitted(s) ==
    /\ At(s, "starting") /\ Unsupported(s) = "none"
    /\ \E e \in {"error"} \cup (IF run[s].cancelled THEN {"cancelled"} ELSE {}) :
         Owner(s, [run[s] EXCEPT !.phase = "returned", !.err = e])
    /\ Local

Launch(s) ==
    /\ At(s, "starting") /\ Unsupported(s) = "none" /\ ~run[s].cancelled
    /\ Owner(s, [run[s] EXCEPT !.phase = "executing", !.accepting = TRUE])
    /\ Local

\* The engine calls the observer; callbacks are serialized.  A callback after
\* the end of the attempt finds it no longer accepting.
Observe(s, e) ==
    /\ Running /\ run[s].accepting
    /\ ~run[s].rejected /\ run[s].pending = NoEvent
    /\ Owner(s, [run[s] EXCEPT !.pending = e])
    /\ Local

Ends(e) == e.kind = "completed" \/ IsFatal(e)

\* A waiting completion that this engine was not set up for.
NoWaits(s, e) == IsWaiting(e) /\ run[s].target \notin Registered \cap WaitCapable

\* Before a terminal event, commit() ends the tools that are still open.
MustTidy(s) ==
    LET e == run[s].pending IN
    Ends(e) /\ run[s].contract.tools # {} /\ ~NoWaits(s, e)

Tidy(s) ==
    /\ Running /\ run[s].pending # NoEvent /\ MustTidy(s)
    /\ \E t \in run[s].contract.tools :
         /\ Record(s, run[s].attempt, ToolEnd(t), TRUE)
         /\ Owner(s, [run[s] EXCEPT !.contract = Advance(@, ToolEnd(t))])
    /\ NoFault

\* The effects an event admits to.
Risky(r, e) ==
    \/ e.kind = "execution_activity" /\ e.effect = "write"
    \/ e.kind = "session_started" /\ r \notin ToolControlled
    \/ e.kind = "tool_start" /\ e.effect # "read"

CommitAccepts(s, e) ==
    /\ ~NoWaits(s, e)
    /\ Accepts(run[s].contract, e)
    /\ RecordAccepts(s, run[s].attempt, e)

\* A faulty variant that keeps the native identity it resumed with.
Published_KeepsNative(s, e) ==
    [run[s] EXCEPT !.contract = Advance(@, e),
                   !.effects  = @ \/ Risky(run[s].target, e),
                   !.failure  = IF IsFatal(e) THEN e.failure ELSE @,
                   !.outcome  = IF e.kind = "completed" THEN e.outcome ELSE @,
                   !.pending  = NoEvent]

\* What the owner knows once event e is in the store.
Published(s, e) ==
    [run[s] EXCEPT !.contract = Advance(@, e),
                   !.native   = IF NamesNative(e) THEN e.native ELSE @,
                   !.effects  = @ \/ Risky(run[s].target, e),
                   !.failure  = IF IsFatal(e) THEN e.failure ELSE @,
                   !.outcome  = IF e.kind = "completed" THEN e.outcome ELSE @,
                   !.pending  = NoEvent]

\* Where the owner goes on after its own event: Completed follows Error.
Continue(s, r) ==
    IF run[s].phase # "closing" THEN r
    ELSE IF r.contract.terminal  THEN [r EXCEPT !.phase = "deciding"]
    ELSE [r EXCEPT !.pending = Completed(r.outcome, 0)]

Commit(s) ==
    LET e == run[s].pending IN
    /\ Running /\ e # NoEvent /\ ~MustTidy(s)
    /\ CommitAccepts(s, e)
    /\ Record(s, run[s].attempt, e, run[s].effects \/ Risky(run[s].target, e))
    /\ Owner(s, Continue(s, Published(s, e))) /\ NoFault

\* An engine's event that could not be committed rejects the whole stream; an
\* owner's event leaves the attempt without a confirmed end.
Unconfirmed(s) ==
    IF run[s].phase = "closing"
      THEN [run[s] EXCEPT !.pending = NoEvent, !.effects = TRUE, !.phase = "deciding"]
      ELSE [run[s] EXCEPT !.pending = NoEvent, !.rejected = TRUE]

\* The event is refused, or could not be stored.
CommitFails(s) ==
    LET e == run[s].pending IN
    /\ Running /\ e # NoEvent
    /\ \/ /\ IF MustTidy(s)
               THEN \E t \in run[s].contract.tools :
                       ~RecordAccepts(s, run[s].attempt, ToolEnd(t))
               ELSE ~CommitAccepts(s, e)
          /\ Local
       \/ Fault
    /\ Owner(s, Unconfirmed(s))

\* An event that no contract accepts, or that comes after a rejected one.
ObserveGarbage(s) ==
    /\ Running /\ run[s].accepting /\ run[s].pending = NoEvent
    /\ Owner(s, [run[s] EXCEPT !.rejected = TRUE])
    /\ Local

Return(s, e) ==
    /\ At(s, "executing")
    /\ Owner(s, [run[s] EXCEPT !.phase = "returned", !.err = e])
    /\ Local

Stopped(r) == [r EXCEPT !.accepting = FALSE]

\* A faulty variant that believes a stream whose owner then failed.
Discredited_Stream(r) == r.rejected

\* The stream cannot be believed.
Discredited(r) == r.rejected \/ (r.contract.terminal /\ r.err # "none")

\* Execute has returned: no callback is accepted any more, and the attempt is
\* judged.  Without a terminal event the owner reports one itself.
Sealed(s) ==
    LET r == Stopped(run[s])
        o == IF r.cancelled /\ r.err = "cancelled" THEN "cancelled" ELSE "failed"
        f == IF r.err = "none" \/ o = "cancelled" THEN "execution" ELSE r.failure IN
    CASE Discredited(r) ->
           [r EXCEPT !.phase = "deciding", !.outcome = "failed", !.effects = TRUE,
                     !.failure = "execution"]
      [] ~Discredited(r) /\ r.contract.terminal ->
           [r EXCEPT !.phase = "deciding"]
      [] OTHER ->
           [r EXCEPT !.phase = "closing", !.outcome = o, !.failure = f,
                     !.pending = IF r.contract.fatal THEN Completed(o, 0)
                                                     ELSE Error(FALSE, f)]

Seal(s) ==
    /\ At(s, "returned") /\ run[s].pending = NoEvent
    /\ Owner(s, Sealed(s))
    /\ Local

-----------------------------------------------------------------------------
(* executeClaim between attempts, and the end of the run.                  *)

MustFinish(s) ==
    \/ run[s].outcome \in {"completed", "waiting", "cancelled"}
    \/ run[s].cancelled
    \/ run[s].wait # 0
    \/ run[s].effects
    \/ run[s].failure \notin Retryable

Decide(s) ==
    /\ At(s, "deciding")
    /\ Owner(s, [run[s] EXCEPT !.phase = IF MustFinish(s) THEN "finishing" ELSE "routing"])
    /\ Local

Candidates(s) ==
    ((fallback[s] \cap Registered \cap Capable) \ run[s].tried) \ run[s].skipped

Fallback(s, r) ==
    /\ At(s, "routing") /\ ~run[s].cancelled /\ run[s].tries < MaxTries
    /\ r \in Candidates(s)
    /\ BeginFallback(s, run[s].attempt, r)
    /\ Owner(s, Claimed(s, run[s].tried)) /\ NoFault

\* BeginFallback fails for r: the next approved target is tried.
FallbackFails(s, r) ==
    /\ At(s, "routing") /\ r \in Candidates(s)
    /\ Fault
    /\ Owner(s, [run[s] EXCEPT !.skipped = @ \cup {r}])

\* A faulty variant that keeps asking the store on behalf of a cancelled run.
NoneLeft_IgnoresCancel(s) ==
    \/ \A r \in Candidates(s) : ~FallbackAccepts(s, run[s].attempt, r)
    \/ session[s].attempts = MaxAttempt

\* The store refuses every target that is left, as it does all of them once
\* the run is cancelled (MaxAttempt is this model's bound).
NoneLeft(s) ==
    \/ \A r \in Candidates(s) : ~FallbackAccepts(s, run[s].attempt, r)
    \/ run[s].cancelled
    \/ session[s].attempts = MaxAttempt

\* No target is left, or the policy cannot be read, or the attempts are used up.
GiveUp(s) ==
    /\ At(s, "routing")
    /\ \/ /\ NoneLeft(s)
          /\ Owner(s, [run[s] EXCEPT !.phase = "finishing"]) /\ Local
       \/ /\ Owner(s, [run[s] EXCEPT !.phase = "finishing", !.outcome = "failed"])
          /\ (run[s].tries = MaxTries /\ Local) \/ Fault

Finish(s) ==
    /\ At(s, "finishing")
    /\ FinishTurn(s, run[s].turn, run[s].outcome)
    /\ Owner(s, [run[s] EXCEPT !.phase = "leaving"]) /\ NoFault

\* The turn stays running, without an owner, until the store is opened again.
FinishFails(s) ==
    /\ At(s, "finishing")
    /\ (~FinishAccepts(s, run[s].turn, run[s].outcome) /\ Local) \/ Fault
    /\ Owner(s, [run[s] EXCEPT !.phase = "leaving"])

\* The owner gives up its entry once no control call is under way.
Leave(s) ==
    /\ At(s, "leaving") /\ ControlFree(s)
    /\ Owner(s, NoRun)
    /\ Local

-----------------------------------------------------------------------------
(* Cancel and RespondPermission.                                           *)

Control(c, r) == /\ ctl' = [ctl EXCEPT ![c] = r]
                 /\ UNCHANGED <<gens, process, joining>> /\ Local

CtlFind(c, s) ==
    /\ Running /\ ctl[c].at = "idle" /\ Active(s)
    /\ Control(c, [at |-> "found", session |-> s, gen |-> run[s].gen])
    /\ UNCHANGED run

\* The caller waits for the run's control lock, and holds it during its call.
CtlAim(c, cancels) ==
    LET s == ctl[c].session
        current == Active(s) /\ run[s].gen = ctl[c].gen
        aims == current /\ run[s].target \in Registered /\ run[s].native # NoNative IN
    /\ Running /\ ctl[c].at = "found"
    /\ current => ControlFree(s)
    /\ run' = IF cancels /\ current THEN [run EXCEPT ![s].cancelled = TRUE] ELSE run
    /\ Control(c, IF aims THEN [ctl[c] EXCEPT !.at = "calling"] ELSE Idler)

\* The engine's Cancel or RespondPermission has returned.
CtlReturn(c) ==
    /\ Running /\ ctl[c].at = "calling"
    /\ Control(c, Idler) /\ UNCHANGED run

\* The context the run was started with ends.
OwnerCancel(s) ==
    /\ Running /\ Active(s) /\ ~run[s].cancelled
    /\ Owner(s, [run[s] EXCEPT !.cancelled = TRUE])
    /\ Local

-----------------------------------------------------------------------------
(* The process.                                                            *)

CancelledRuns ==
    [s \in Session |-> IF Active(s) THEN [run[s] EXCEPT !.cancelled = TRUE] ELSE run[s]]

Close ==
    /\ process = "up"
    /\ process' = "closing"
    /\ joining' = {s \in Session : Active(s)}
    /\ run' = CancelledRuns
    /\ UNCHANGED <<gens, ctl>> /\ Local

\* Close has seen the end of every run it found.
CloseReturns ==
    /\ process = "closing"
    /\ \A s \in joining : ~Active(s)
    /\ process' = "closed" /\ joining' = {}
    /\ UNCHANGED <<run, gens, ctl>> /\ Local

Crash ==
    /\ Running
    /\ process' = "down"
    /\ run' = [s \in Session |-> NoRun]
    /\ ctl' = [c \in Caller |-> Idler]
    /\ joining' = {}
    /\ UNCHANGED gens /\ Local

\* The next process opens the store, which recovers it, and starts empty.
Restart ==
    /\ process = "down"
    /\ process' = "up"
    /\ Recover
    /\ UNCHANGED <<run, gens, ctl, joining>> /\ NoFault

\* The product calls that go straight to the store.
Client(s) ==
    /\ Running
    /\ IdleStep(s) \/ \E r \in Route, n \in TurnNumber : AbandonWaitingTurn(s, r, n)
    /\ UNCHANGED hubVars

-----------------------------------------------------------------------------

Engine(s) ==
    \/ \E e \in Event \ {Malformed} : Observe(s, e)
    \/ ObserveGarbage(s)
    \/ \E e \in {"none", "error", "cancelled"} : Return(s, e)

OwnerStep(s) ==
    \/ Admit(s) \/ AdmitFails(s) \/ Target(s)
    \/ Refuse(s) \/ NotAdmitted(s) \/ Launch(s)
    \/ Tidy(s) \/ Commit(s) \/ CommitFails(s) \/ Seal(s) \/ Decide(s)
    \/ \E r \in Route : Fallback(s, r) \/ FallbackFails(s, r)
    \/ GiveUp(s) \/ Finish(s) \/ FinishFails(s) \/ Leave(s)

Admission(s) ==
    \/ \E r \in Route : Start(s, r)
    \/ \E r \in Route, n \in TurnNumber, w \in Checkpoint : ResumeWait(s, r, n, w)

ControlStep(c) ==
    \/ \E s \in Session : CtlFind(c, s)
    \/ \E cancels \in BOOLEAN : CtlAim(c, cancels)
    \/ CtlReturn(c)

ProcessStep == Close \/ CloseReturns \/ Crash \/ Restart

RuntimeNext ==
    \/ \E s \in Session :
         Admission(s) \/ OwnerStep(s) \/ Engine(s) \/ OwnerCancel(s) \/ Client(s)
    \/ \E c \in Caller : ControlStep(c)
    \/ ProcessStep

RuntimeSpec == RuntimeInit /\ [][RuntimeNext]_vars

-----------------------------------------------------------------------------
(* Fairness.  Goroutines of the process keep running; a mutex that is      *)
(* released again and again is eventually obtained (Go's mutexes hand over *)
(* to a waiter that starves), which is what Seal and Leave wait for.  Of   *)
(* engines it is assumed that they return once their context is cancelled, *)
(* and that their Cancel and RespondPermission return.  Nothing is assumed *)
(* of an engine that is not cancelled.                                     *)

EngineStops(s) == run[s].cancelled /\ \E e \in {"none", "error", "cancelled"} : Return(s, e)

Fairness ==
    /\ \A s \in Session :
         /\ WF_vars(OwnerStep(s))
         /\ SF_vars(Seal(s)) /\ SF_vars(Leave(s))
         /\ SF_vars(EngineStops(s))
    /\ \A c \in Caller : WF_vars(CtlReturn(c))
    /\ WF_vars(CloseReturns)

FairRuntimeSpec == RuntimeSpec /\ Fairness

-----------------------------------------------------------------------------
(* What the supervisor promises; properties with primes are of every step. *)

\* The shape of the runtime's own state, and the budget of admitted runs.
RuntimeTypeOK ==
    /\ Cardinality({s \in Session : Active(s)}) <= MaxActive
    /\ run \in [Session -> RunRecord]
    /\ gens \in [Session -> 0..MaxRun]
    /\ ctl \in [Caller -> [at : {"idle", "found", "calling"},
                          session : Session \cup {NoRoute}, gen : 0..MaxRun]]
    /\ process \in {"up", "closing", "closed", "down"}
    /\ joining \subseteq Session
    /\ faults \in 0..MaxFault

\* The phases in which the owner holds a claim it has not finished.
Owning == Phase \ {"none", "admitting", "leaving"}

\* The active table and the store agree: a claim stands for exactly the
\* attempt the store lets record, and a turn is running in the store only
\* while someone executes it.  The one way to lose an owner is a FinishTurn
\* that fails; a crash is repaired before the next process takes calls.
OneOwner ==
    \A s \in Session :
      /\ run[s].phase \in Owning =>
           /\ turn[s][run[s].turn].status = "running"
           /\ turn[s][run[s].turn].active = run[s].attempt
           /\ RouteOf(s) = session[s].active
      /\ session[s].status = "running" =>
           run[s].phase \in Owning \/ process = "down" \/ faults > 0

\* What the owner believes of its attempt was stored first, and the store is
\* never more confident than the owner: neither a failed Record nor a rejected
\* event leaves the stream contract ahead of the database, or behind it.
StreamMatchesStore ==
    \A s \in Session :
      run[s].phase \in {"executing", "returned", "closing"} =>
        LET a == attempt[s][run[s].attempt] IN
        /\ a.status # "running" <=> run[s].contract.terminal
        /\ run[s].contract.terminal => a.status = run[s].outcome
        /\ a.error = run[s].contract.fatal
        /\ a.native = run[s].native
        /\ run[s].effects => a.effects

\* The outcome the owner decided on is one FinishTurn takes, so that only a
\* failing database can leave the turn running.
FinishIsAccepted ==
    \A s \in Session :
      run[s].phase = "finishing" => FinishAccepts(s, run[s].turn, run[s].outcome)

\* The active table and the database agree on who owns a session and on what
\* its attempt has done, the outcome is one the database takes, and no more
\* runs are admitted than fit.
OwnerAndStoreAgree ==
    RuntimeTypeOK /\ OneOwner /\ StreamMatchesStore /\ FinishIsAccepted

\* A call that cancels a run, or answers one of its permission requests, never
\* reaches a later run of the session that is using the same engine.
ControlHitsOwnRun ==
    \A c \in Caller :
      ctl[c].at = "calling" =>
        run[ctl[c].session].phase # "none" /\ run[ctl[c].session].gen = ctl[c].gen

\* Once Close has returned nothing executes, and so nothing is written.
ClosedIsQuiet == process = "closed" => \A s \in Session : ~Active(s)

\* Calls of other goroutines take effect on what they were meant for: a control
\* call on its own run, and Close on all.
CallsHitTheirRuns == ControlHitsOwnRun /\ ClosedIsQuiet

\* While the process lives, a turn succeeds only if its engine reported so in
\* a stream that was never rejected and then returned without an error.
NeedsCleanReturn ==
    \A s \in Session, n \in TurnNumber :
      /\ process # "down"
      /\ turn[s][n].status = "running" /\ turn'[s][n].status = "completed"
      => /\ run[s].turn = n /\ run[s].contract.terminal
         /\ run[s].err = "none" /\ ~run[s].rejected

\* Once the engine has returned and the attempt is judged, nothing but the end
\* of the turn changes it, however late the engine still calls back.
IsSealed ==
    \A s \in Session :
      /\ run[s].phase \in {"deciding", "routing", "finishing"}
      /\ process' # "up" \/ process # "down"
      => attempt'[s][run[s].attempt] =
           IF turn'[s][run[s].turn].status = "running"
             THEN attempt[s][run[s].attempt]
             ELSE Abandoned(attempt[s][run[s].attempt], run[s].outcome)

\* Success is what an engine reported and then confirmed by its return, and
\* nothing it calls back later changes an attempt that was judged.
ReportsAreJudgedOnce == [][NeedsCleanReturn /\ IsSealed]_vars

\* A cancelled run ends, and with it its claim on the session; and Close does
\* not wait for ever.
RunsEnd ==
    /\ \A s \in Session : Active(s) /\ run[s].cancelled ~> ~Active(s)
    /\ process = "closing" ~> process # "closing"
=============================================================================
