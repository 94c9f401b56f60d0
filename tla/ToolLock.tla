------------------------------ MODULE ToolLock ------------------------------
(* Resource locks of tool calls, shared by all agents of a process         *)
(* (sdk/agent/core/tool_lock.go, sdk/kernel/abi/scheduling.go).            *)
(*                                                                         *)
(* A call states its claims when it asks, waits behind earlier calls it    *)
(* conflicts with, and overtakes those it does not.  The list of waiting   *)
(* calls is kept as the set of calls ahead of each.  A call sleeps on the  *)
(* channel of its last look; notify closes that channel, which is kept as  *)
(* a signal to every sleeper.                                              *)
EXTENDS Integers, FiniteSets

CONSTANTS
    Task,        \* goroutines that call tools, one call at a time
    Claim,       \* function on Task: [mode, reads, writes] of its calls
    ParentOf,    \* function on Task: the call whose tool makes it, or Nobody
    Nobody,
    MaxWaiters   \* waiter budget

Modes == {"parallel", "serial_global", "coordinator"}

ASSUME ToolLockAssumption ==
    /\ IsFiniteSet(Task) /\ Nobody \notin Task /\ MaxWaiters \in Nat \ {0}
    /\ ParentOf \in [Task -> Task \cup {Nobody}]
    /\ \A t \in Task : Claim[t].mode \in Modes

VARIABLES
    pc,         \* of each task: "idle", "enter", "asleep", "held"
    cancelled,  \* the context of its call is cancelled
    signal,     \* the channel it sleeps on is closed
    active,     \* calls that hold their claims
    ahead       \* of a waiting call: the calls before it in the list

lockVars == <<pc, cancelled, signal, active, ahead>>

\* SchedulingConflicts, for the claims of two calls.
Conflict(s, t) ==
    \/ Claim[s].mode = "serial_global" \/ Claim[t].mode = "serial_global"
    \/ Claim[s].writes \cap (Claim[t].reads \cup Claim[t].writes) # {}
    \/ Claim[t].writes \cap Claim[s].reads # {}

Waiting  == {t \in Task : pc[t] = "asleep"}

LockInit ==
    /\ pc = [t \in Task |-> "idle"] /\ cancelled = [t \in Task |-> FALSE] /\ signal = [t \in Task |-> FALSE]
    /\ active = {} /\ ahead = [t \in Task |-> {}]

-----------------------------------------------------------------------------
\* A tool is called, by the user's agent or by the tool of another call.
Call(t) ==
    /\ pc[t] = "idle" /\ (ParentOf[t] # Nobody => pc[ParentOf[t]] = "held")
    /\ pc' = [pc EXCEPT ![t] = "enter"] /\ cancelled' = [cancelled EXCEPT ![t] = FALSE]
    /\ UNCHANGED <<signal, active, ahead>>

MayHold_Queue(t, before) == \A s \in before : ~Conflict(s, t)

\* canAcquire
MayHold(t, before) == \A s \in active \cup before : ~Conflict(s, t)

\* A faulty variant that wakes nobody when a waiting call gives up.
Notified_Nobody == signal

Notified == [t \in Task |-> signal[t] \/ pc[t] = "asleep"]

Gone(t) == [s \in Task |-> IF s = t THEN {} ELSE ahead[s] \ {t}]

\* A round of the loop of Acquire, with the calls before t in the list.
Look(t, before) ==
    \/ /\ cancelled[t]
       /\ pc' = [pc EXCEPT ![t] = "idle"] /\ ahead' = Gone(t)
       /\ signal' = [Notified EXCEPT ![t] = FALSE] /\ UNCHANGED active
    \/ /\ ~cancelled[t] /\ MayHold(t, before)
       /\ pc' = [pc EXCEPT ![t] = "held"] /\ ahead' = Gone(t)
       /\ active' = active \cup {t} /\ signal' = [signal EXCEPT ![t] = FALSE]
    \/ /\ ~cancelled[t] /\ ~MayHold(t, before)
       /\ pc' = [pc EXCEPT ![t] = "asleep"] /\ ahead' = [ahead EXCEPT ![t] = before]
       /\ signal' = [signal EXCEPT ![t] = FALSE] /\ UNCHANGED active

Bypasses(t) == Claim[t].mode = "coordinator"

Full == Cardinality(Waiting) >= MaxWaiters

Acquire(t) ==
    /\ pc[t] = "enter"
    /\ \/ /\ Bypasses(t) /\ pc' = [pc EXCEPT ![t] = IF cancelled[t] THEN "idle" ELSE "held"]
          /\ UNCHANGED <<signal, active, ahead>>
       \/ /\ ~Bypasses(t) /\ Full /\ pc' = [pc EXCEPT ![t] = "idle"]
          /\ UNCHANGED <<signal, active, ahead>>
       \/ ~Bypasses(t) /\ ~Full /\ Look(t, Waiting)
    /\ UNCHANGED cancelled

Retry(t) ==
    /\ pc[t] = "asleep" /\ (signal[t] \/ cancelled[t]) /\ Look(t, ahead[t])
    /\ UNCHANGED cancelled

\* The tool has returned, and so have the calls it made.
Release(t) ==
    /\ pc[t] = "held" /\ \A c \in Task : ParentOf[c] = t => pc[c] = "idle"
    /\ pc' = [pc EXCEPT ![t] = "idle"]
    /\ active' = active \ {t}
    /\ signal' = IF Bypasses(t) THEN signal ELSE Notified
    /\ UNCHANGED <<cancelled, ahead>>

CancelCall(t) ==
    /\ pc[t] # "idle" /\ ~cancelled[t] /\ cancelled' = [cancelled EXCEPT ![t] = TRUE]
    /\ UNCHANGED <<pc, signal, active, ahead>>

LockNext == \E t \in Task : Call(t) \/ Acquire(t) \/ Retry(t) \/ Release(t) \/ CancelCall(t)

\* Fairness is weak of TaskMoves(t) and strong of Release(t): goroutines go on
\* and tools return, if those they call do; nobody has to call.  A tool makes
\* finitely many calls in turn: one that could leave again and again leaves.
TaskMoves(t) == Acquire(t) \/ Retry(t)

LockSpec == LockInit /\ [][LockNext]_lockVars

-----------------------------------------------------------------------------
(* Properties.                                                             *)

\* Shapes; the list of waiting calls is within its budget and has an order.
ToolLockTypeOK ==
    /\ pc \in [Task -> {"idle", "enter", "asleep", "held"}]
    /\ cancelled \in [Task -> BOOLEAN] /\ signal \in [Task -> BOOLEAN]
    /\ active \subseteq Task /\ ahead \in [Task -> SUBSET Task]
    /\ Cardinality(Waiting) <= MaxWaiters
    /\ \A s, t \in Waiting : s # t => (s \in ahead[t] <=> t \notin ahead[s])

\* Calls that hold their claims at the same time do not conflict.
Exclusive == \A s, t \in active : s # t => ~Conflict(s, t)

\* No wake-up is lost: a call that sleeps on an open channel is blocked.
SleepersAreBlocked == \A t \in Task : (pc[t] = "asleep" /\ ~signal[t]) => ~MayHold(t, ahead[t])

\* Not for ever: a call sleeps.  Late calls do not overtake one they conflict
\* with, and the calls of a coordinator do not wait for it.
Unserved(t) == pc[t] = "asleep"
=============================================================================
