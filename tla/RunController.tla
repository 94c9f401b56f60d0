--------------------------- MODULE RunController ---------------------------
(* Controller of the native host (platform/host/controller.go): one root   *)
(* run at a time, executed in a goroutine of its own, whose events are     *)
(* kept for replay and sent to observers that may come, lag and go.        *)
(*                                                                         *)
(* Events of a run are the numbers 1 .. high; the kept window is           *)
(* oldest .. high.  The last one a run records is its terminal event.  An  *)
(* observer knows the number it has seen of one run, and resumes there.    *)
EXTENDS Integers, Sequences, FiniteSets

CONSTANTS
    Observer,   \* clients that subscribe
    MaxRun,     \* bound on runs
    Retained,   \* runs the controller keeps (16)
    MaxEvents,  \* events kept for replay
    Buffer,     \* capacity of the channel of a subscriber (8)
    MaxEmit     \* bound on events of the runner, in one run

VARIABLES
    runs,       \* by number: status, cancelled, what the runner does, window
    kept,       \* the retained runs, in order
    active,     \* the active run, 0 without one
    closed,     \* Close was called
    watch,      \* observers: run, what they saw, channel, whether it is closed
    closing     \* Close: "no", "joining" or "joined"

vars == <<runs, kept, active, closed, watch, closing>>

Run     == 1 .. MaxRun
NoRun   == [status |-> "none", cancelled |-> FALSE, exec |-> "none", high |-> 0, oldest |-> 0, end |-> 0]
NoWatch == [run |-> 0, seen |-> 0, queue |-> <<>>, open |-> FALSE, cause |-> ""]

Init ==
    /\ runs = [i \in Run |-> NoRun] /\ kept = <<>> /\ active = 0 /\ closed = FALSE
    /\ watch = [o \in Observer |-> NoWatch] /\ closing = "no"

IsKept(i)      == \E k \in DOMAIN kept : kept[k] = i
Subscribers(i) == {o \in Observer : watch[o].open /\ watch[o].run = i}
Most(a, b)     == IF a > b THEN a ELSE b

-----------------------------------------------------------------------------
(* The run.                                                                *)

Retain(order) == IF Len(order) > Retained THEN Tail(order) ELSE order

Admits == ~closed /\ active = 0

Start(i) ==
    /\ Admits /\ runs[i].status = "none" /\ \A j \in 1 .. i - 1 : runs[j].status # "none"
    /\ runs' = [runs EXCEPT ![i].status = "running", ![i].exec = "running"]
    /\ kept' = Retain(Append(kept, i)) /\ active' = i
    /\ UNCHANGED <<closed, watch, closing>>

\* recordLocked, for the subscribers S of run i: those without room are dropped.
Deliver(w, e) ==
    IF Len(w.queue) < Buffer THEN [w EXCEPT !.queue = Append(@, e)] ELSE [w EXCEPT !.open = FALSE, !.cause = "lag"]

Recorded(r) == [r EXCEPT !.high = @ + 1, !.oldest = Most(1, r.high + 2 - MaxEvents)]

Accepts(i) == ~runs[i].cancelled

\* The runner calls back, perhaps late, from a goroutine it left behind.
Callback(i) ==
    /\ runs[i].exec # "none" /\ Accepts(i) /\ runs[i].high < MaxEmit
    /\ runs' = [runs EXCEPT ![i] = Recorded(@)]
    /\ watch' = [o \in Observer |-> IF o \in Subscribers(i) THEN Deliver(watch[o], runs[i].high + 1) ELSE watch[o]]
    /\ UNCHANGED <<kept, active, closed, closing>>

Return(i) ==
    /\ runs[i].exec = "running" /\ runs' = [runs EXCEPT ![i].exec = "returned"]
    /\ UNCHANGED <<kept, active, closed, watch, closing>>

Finished(i, w) ==
    LET sent == Deliver(w, runs[i].high + 1) IN [sent EXCEPT !.open = FALSE, !.cause = IF @ = "" THEN "end" ELSE @]

\* The last section of execute.
Finish(i, status) ==
    /\ runs[i].exec = "returned" /\ (status = "cancelled" => runs[i].cancelled)
    /\ runs' = [runs EXCEPT ![i] = [Recorded(@) EXCEPT !.status = status, !.exec = "done", !.cancelled = TRUE,
                                                         !.end = runs[i].high + 1]]
    /\ watch' = [o \in Observer |-> IF o \in Subscribers(i) THEN Finished(i, watch[o]) ELSE watch[o]]
    /\ active' = IF active = i THEN 0 ELSE active
    /\ UNCHANGED <<kept, closed, closing>>

-----------------------------------------------------------------------------
(* Calls of the host.                                                      *)

Stop(i) ==
    /\ IsKept(i) /\ runs[i].status = "running" /\ ~runs[i].cancelled
    /\ runs' = [runs EXCEPT ![i].cancelled = TRUE]
    /\ UNCHANGED <<kept, active, closed, watch, closing>>

Cancels(i) == i = active

\* Close marks the controller and cancels the active run, then waits.
Close ==
    /\ closing = "no" /\ closed' = TRUE /\ closing' = "joining"
    /\ runs' = [i \in Run |-> IF Cancels(i) THEN [runs[i] EXCEPT !.cancelled = TRUE] ELSE runs[i]]
    /\ UNCHANGED <<kept, active, watch>>

JoinsOn == \A i \in Run : runs[i].exec \in {"none", "done"}

Joined ==
    /\ closing = "joining" /\ JoinsOn /\ closing' = "joined"
    /\ UNCHANGED <<runs, kept, active, closed, watch>>

-----------------------------------------------------------------------------
(* Observers.                                                              *)

\* What a subscription at `after' is sent at once.
Replay(i, after) == [k \in 1 .. runs[i].high - after |-> after + k]

InWindow(i, after) ==
    /\ after <= runs[i].high /\ (runs[i].oldest > 0 => after >= runs[i].oldest - 1)
    /\ runs[i].high - after <= Buffer

\* Subscribe, from what the observer saw of the run last; otherwise refused.
Subscribe(o, i) == LET after == IF watch[o].run = i THEN watch[o].seen ELSE 0
                       first == Most(after, runs[i].oldest - 1) IN
    /\ ~watch[o].open /\ watch[o].queue = <<>> /\ IsKept(i) /\ InWindow(i, after)
    /\ watch' = [watch EXCEPT ![o] = [run |-> i, seen |-> after, queue |-> Replay(i, first),
                     open |-> runs[i].status = "running", cause |-> IF runs[i].status = "running" THEN "" ELSE "end"]]
    /\ UNCHANGED <<runs, kept, active, closed, closing>>

\* Snapshot: an observer whose history expired starts over from the present.
Snapshot(o, i) ==
    /\ ~watch[o].open /\ watch[o].queue = <<>> /\ IsKept(i)
    /\ ~InWindow(i, IF watch[o].run = i THEN watch[o].seen ELSE 0)
    /\ watch' = [watch EXCEPT ![o] = [NoWatch EXCEPT !.run = i, !.seen = runs[i].high]]
    /\ UNCHANGED <<runs, kept, active, closed, closing>>

Receive(o) ==
    /\ watch[o].queue # <<>>
    /\ watch' = [watch EXCEPT ![o].seen = Head(watch[o].queue), ![o].queue = Tail(@)]
    /\ UNCHANGED <<runs, kept, active, closed, closing>>

Unsubscribe(o) ==
    /\ watch[o].open /\ watch' = [watch EXCEPT ![o].open = FALSE, ![o].cause = "left"]
    /\ UNCHANGED <<runs, kept, active, closed, closing>>

-----------------------------------------------------------------------------
Execution(i) == Return(i) \/ \E status \in {"completed", "cancelled", "failed"} : Finish(i, status)

Next ==
    \/ \E i \in Run : Start(i) \/ Callback(i) \/ Execution(i) \/ Stop(i)
    \/ Close \/ Joined
    \/ \E o \in Observer : Receive(o) \/ Unsubscribe(o) \/ \E i \in Run : Subscribe(o, i) \/ Snapshot(o, i)

\* Fairness is of Ending(i), Joined and Receive(o): runners end when they are
\* cancelled; observers read what they are sent.
Ending(i) == (runs[i].cancelled /\ Return(i)) \/ \E status \in {"completed", "cancelled", "failed"} : Finish(i, status)

Spec == Init /\ [][Next]_vars

-----------------------------------------------------------------------------
(* Properties: those with primes are of every step.                       *)

\* Shapes; what is kept for replay and for observers stays within its bounds.
ControllerTypeOK ==
    /\ Len(kept) <= Retained /\ active \in 0 .. MaxRun
    /\ \A i \in Run : /\ runs[i].status \in {"none", "running", "completed", "cancelled", "failed"}
                      /\ runs[i].high > 0 => runs[i].high - runs[i].oldest < MaxEvents
    /\ \A o \in Observer : Len(watch[o].queue) <= Buffer

\* The active run is the one that executes, and can be found and stopped.
ActiveIsKept == \A i \in Run :
    /\ runs[i].exec \in {"running", "returned"} => i = active /\ IsKept(i)
    /\ active = i => runs[i].status = "running"

\* The terminal event is the last one of a run: what a runner says late is
\* not recorded.
EndIsLast == \A i \in Run : runs[i].end > 0 => runs[i].high = runs[i].end

\* An observer sees the events of a run one after the other, without a gap,
\* in a subscription and from one to the next; only a new snapshot skips.
NoGap == \A o \in Observer : (watch'[o].run = watch[o].run /\ watch'[o].seen # watch[o].seen) =>
              \/ watch'[o].seen = watch[o].seen + 1 /\ watch[o].queue # <<>>
              \/ watch[o].queue = <<>> /\ ~watch'[o].open /\ watch'[o].seen = runs[watch[o].run].high

\* An observer who neither leaves nor lags learns how the run ends.
EndIsSeen == \A o \in Observer :
    (watch[o].cause = "end" /\ watch[o].queue = <<>>) => watch[o].seen = runs[watch[o].run].end

\* Nobody waits for a run that is over.
NobodyWaits == \A o \in Observer : watch[o].open => runs[watch[o].run].status = "running"

\* When Close has joined, nothing executes, now or later.
JoinedIsQuiet == closing = "joined" => \A i \in Run : runs[i].exec \in {"none", "done"}

\* Not for ever: Close waits.
Unjoined == closing = "joining"
=============================================================================
