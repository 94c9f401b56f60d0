---------------------------- MODULE BrowserRuns ----------------------------
(***************************************************************************)
(* Browsers of the native engine: the plugin of a session                  *)
(* (extension/browser), which has a manager for each run                   *)
(* (platform/host/browser), which owns browsers with private profiles.     *)
(*                                                                         *)
(* One tool call at a time holds the plugin's gate.  The end of a run and  *)
(* Close do not wait for it to close the manager, so that they may stop a  *)
(* browser that is still starting; but they wait for it before the plugin  *)
(* lets go of the manager, which it keeps if that could not be emptied.    *)
(***************************************************************************)
EXTENDS Naturals, Sequences, FiniteSets

CONSTANTS
    Caller,      \* goroutines of tool calls
    Id,          \* names of browsers
    MaxListed,   \* browsers of a manager (4)
    MaxRun, MaxInst, MaxFault,   \* bounds: runs, browsers, failures
    Ops,         \* what happens besides: "late" (a wait is given up), "stuck" (a process cannot be killed)
    Nobody

VARIABLES
    run,      \* the kernel's: how many runs there were, and whether one is on
    plug,     \* the Plugin: runID, also the run of its manager; runCtx; failed; closed; and the manager's closed
    gate,     \* who holds the plugin's gate
    act,      \* what each call, OnRunEnd ("end") and Close ("close") are doing
    inst,     \* browsers, in order of creation
    quiet,    \* history: a Close returned without an error
    faults    \* counts faults

vars == <<run, plug, gate, act, inst, quiet, faults>>

Stopper == {"end", "close"}
Actor   == Caller \cup Stopper
\* Calls, stoppers and nobody differ, and the budget is a number.
BrowserAssumption == Nobody \notin Actor /\ Caller \cap Stopper = {} /\ MaxListed \in Nat

NoAct   == [pc |-> "idle", op |-> "", run |-> 0, i |-> 0, todo |-> {}, err |-> FALSE]
NoRun   == [run |-> 0, live |-> FALSE, failed |-> FALSE, shut |-> FALSE, closed |-> FALSE]

Init ==
    /\ run = [n |-> 0, on |-> FALSE] /\ plug = NoRun /\ gate = Nobody /\ inst = <<>> /\ quiet = FALSE /\ faults = 0
    /\ act = [k \in Actor |-> NoAct]

Fault     == faults < MaxFault /\ faults' = faults + 1
NoFault   == UNCHANGED faults
Goes(k, pc) == act' = [act EXCEPT ![k].pc = pc]
Busy      == {c \in Caller : act[c].pc # "idle"}
Listed(n) == {i \in DOMAIN inst : inst[i].listed /\ inst[i].run = n}

\* check, for a call of the run it was made in.
Active(c) == ~plug.closed /\ plug.live /\ plug.run = act[c].run /\ ~plug.failed

-----------------------------------------------------------------------------
\* Runs.
OnRunStart ==
    /\ ~run.on /\ act["end"].pc = "idle" /\ run.n < MaxRun /\ run' = [n |-> run.n + 1, on |-> TRUE]
    /\ ~plug.closed /\ plug.run = 0
    /\ plug' = [plug EXCEPT !.run = run.n + 1, !.live = TRUE, !.failed = FALSE, !.shut = FALSE]
    /\ UNCHANGED <<gate, act, inst, quiet, faults>>
CancelRun == /\ plug.live /\ plug' = [plug EXCEPT !.live = FALSE]
             /\ UNCHANGED <<run, gate, act, inst, quiet, faults>>

\* The two callers of stop.  The kernel ends a run when its calls have returned.
OnRunEnd ==
    /\ run.on /\ Busy = {} /\ run' = [run EXCEPT !.on = FALSE]
    /\ IF plug.run = run.n
         THEN /\ plug' = [plug EXCEPT !.live = FALSE]
              /\ act' = [act EXCEPT !["end"] = [NoAct EXCEPT !.pc = "closing manager", !.run = run.n]]
         ELSE UNCHANGED <<plug, act>>
    /\ UNCHANGED <<gate, inst, quiet, faults>>
Close ==
    /\ act["close"].pc = "idle" /\ plug' = [plug EXCEPT !.closed = TRUE, !.live = FALSE]
    /\ IF plug.run # 0
         THEN /\ act' = [act EXCEPT !["close"] = [NoAct EXCEPT !.pc = "closing manager", !.run = plug.run]]
              /\ UNCHANGED quiet
         ELSE quiet' = TRUE /\ UNCHANGED act
    /\ UNCHANGED <<run, gate, inst, faults>>

\* A faulty variant that does not wait for the call that has the gate.
Joins_Eager(k) == act[k].pc = "closed"

\* When the manager is closed: the gate, and what is left in the manager.
Joins(k) == act[k].pc = "closed" /\ gate = Nobody
Join(k) ==
    /\ k \in Stopper /\ Joins(k)
    /\ IF plug.run = act[k].run
         THEN gate' = k /\ Goes(k, IF Listed(act[k].run) = {} THEN "emptied" ELSE "kept") /\ UNCHANGED quiet
         ELSE /\ act' = [act EXCEPT ![k] = NoAct] /\ quiet' = (quiet \/ (k = "close" /\ ~act[k].err))
              /\ UNCHANGED gate
    /\ UNCHANGED <<run, plug, inst, faults>>
Settle(k, fails) ==
    /\ k \in Stopper /\ act[k].pc \in {"emptied", "kept"}
    /\ IF fails THEN Fault ELSE NoFault
    /\ plug' = IF act[k].pc = "emptied" THEN [NoRun EXCEPT !.closed = plug.closed] ELSE plug
    /\ quiet' = (quiet \/ (k = "close" /\ ~fails /\ ~act[k].err))
    /\ act' = [act EXCEPT ![k] = NoAct] /\ gate' = Nobody
    /\ UNCHANGED <<run, inst>>

-----------------------------------------------------------------------------
\* Tool calls: browserTool.Execute.
Leaves(c) == act' = [act EXCEPT ![c] = NoAct] /\ gate' = IF gate = c THEN Nobody ELSE gate

Call(c, op) ==
    /\ run.on /\ act[c].pc = "idle"
    /\ act' = [act EXCEPT ![c] = [NoAct EXCEPT !.pc = "gate", !.op = op, !.run = run.n]]
    /\ UNCHANGED <<run, plug, gate, inst, quiet, faults>>
TakeGate(c) ==
    /\ act[c].pc = "gate" /\ gate = Nobody
    /\ IF Active(c) THEN gate' = c /\ Goes(c, "asking") ELSE Leaves(c)
    /\ UNCHANGED <<run, plug, inst, quiet, faults>>
GiveUp(c) ==
    /\ act[c].pc \in {"gate", "asking"} /\ Leaves(c)
    /\ UNCHANGED <<run, plug, inst, quiet, faults>>
Authorized(c) ==
    /\ act[c].pc = "asking" /\ act[c].op # "start" /\ Goes(c, "admitting")
    /\ UNCHANGED <<run, plug, gate, inst, quiet, faults>>

\* The manager's Start: a listed browser with a directory.
Room(id) == /\ ~plug.shut /\ Cardinality(Listed(plug.run)) < MaxListed
            /\ \A i \in Listed(plug.run) : inst[i].id # id
NewInst(id) == [run |-> plug.run, id |-> id, listed |-> TRUE, dir |-> TRUE, proc |-> "none",
                ready |-> FALSE, bad |-> FALSE, drained |-> FALSE, writing |-> FALSE, holder |-> Nobody]
Register(c, id) ==
    /\ act[c].pc = "asking" /\ act[c].op = "start" /\ Room(id) /\ Len(inst) < MaxInst
    /\ inst' = Append(inst, NewInst(id)) /\ act' = [act EXCEPT ![c].pc = "admitting", ![c].i = Len(inst) + 1]
    /\ UNCHANGED <<run, plug, gate, quiet, faults>>
StartRefused(c, id) ==
    /\ act[c].pc = "asking" /\ act[c].op = "start" /\ Goes(c, "failed")
    /\ IF Room(id) /\ Len(inst) < MaxInst THEN Fault ELSE NoFault
    /\ UNCHANGED <<run, plug, gate, inst, quiet>>

\* admit: the call is still good; it is reported and recorded.
Check(c) ==
    /\ act[c].pc = "admitting" /\ Active(c) /\ Goes(c, "reporting")
    /\ UNCHANGED <<run, plug, gate, inst, quiet, faults>>
Admitted(c) ==
    /\ act[c].pc = "reporting"
    /\ Goes(c, CASE act[c].op = "start" -> "starting" [] act[c].op = "stop" -> "stopping" [] OTHER -> "using")
    /\ UNCHANGED <<run, plug, gate, inst, quiet, faults>>

\* removeUnstarted: everything before the process was started is undone.
Unstarted(i, removed) ==
    inst' = [inst EXCEPT ![i] = [@ EXCEPT !.ready = TRUE, !.listed = ~removed, !.dir = ~removed]]
AdmitFails(c, removed) ==
    /\ \/ act[c].pc = "admitting" /\ ~Active(c) /\ IF removed THEN NoFault ELSE Fault
       \/ act[c].pc \in {"reporting", "starting"} /\ ((removed /\ ~plug.live /\ NoFault) \/ Fault)
    /\ IF act[c].op = "start" THEN Unstarted(act[c].i, removed) /\ Goes(c, "failed") /\ UNCHANGED gate
       ELSE removed /\ Leaves(c) /\ UNCHANGED inst
    /\ UNCHANGED <<run, plug, quiet>>

\* The last look at the context is before this; so a browser may be started
\* that was cancelled, and is closed at once.
Spawn(c) ==
    /\ act[c].pc = "starting" /\ inst' = [inst EXCEPT ![act[c].i].proc = "alive"] /\ Goes(c, "connecting")
    /\ UNCHANGED <<run, plug, gate, quiet, faults>>
Connected(c) ==
    /\ act[c].pc = "connecting" /\ inst[act[c].i].proc \in {"alive", "closing"} /\ ~inst[act[c].i].bad
    /\ inst' = [inst EXCEPT ![act[c].i].ready = TRUE] /\ Goes(c, "done")
    /\ UNCHANGED <<run, plug, gate, quiet, faults>>

\* stopInstance begins: of a browser that does not come up, of one named, of
\* all when the manager is closed.  It cancels the browser, which then Ends.
Stops(k, i) == act' = [act EXCEPT ![k].pc = "token", ![k].i = i]
ConnectFails(c) ==
    /\ act[c].pc = "connecting" /\ Stops(c, act[c].i)
    /\ UNCHANGED <<run, plug, gate, inst, quiet, faults>>
StopNamed(c, i) ==
    /\ act[c].pc = "stopping" /\ i \in Listed(plug.run) /\ inst[i].ready /\ Stops(c, i)
    /\ UNCHANGED <<run, plug, gate, inst, quiet, faults>>
Used(c, fails) ==
    /\ act[c].pc \in {"using", "stopping"} /\ Goes(c, IF fails THEN "failed" ELSE "done")
    /\ fails \/ (act[c].pc = "using" /\ \E i \in Listed(plug.run) : inst[i].ready /\ ~inst[i].bad /\ inst[i].proc = "alive")
    /\ UNCHANGED <<run, plug, gate, inst, quiet, faults>>

\* The outcome is recorded, or not.
Returns(c) ==
    /\ c \in Caller /\ act[c].pc \in {"done", "closed"} /\ Leaves(c)
    /\ UNCHANGED <<run, plug, inst, quiet, faults>>

-----------------------------------------------------------------------------
\* Manager.Close, for the stoppers and after a call that failed.
CloseManager(k) ==
    /\ act[k].pc \in {"closing manager", "failed"}
    /\ plug' = [plug EXCEPT !.shut = @ \/ plug.run = act[k].run]
    /\ act' = [act EXCEPT ![k].pc = "all", ![k].op = "all", ![k].todo = Listed(act[k].run)]
    /\ UNCHANGED <<run, gate, inst, quiet, faults>>

\* A faulty variant that does not wait for a browser that is starting.
MayStop_Early(i) == TRUE

MayStop(i) == inst[i].ready
NextInst(k, i) ==
    /\ act[k].pc = "all" /\ i \in act[k].todo /\ MayStop(i) /\ Stops(k, i)
    /\ UNCHANGED <<run, plug, gate, inst, quiet, faults>>
AllStopped(k) ==
    /\ act[k].pc = "all" /\ act[k].todo = {} /\ Goes(k, "closed")
    /\ UNCHANGED <<run, plug, gate, inst, quiet, faults>>

\* stopInstance, one at a time, and whence it was called.
After(k, err) ==
    act' = [act EXCEPT ![k].err = @ \/ err, ![k].todo = @ \ {act[k].i},
                       ![k].pc = CASE act[k].op = "all" -> "all" [] act[k].op = "stop" /\ ~err -> "done"
                                   [] OTHER -> "failed"]
Frees(i, k) == [inst EXCEPT ![i].holder = IF @ = k THEN Nobody ELSE @,
                            ![i].ready = @ \/ act[k].op = "start"]
Token(k) ==
    /\ act[k].pc = "token" /\ inst[act[k].i].holder = Nobody
    /\ LET i == act[k].i IN
       /\ inst' = [inst EXCEPT ![i].holder = k, ![i].proc = IF @ = "alive" THEN "closing" ELSE @]
       /\ Goes(k, IF inst[i].proc = "none" THEN "remove" ELSE "reap")
    /\ UNCHANGED <<run, plug, gate, quiet, faults>>
Reaped(k) ==
    /\ act[k].pc = "reap"
    /\ LET i == act[k].i IN
       \/ inst[i].proc = "reaped" /\ Goes(k, "drain") /\ UNCHANGED inst
       \/ inst[i].proc = "stuck" /\ After(k, TRUE) /\ inst' = Frees(i, k)
    /\ UNCHANGED <<run, plug, gate, quiet, faults>>

\* A faulty variant that does not wait for the readers of its output.
Quit_Reaped(i) == inst[i].proc \in {"none", "reaped"}

Quit(i) == inst[i].proc = "none" \/ inst[i].drained
Remove(k, removed) ==
    /\ act[k].pc \in {"remove", "drain"} /\ Quit(act[k].i)
    /\ LET i == act[k].i IN
       /\ After(k, ~removed \/ inst[i].bad)
       /\ inst' = [Frees(i, k) EXCEPT ![i].listed = @ /\ ~removed, ![i].dir = @ /\ ~removed]
    /\ IF removed THEN NoFault ELSE Fault
    /\ UNCHANGED <<run, plug, gate, quiet>>

\* The contexts of all these have deadlines.
Late(k) ==
    /\ "late" \in Ops /\ act[k].pc \in {"token", "reap", "drain", "all", "closed"}
    /\ CASE act[k].pc = "all" -> /\ \E i \in act[k].todo : ~MayStop(i)
                                 /\ act' = [act EXCEPT ![k].pc = "closed", ![k].err = TRUE] /\ UNCHANGED inst
         [] act[k].pc = "closed" -> k \in Stopper /\ act' = [act EXCEPT ![k] = NoAct] /\ UNCHANGED inst
         [] OTHER -> After(k, TRUE) /\ inst' = Frees(act[k].i, k)
    /\ UNCHANGED <<run, plug, gate, quiet, faults>>

-----------------------------------------------------------------------------
\* Processes: one ends by itself or was cancelled; it is reaped; its readers end.
Ends(i) ==
    /\ inst[i].proc = "alive" /\ inst' = [inst EXCEPT ![i].proc = "closing"]
    /\ UNCHANGED <<run, plug, gate, act, quiet, faults>>
Reap(i, stuck) ==
    /\ inst[i].proc = "closing" /\ inst' = [inst EXCEPT ![i].proc = IF stuck THEN "stuck" ELSE "reaped"]
    /\ IF stuck THEN "stuck" \in Ops /\ Fault ELSE NoFault
    /\ UNCHANGED <<run, plug, gate, act, quiet>>
Drain(i) ==
    /\ inst[i].proc \in {"reaped", "stuck"} /\ ~inst[i].drained /\ ~inst[i].writing
    /\ inst' = [inst EXCEPT ![i].drained = TRUE, ![i].bad = @ \/ inst[i].proc = "stuck"]
    /\ UNCHANGED <<run, plug, gate, act, quiet, faults>>

\* A line of its output goes to the journal of the run (observe), or ends it.
Spoils(i) == [inst[i] EXCEPT !.bad = TRUE, !.writing = FALSE, !.proc = IF @ = "alive" THEN "closing" ELSE @]
ReadLine(i) ==
    /\ inst[i].proc # "none" /\ ~inst[i].drained /\ ~inst[i].writing
    /\ inst' = [inst EXCEPT ![i] = IF plug.run = inst[i].run /\ ~plug.failed THEN [@ EXCEPT !.writing = TRUE]
                                   ELSE Spoils(i)]
    /\ UNCHANGED <<run, plug, gate, act, quiet, faults>>
Written(i, fails) ==
    /\ inst[i].writing
    /\ inst' = [inst EXCEPT ![i] = IF fails THEN Spoils(i) ELSE [@ EXCEPT !.writing = FALSE]]
    /\ IF fails THEN Fault /\ plug' = [plug EXCEPT !.failed = TRUE] ELSE NoFault /\ UNCHANGED plug
    /\ UNCHANGED <<run, gate, act, quiet>>

-----------------------------------------------------------------------------
\* A guard gives up when the call is cancelled.
CallMoves(c) ==
    \/ TakeGate(c) \/ (~plug.live /\ act[c].pc = "asking" /\ GiveUp(c)) \/ Check(c) \/ Admitted(c) \/ AdmitFails(c, TRUE) \/ Spawn(c)
    \/ Connected(c) \/ ConnectFails(c) \/ Used(c, TRUE) \/ Returns(c)
ActorMoves(k) ==
    \/ CloseManager(k) \/ (\E i \in DOMAIN inst : NextInst(k, i)) \/ AllStopped(k) \/ Token(k) \/ Reaped(k)
    \/ Remove(k, TRUE) \/ Join(k) \/ Settle(k, FALSE)

Next ==
    \/ OnRunStart \/ CancelRun \/ OnRunEnd \/ Close
    \/ \E c \in Caller : \/ CallMoves(c) \/ GiveUp(c) \/ Authorized(c) \/ AdmitFails(c, FALSE) \/ Used(c, FALSE)
                         \/ \E op \in {"start", "stop", "use"} : Call(c, op)
                         \/ \E id \in Id : Register(c, id) \/ StartRefused(c, id)
                         \/ \E i \in DOMAIN inst : StopNamed(c, i)
    \/ \E k \in Actor : ActorMoves(k) \/ Remove(k, FALSE) \/ Settle(k, TRUE) \/ Late(k)
    \/ \E i \in DOMAIN inst :
         Ends(i) \/ Reap(i, FALSE) \/ Reap(i, TRUE) \/ Drain(i) \/ ReadLine(i) \/ Written(i, FALSE) \/ Written(i, TRUE)

Spec == Init /\ [][Next]_vars

-----------------------------------------------------------------------------
(* Properties.                                                             *)

BrowserTypeOK ==
    /\ plug.run \in {0, run.n} /\ gate \in Actor \cup {Nobody}
    /\ \A i \in DOMAIN inst : /\ inst[i].proc \in {"none", "alive", "closing", "reaped", "stuck"}
                              /\ inst[i].holder \in Actor \cup {Nobody}
    /\ \A k \in Actor : act[k].i \in 0 .. Len(inst) /\ act[k].todo \subseteq DOMAIN inst

Clean(i) == ~inst[i].dir /\ (inst[i].proc = "none" \/ (inst[i].proc = "reaped" /\ inst[i].drained))

\* "Entries leave this map only after actual process reap, protocol/I/O exit
\* and successful private-profile removal" (manager.go), and the plugin keeps
\* the manager that has them: no browser, profile or reader is forgotten, also
\* when it is stopped while it starts, from several sides and in vain.
NothingForgotten ==
    \A i \in DOMAIN inst : Clean(i) \/ (inst[i].listed /\ inst[i].run = plug.run)

\* The journal gets the output of a browser only during its own run.
OutputIsOfItsRun == \A i \in DOMAIN inst : inst[i].writing => inst[i].run = plug.run

\* The budget is of browsers that exist, not of those listed; names are unique.
BudgetIsReal ==
    LET left == {i \in DOMAIN inst : ~Clean(i)} IN
    /\ Cardinality(left) <= MaxListed
    /\ \A i, j \in left : inst[i].id = inst[j].id => i = j

\* After a Close without an error nothing is left and nothing is begun again.
ClosedIsEmpty == quiet => \A i \in DOMAIN inst : Clean(i)

\* Not for ever: a call, the end of a run or Close goes on.
Unreturned(k) == act[k].pc \notin {"idle", "asking"} \/ (act[k].pc = "asking" /\ ~plug.live)
=============================================================================
