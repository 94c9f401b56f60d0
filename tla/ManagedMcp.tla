----------------------------- MODULE ManagedMcp -----------------------------
(***************************************************************************)
(* The managed MCP servers of a native session (extension/mcp): approved   *)
(* servers whose workers are opened by the first call that needs them and  *)
(* belong to the run.  McpClient is the connection to one of them; here a  *)
(* worker is open, going, gone or cannot be ended, and its readers may     *)
(* write to the journal until it is gone.                                  *)
(***************************************************************************)
EXTENDS Naturals, Sequences

CONSTANTS
    Caller,      \* goroutines of tool calls
    Server,      \* approved servers
    MaxRun, MaxWorker, MaxFault,   \* bounds: runs, workers, failures
    Ops,         \* what happens besides: "late" (a wait is given up), "stuck" (a process cannot be killed)
    Nobody

VARIABLES
    run,      \* the kernel's: how many runs there were, and whether one is on
    plug,     \* the Plugin: runID, runCtx, closed, cleanupErr (spoilt), and whether the journal failed
    gate,     \* who holds the gate
    act,      \* what each call, OnRunEnd ("end") and Close ("close") are doing
    srv,      \* of each server: its worker (0: none) and whether it failed
    worker,   \* workers, in order of creation
    quiet,    \* history: a Close returned without an error
    faults    \* counts faults

vars == <<run, plug, gate, act, srv, worker, quiet, faults>>

Stopper == {"end", "close"}
Actor   == Caller \cup Stopper
\* Calls, stoppers and nobody differ.
McpAssumption == Nobody \notin Actor /\ Caller \cap Stopper = {}

NoAct   == [pc |-> "idle", op |-> "", run |-> 0, s |-> Nobody, w |-> 0, todo |-> {}, err |-> FALSE]

Init ==
    /\ run = [n |-> 0, on |-> FALSE] /\ gate = Nobody /\ worker = <<>> /\ quiet = FALSE /\ faults = 0
    /\ plug = [run |-> 0, live |-> FALSE, closed |-> FALSE, spoilt |-> FALSE, failed |-> FALSE]
    /\ act = [k \in Actor |-> NoAct] /\ srv = [s \in Server |-> [worker |-> 0, failed |-> FALSE]]

Fault    == faults < MaxFault /\ faults' = faults + 1
NoFault  == UNCHANGED faults
Goes(k, pc) == act' = [act EXCEPT ![k].pc = pc]
Leaves(k)   == act' = [act EXCEPT ![k] = NoAct] /\ gate' = IF gate = k THEN Nobody ELSE gate
Busy     == {c \in Caller : act[c].pc # "idle"}

\* journal.append: a failure is for good.
Appended == ~plug.failed /\ NoFault /\ UNCHANGED plug
AppendFails == \/ plug.failed /\ NoFault /\ UNCHANGED plug
               \/ ~plug.failed /\ Fault /\ plug' = [plug EXCEPT !.failed = TRUE]

-----------------------------------------------------------------------------
\* Runs, and the two callers of stop.
OnRunStart ==
    /\ ~run.on /\ act["end"].pc = "idle" /\ run.n < MaxRun /\ gate = Nobody
    /\ ~plug.closed /\ plug.run = 0 /\ ~plug.spoilt /\ ~plug.failed /\ \A s \in Server : srv[s].worker = 0
    /\ run' = [n |-> run.n + 1, on |-> TRUE] /\ plug' = [plug EXCEPT !.run = run.n + 1, !.live = TRUE]
    /\ UNCHANGED <<gate, act, srv, worker, quiet, faults>>
CancelRun == /\ plug.live /\ plug' = [plug EXCEPT !.live = FALSE]
             /\ UNCHANGED <<run, gate, act, srv, worker, quiet, faults>>
OnRunEnd ==
    /\ run.on /\ Busy = {} /\ run' = [run EXCEPT !.on = FALSE]
    /\ IF plug.run = run.n
         THEN /\ plug' = [plug EXCEPT !.live = FALSE]
              /\ act' = [act EXCEPT !["end"] = [NoAct EXCEPT !.pc = "gate", !.run = run.n]]
         ELSE UNCHANGED <<plug, act>>
    /\ UNCHANGED <<gate, srv, worker, quiet, faults>>
Close ==
    /\ act["close"].pc = "idle" /\ plug' = [plug EXCEPT !.closed = TRUE, !.live = FALSE]
    /\ act' = [act EXCEPT !["close"] = [NoAct EXCEPT !.pc = "gate"]]
    /\ UNCHANGED <<run, gate, srv, worker, quiet, faults>>

StopTakesGate(k) ==
    /\ k \in Stopper /\ act[k].pc = "gate" /\ gate = Nobody
    /\ IF k = "end" /\ plug.run # act[k].run THEN Leaves(k)
       ELSE gate' = k /\ act' = [act EXCEPT ![k].pc = "stopping", ![k].todo = Server]
    /\ UNCHANGED <<run, plug, srv, worker, quiet, faults>>
NothingToStop(k, s) ==
    /\ k \in Stopper /\ act[k].pc = "stopping" /\ s \in act[k].todo /\ srv[s].worker = 0
    /\ srv' = [srv EXCEPT ![s].failed = FALSE] /\ act' = [act EXCEPT ![k].todo = @ \ {s}]
    /\ UNCHANGED <<run, plug, gate, worker, quiet, faults>>
StopEnds(k) ==
    /\ k \in Stopper /\ act[k].pc = "stopping" /\ act[k].todo = {}
    /\ plug' = [plug EXCEPT !.run = 0, !.live = FALSE] /\ Leaves(k)
    /\ quiet' = (quiet \/ (k = "close" /\ ~act[k].err /\ ~plug.spoilt))
    /\ UNCHANGED <<run, srv, worker, faults>>

-----------------------------------------------------------------------------
\* Tool calls: gateway.Execute, up to the journal entry of the input.
Call(c, op, s) ==
    /\ run.on /\ act[c].pc = "idle" /\ ~plug.closed /\ plug.run = run.n
    /\ act' = [act EXCEPT ![c] = [NoAct EXCEPT !.pc = "gate", !.op = op, !.run = run.n, !.s = s]]
    /\ UNCHANGED <<run, plug, gate, srv, worker, quiet, faults>>

\* A faulty variant that relies on the look before the gate.
Bound_Before(c) == TRUE

Bound(c) == ~plug.closed /\ plug.run = act[c].run /\ plug.live
TakeGate(c) ==
    /\ c \in Caller /\ act[c].pc = "gate" /\ gate = Nobody
    /\ IF Bound(c) THEN gate' = c /\ Goes(c, "asking") ELSE Leaves(c)
    /\ UNCHANGED <<run, plug, srv, worker, quiet, faults>>
GiveUp(c) ==
    /\ c \in Caller /\ act[c].pc \in {"gate", "asking"} /\ Leaves(c)
    /\ UNCHANGED <<run, plug, srv, worker, quiet, faults>>
Authorized(c) ==
    /\ act[c].pc = "asking" /\ Goes(c, "input")
    /\ UNCHANGED <<run, plug, gate, srv, worker, quiet, faults>>

\* An entry of the gateway itself: without it all workers fail.
Enter(c) ==
    /\ act[c].pc \in {"input", "output"} /\ Appended
    /\ IF act[c].pc = "output" THEN Leaves(c)
       ELSE Goes(c, IF act[c].op = "list" THEN "output" ELSE "connecting") /\ UNCHANGED gate
    /\ UNCHANGED <<run, srv, worker, quiet>>
EnterFails(c) ==
    /\ act[c].pc \in {"input", "output"} /\ AppendFails
    /\ act' = [act EXCEPT ![c].pc = "failing", ![c].todo = Server]
    /\ UNCHANGED <<run, gate, srv, worker, quiet>>
FailIdle(c, s) ==
    /\ act[c].pc = "failing" /\ s \in act[c].todo /\ srv[s].worker = 0
    /\ srv' = [srv EXCEPT ![s].failed = TRUE] /\ act' = [act EXCEPT ![c].todo = @ \ {s}]
    /\ UNCHANGED <<run, plug, gate, worker, quiet, faults>>
Failed(c) ==
    /\ act[c].pc = "failing" /\ act[c].todo = {} /\ Leaves(c)
    /\ UNCHANGED <<run, plug, srv, worker, quiet, faults>>

-----------------------------------------------------------------------------
\* connect: a server that failed is not opened again, nor one whose worker is lost.
\* A faulty variant that tries again.
Refuses_Never(s) == FALSE

Refuses(s) == srv[s].failed \/ (srv[s].worker # 0 /\ worker[srv[s].worker].proc # "up")
Refused(c) ==
    /\ act[c].pc = "connecting" /\ Refuses(act[c].s)
    /\ srv' = [srv EXCEPT ![act[c].s].failed = TRUE] /\ Goes(c, "output")
    /\ UNCHANGED <<run, plug, gate, worker, quiet, faults>>
IsConnected(c) ==
    /\ act[c].pc = "connecting" /\ ~Refuses(act[c].s) /\ srv[act[c].s].worker # 0 /\ Goes(c, "using")
    /\ UNCHANGED <<run, plug, gate, srv, worker, quiet, faults>>
Open(c) ==
    /\ act[c].pc = "connecting" /\ ~Refuses(act[c].s) /\ srv[act[c].s].worker = 0 /\ Len(worker) < MaxWorker
    /\ worker' = Append(worker, [s |-> act[c].s, run |-> plug.run, proc |-> "up", owned |-> FALSE, unheard |-> FALSE])
    /\ act' = [act EXCEPT ![c].pc = "opening", ![c].w = Len(worker) + 1]
    /\ UNCHANGED <<run, plug, gate, srv, quiet, faults>>
Opened(c) ==
    /\ act[c].pc = "opening" /\ worker[act[c].w].proc = "up"
    /\ worker' = [worker EXCEPT ![act[c].w].owned = TRUE]
    /\ srv' = [srv EXCEPT ![act[c].s].worker = act[c].w] /\ Goes(c, "listing")
    /\ UNCHANGED <<run, plug, gate, quiet, faults>>

\* The transport is closed: a worker that did not come up, by Open itself; one
\* whose tools could not be listed, by connect; all, by a stopper or failWorkers.
Down(w) == [worker EXCEPT ![w].proc = IF @ = "up" THEN "going" ELSE @]
OpenFails(c) ==
    /\ act[c].pc \in {"opening", "listing"}
    /\ worker' = Down(act[c].w) /\ Goes(c, IF act[c].pc = "opening" THEN "unopened" ELSE "unlisted")
    /\ UNCHANGED <<run, plug, gate, srv, quiet, faults>>
Unopened(c) ==
    /\ act[c].pc = "unopened" /\ (worker[act[c].w].proc \in {"gone", "stuck"} \/ "late" \in Ops)
    /\ srv' = [srv EXCEPT ![act[c].s].failed = TRUE] /\ Goes(c, "noting")
    /\ UNCHANGED <<run, plug, gate, worker, quiet, faults>>
Listed(c) ==
    /\ act[c].pc = "listing" /\ worker[act[c].w].proc = "up" /\ Goes(c, "noting")
    /\ UNCHANGED <<run, plug, gate, srv, worker, quiet, faults>>
CloseOne(k, s) ==
    /\ act[k].pc \in {"stopping", "failing"} /\ s \in act[k].todo /\ srv[s].worker # 0
    /\ worker' = Down(srv[s].worker)
    /\ act' = [act EXCEPT ![k].pc = IF k \in Stopper THEN "closing" ELSE "failing one",
                          ![k].s = s, ![k].w = srv[s].worker, ![k].todo = @ \ {s}]
    /\ UNCHANGED <<run, plug, gate, srv, quiet, faults>>

Closing == {"closing", "failing one", "unlisted"}
Then(k, err) == act' = [act EXCEPT ![k].err = @ \/ err,
                                   ![k].pc = CASE @ = "closing" -> "stopping" [] @ = "failing one" -> "failing"
                                               [] OTHER -> "noting"]

\* A faulty variant that goes by the end of the process alone.
IsClean_Reaped(w) == worker[w].proc \in {"going", "gone"}

\* workerClean.  The error of Close, that the journal missed something, is
\* kept for every later stop; a stopper notes the end in the journal, or cannot.
IsClean(w) == worker[w].proc = "gone"
Closed(k, err) ==
    /\ act[k].pc \in Closing /\ IsClean(act[k].w)
    /\ IF err THEN worker[act[k].w].unheard \/ "late" \in Ops ELSE ~worker[act[k].w].unheard
    /\ k \in Stopper => ~plug.failed
    /\ srv' = [srv EXCEPT ![act[k].s] = [worker |-> 0, failed |-> k \notin Stopper]] /\ Then(k, err)
    /\ plug' = [plug EXCEPT !.spoilt = @ \/ err] /\ NoFault
    /\ UNCHANGED <<run, gate, worker, quiet>>
ClosedUnnoted(k) ==
    /\ k \in Stopper /\ act[k].pc = "closing" /\ IsClean(act[k].w)
    /\ IF plug.failed THEN NoFault ELSE Fault
    /\ srv' = [srv EXCEPT ![act[k].s] = [worker |-> 0, failed |-> FALSE]] /\ Then(k, TRUE)
    /\ plug' = [plug EXCEPT !.spoilt = TRUE, !.failed = TRUE]
    /\ UNCHANGED <<run, gate, worker, quiet>>
NotClosed(k) ==
    /\ act[k].pc \in Closing /\ (worker[act[k].w].proc = "stuck" \/ "late" \in Ops)
    /\ srv' = [srv EXCEPT ![act[k].s].failed = TRUE] /\ Then(k, TRUE)
    /\ UNCHANGED <<run, plug, gate, worker, quiet, faults>>

\* What became of connecting, and of a call of a tool, is noted.
Noted(c, fails) ==
    /\ act[c].pc = "noting" /\ IF fails THEN AppendFails ELSE Appended
    /\ Goes(c, IF fails \/ srv[act[c].s].failed THEN "output" ELSE "using")
    /\ UNCHANGED <<run, gate, srv, worker, quiet>>
Use(c, fails) ==
    /\ act[c].pc = "using"
    /\ IF fails THEN /\ act[c].op = "call" /\ Goes(c, "noting")
                     /\ srv' = [srv EXCEPT ![act[c].s].failed = TRUE] /\ worker' = Down(srv[act[c].s].worker)
       ELSE Goes(c, "output") /\ UNCHANGED <<srv, worker>>
    /\ UNCHANGED <<run, plug, gate, quiet, faults>>

-----------------------------------------------------------------------------
\* Workers: one fails; it ends, or cannot be ended; what it says is recorded,
\* and if it cannot be, the connection fails.
Drop(w) == /\ worker[w].proc = "up" /\ worker' = Down(w)
           /\ UNCHANGED <<run, plug, gate, act, srv, quiet, faults>>
Exit(w, stuck) ==
    /\ worker[w].proc = "going" /\ worker' = [worker EXCEPT ![w].proc = IF stuck THEN "stuck" ELSE "gone"]
    /\ IF stuck THEN "stuck" \in Ops /\ Fault ELSE NoFault
    /\ UNCHANGED <<run, plug, gate, act, srv, quiet>>
Unheard(w) ==
    /\ worker[w].proc # "gone" /\ AppendFails
    /\ worker' = [Down(w) EXCEPT ![w].unheard = TRUE]
    /\ UNCHANGED <<run, gate, act, srv, quiet>>

\* Late: a stopper does not get the gate in time.
Late(k) == /\ "late" \in Ops /\ k \in Stopper /\ act[k].pc = "gate" /\ Leaves(k)
           /\ UNCHANGED <<run, plug, srv, worker, quiet, faults>>

-----------------------------------------------------------------------------
\* An answer or an error comes at the latest when the call is cancelled.
CallMoves(c) ==
    \/ TakeGate(c) \/ (~plug.live /\ act[c].pc = "asking" /\ GiveUp(c)) \/ Enter(c) \/ EnterFails(c)
    \/ (\E s \in Server : FailIdle(c, s)) \/ Failed(c) \/ Refused(c) \/ IsConnected(c) \/ Open(c) \/ OpenFails(c)
    \/ Unopened(c) \/ Noted(c, TRUE) \/ Noted(c, FALSE) \/ Use(c, FALSE)
ActorMoves(k) ==
    \/ StopTakesGate(k) \/ (\E s \in Server : NothingToStop(k, s) \/ CloseOne(k, s)) \/ StopEnds(k)
    \/ Closed(k, TRUE) \/ Closed(k, FALSE) \/ (plug.failed /\ ClosedUnnoted(k)) \/ NotClosed(k)

Next ==
    \/ OnRunStart \/ CancelRun \/ OnRunEnd \/ Close
    \/ \E c \in Caller : \/ CallMoves(c) \/ GiveUp(c) \/ Authorized(c) \/ Opened(c) \/ Listed(c) \/ Use(c, TRUE)
                         \/ \E s \in Server, op \in {"list", "search", "call"} : Call(c, op, s)
    \/ \E k \in Actor : ActorMoves(k) \/ ClosedUnnoted(k) \/ Late(k)
    \/ \E w \in DOMAIN worker : Drop(w) \/ Exit(w, FALSE) \/ Exit(w, TRUE) \/ Unheard(w)

Spec == Init /\ [][Next]_vars

-----------------------------------------------------------------------------
(* Properties.  A worker is owned when Open has returned it.               *)

McpTypeOK ==
    /\ plug.run \in {0, run.n} /\ gate \in Actor \cup {Nobody}
    /\ \A w \in DOMAIN worker : worker[w].proc \in {"up", "going", "gone", "stuck"}
    /\ \A s \in Server : srv[s].worker \in 0 .. Len(worker)
    /\ \A k \in Actor : act[k].w \in 0 .. Len(worker) /\ act[k].todo \subseteq Server

Left(w) == worker[w].owned /\ worker[w].proc # "gone"

\* "Physically" (boundary_test.go): a worker is let go only when it and its
\* readers are gone, whatever failed and however often closing was tried.
NothingForgotten == \A w \in DOMAIN worker : Left(w) => srv[worker[w].s].worker = w

\* "No automatic reconnect/replay": a server is started once in a run, also if
\* it did not come up, was lost or failed a call.
NoReconnect ==
    \A v, w \in DOMAIN worker : worker[v].s = worker[w].s /\ worker[v].run = worker[w].run => v = w

\* Nothing of an earlier run gets into the journal while another one is on.
RecordsAreOfTheRun == \A w \in DOMAIN worker : Left(w) /\ plug.run # 0 => worker[w].run = plug.run

\* A Close without an error leaves no worker and no call that could start one,
\* and hides no entry that the journal missed, whoever had closed the worker.
ClosedIsEmpty ==
    quiet => /\ \A w \in DOMAIN worker : ~Left(w) /\ ~(worker[w].owned /\ worker[w].unheard)
             /\ \A c \in Caller : act[c].pc \in {"idle", "gate"}

\* Not for ever: a call, the end of a run or Close goes on.
Unreturned(k) == act[k].pc \notin {"idle", "asking"} \/ (act[k].pc = "asking" /\ ~plug.live)
=============================================================================
