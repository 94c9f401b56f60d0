---------------------------- MODULE MCHubRuntime ----------------------------
(***************************************************************************)
(* Small instances of HubRuntime for TLC, of which the first state chooses *)
(* one: control calls, Close, a crash and a failure of the store around    *)
(* two runs ("control"); two turns on two routes of which one is capable,  *)
(* while clients reroute ("engines"); one route whose engine reports       *)
(* anything in any order, and a failure of the store ("events"); and three *)
(* sessions that compete for two executions ("budget").                    *)
(***************************************************************************)
EXTENDS HubRuntime, TLC

CONSTANTS Scenes,       \* the scenes of a run
          r1, r2, r3,   \* the routes
          OnlyNative    \* the native session of every scene but "events"

VARIABLE scene

\* Of a scene: how many sessions there are, the routes they may have been
\* created on and those approved for automatic use, the turns and runs of a
\* session, and the store calls that may fail.
Shape ==
    [control |-> [sessions |-> 1, first |-> {r1, r2}, routes |-> {r1, r2}, turns |-> 1, runs |-> 2, faults |-> 1],
     engines |-> [sessions |-> 1, first |-> {r1}, routes |-> {r1, r2}, turns |-> 2, runs |-> 2, faults |-> 0],
     events  |-> [sessions |-> 1, first |-> {r3}, routes |-> {r3}, turns |-> 1, runs |-> 2, faults |-> 1],
     budget  |-> [sessions |-> 3, first |-> {r3}, routes |-> {r3}, turns |-> 1, runs |-> 1, faults |-> 0]]

\* Sessions that were created and configured: durable waits are on.
MCInit ==
    /\ scene \in Scenes
    /\ \E created \in SUBSET Session, first \in Shape[scene].first :
         /\ Cardinality(created) = Shape[scene].sessions
         /\ session  = [s \in Session |-> IF s \in created
                          THEN [status |-> "completed", active |-> first, turns |-> 0, attempts |-> 0]
                          ELSE [status |-> "absent", active |-> NoRoute, turns |-> 0, attempts |-> 0]]
         /\ branch   = [s \in Session |-> [r \in Route |->
                          [NoBranch EXCEPT !.exists = (s \in created /\ r = first)]]]
         /\ fallback = [s \in Session |-> IF s \in created THEN Shape[scene].routes ELSE {}]
         /\ waits    = [s \in Session |-> s \in created]
    /\ turn     = [s \in Session |-> [n \in TurnNumber |-> NoTurn]]
    /\ attempt  = [s \in Session |-> [k \in AttemptNumber |-> NoAttempt]]
    /\ run = [s \in Session |-> NoRun]
    /\ gens = [s \in Session |-> 0]
    /\ ctl = [c \in Caller |-> Idler]
    /\ process = "up"
    /\ joining = {}
    /\ faults = 0

\* All events; the least an engine can do; and those worth telling apart when
\* only the supervisor is of interest.
Reported ==
    CASE scene = "events" -> Event \ {Malformed}
      [] scene = "budget" -> {Completed("completed", 0)}
      [] OTHER ->
           {SessionStarted(OnlyNative), Error(FALSE, "startup"), Completed("completed", 0), Completed("waiting", 1)}
             \cup (IF scene = "control" THEN {ToolStart(t, "read") : t \in Tool} ELSE {})

Admits(s) ==
    \/ session[s].turns < Shape[scene].turns /\ \E r \in Shape[scene].routes : Start(s, r)
    \/ \E r \in Shape[scene].routes, n \in TurnNumber, w \in Checkpoint : ResumeWait(s, r, n, w)

EngineReports(s) ==
    \/ \E e \in Reported : Observe(s, e)
    \/ ObserveGarbage(s)
    \/ \E e \in {"none", "error", "cancelled"} : Return(s, e)

\* Clients reroute the session, or approve both routes or none.
Reroutes(s) ==
    /\ Client(s)
    /\ fallback'[s] \in {{}, Shape[scene].routes}
    /\ session'[s].active \in Shape[scene].routes
    /\ \A r \in Route : branch'[s][r].native \in {NoNative, OnlyNative}

MCNext ==
    /\ \/ \E s \in Session :
            /\ Exists(s)
            /\ \/ Admits(s) \/ OwnerStep(s) \/ EngineReports(s) \/ OwnerCancel(s)
               \/ scene = "engines" /\ Reroutes(s)
       \/ \E c \in Caller : ControlStep(c)
       \/ ProcessStep
    /\ \A s \in Session : gens'[s] <= Shape[scene].runs
    /\ faults' <= Shape[scene].faults
    /\ UNCHANGED scene

MCSpec     == MCInit /\ [][MCNext]_<<vars, scene>>
MCFairSpec == MCSpec /\ Fairness

\* Sessions are interchangeable.
Symmetry == Permutations(Session)
=============================================================================
