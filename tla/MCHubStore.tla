----------------------------- MODULE MCHubStore -----------------------------
(***************************************************************************)
(* Instances of HubStore for TLC, one of which the first state chooses:    *)
(* every input of every transaction in one turn; histories of three turns; *)
(* and chains of four attempts.  A longer history takes the transactions   *)
(* with fewer inputs: one event of each sort that the database tells       *)
(* apart, one outcome of each sort, and one native session.                *)
(***************************************************************************)
EXTENDS HubStore, TLC

CONSTANT OnlyNative   \* the native session of the longer histories

VARIABLE scene

Few ==
    {SessionStarted(OnlyNative), Error(FALSE, "startup"), Completed("completed", 0),
     Completed("failed", 0), Completed("waiting", 1)}

\* effects: the sideEffects arguments that are passed to Record.
Narrow(effects) ==
    \/ \E s \in Session :
         \/ \E r \in Route : CreateSession(s, r) \/ Switch(s, r) \/ BeginTurn(s, r)
         \/ SetFallback(s, Route) \/ SetDurableWaits(s, TRUE)
         \/ \E k \in AttemptNumber, r \in Route : BeginFallback(s, k, r)
         \/ \E k \in AttemptNumber, e \in Few, fx \in effects :
              (fx => e.kind = "error") /\ Record(s, k, e, fx)
         \/ \E n \in TurnNumber, o \in {"completed", "waiting", "interrupted"} : FinishTurn(s, n, o)
         \/ WaitStep(s)
    \/ Recover

AtMost(turns, attempts) == \A s \in Session : session'[s].turns <= turns /\ session'[s].attempts <= attempts

MCInit == StoreInit /\ scene \in {"inputs", "turns", "attempts"}

MCNext ==
    /\ \/ scene = "inputs" /\ StoreNext /\ AtMost(1, 2)
       \/ scene = "turns" /\ Narrow({FALSE}) /\ AtMost(3, 3)
       \/ scene = "attempts" /\ Narrow({FALSE, TRUE}) /\ AtMost(1, 4)
    /\ UNCHANGED scene

MCSpec == MCInit /\ [][MCNext]_<<storeVars, scene>>

\* Routes are interchangeable.
Symmetry == Permutations(Route)
=============================================================================
