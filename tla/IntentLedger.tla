---------------------------- MODULE IntentLedger ----------------------------
(* What the session log of the native engine promises, whatever fails: an  *)
(* effect happens under a claim of the session, on an intent that is       *)
(* durable and has no outcome yet, and at most once; an intent has one     *)
(* outcome; whoever claims the session finds, or makes, every older intent *)
(* settled.  AgentLoop implements it.                                      *)
EXTENDS FiniteSets

CONSTANT Intent     \* identities of intents

VARIABLES
    claimed,    \* a run owns the session
    open,       \* intents without an outcome
    settled,    \* intents with one
    effects     \* intents that were acted upon

vars == <<claimed, open, settled, effects>>

Init == claimed = FALSE /\ open = {} /\ settled = {} /\ effects = {}

\* A run takes the session; what an earlier one left open is settled, not
\* acted upon again.
ClaimRun ==
    /\ ~claimed /\ claimed' = TRUE
    /\ settled' = settled \cup open /\ open' = {}
    /\ UNCHANGED effects

\* A batch of the run declares intents and records outcomes: intents are
\* never withdrawn, settled ones never opened again.
Record ==
    /\ claimed /\ settled \subseteq settled' /\ open \subseteq open' \cup settled'
    /\ open' \cap settled' = {} /\ open' \cup settled' \subseteq Intent
    /\ UNCHANGED <<claimed, effects>>

Act(i) ==
    /\ claimed /\ i \in open \ effects /\ effects' = effects \cup {i}
    /\ UNCHANGED <<claimed, open, settled>>

\* The run ends, or the process does.
Release ==
    /\ claimed /\ claimed' = FALSE
    /\ UNCHANGED <<open, settled, effects>>

Next == ClaimRun \/ Record \/ (claimed /\ \E i \in open : Act(i)) \/ Release

Spec == Init /\ [][Next]_vars
=============================================================================
