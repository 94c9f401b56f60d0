---------------------------- MODULE ModelStream ----------------------------
(***************************************************************************)
(* What the runtime may rely on in a model's streamed reply, whatever the  *)
(* protocol of the provider: the tool calls handed over are whole and      *)
(* distinct, the outcome agrees with them, it is announced once and only   *)
(* for a reply that really ended, and a failed reply announces nothing.    *)
(***************************************************************************)
EXTENDS Sequences, SequencesExt

CONSTANTS Ids, None

VARIABLES
  phase,   \* "open", "complete", "finished" or "failed"
  calls,   \* the tool calls handed over, in order
  reason   \* the outcome, or None

Init == phase = "open" /\ calls = <<>> /\ reason = None

HandOver ==
  /\ phase = "open"
  /\ \E new \in UNION {[1 .. n -> Ids] : n \in 0 .. 2} : calls' = calls \o new
  /\ IsInjective(calls')

Produce == HandOver /\ UNCHANGED <<phase, reason>>

Complete ==
  /\ HandOver
  /\ phase' = "complete"
  /\ reason' = IF calls' = <<>> THEN "stop" ELSE "tool_calls"

Announce == phase = "complete" /\ phase' = "finished" /\ UNCHANGED <<calls, reason>>

Fail == phase # "finished" /\ phase' = "failed" /\ UNCHANGED reason
        /\ IsPrefix(calls, calls') /\ IsInjective(calls')

Next == Produce \/ Complete \/ Announce \/ Fail
vars == <<phase, calls, reason>>
Spec == Init /\ [][Next]_vars
=============================================================================
