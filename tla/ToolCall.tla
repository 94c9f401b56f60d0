------------------------------ MODULE ToolCall ------------------------------
(***************************************************************************)
(* The execution of one committed tool call, executeTool of                *)
(* sdk/kernel/core/tool_execute.go: the BeforeTool hooks, nested wrappers  *)
(* that may call their `next` any number of times, at the same time, with  *)
(* a changed call or after they returned, the tool itself, and the         *)
(* AfterTool hooks.  Wrapper 1 is the outermost.                           *)
(***************************************************************************)
EXTENDS Naturals, FiniteSets

CONSTANTS Depth,        \* the number of wrappers
          MaxCalls      \* bound: calls of next by each wrapper

ToolCallAssumption == Depth \in Nat \ {0} /\ MaxCalls \in Nat

Layers == 1 .. Depth

VARIABLES
  lease,    \* [Layers -> [open, used, active, violation, failed]]
  wrapper,  \* [Layers -> [pc, err, calls]]: "idle", "running", "leaving", "returned"
  base,     \* the tool itself: "idle", "running", "ok" or "err"
  pc,       \* executeTool: "before", "wrapping", "after", "returned"
  result,   \* "none", "ok", "blocked" or "err"
  executed, \* history: how often the tool ran
  vetoed,   \* history: a BeforeTool hook refused the call
  wrong     \* history: layers whose next failed, was called twice or changed

vars == <<lease, wrapper, base, pc, result, executed, vetoed, wrong>>

Init ==
  /\ lease = [l \in Layers |-> [open |-> FALSE, used |-> FALSE, active |-> FALSE,
                                violation |-> FALSE, failed |-> FALSE]]
  /\ wrapper = [l \in Layers |-> [pc |-> "idle", err |-> FALSE, calls |-> 0]]
  /\ base = "idle"
  /\ pc = "before" /\ result = "none"
  /\ executed = 0 /\ vetoed = FALSE /\ wrong = {}

Begin(l) ==
  /\ wrapper' = [wrapper EXCEPT ![l].pc = "running"]
  /\ lease' = [lease EXCEPT ![l].open = TRUE]

\* A hook error that is only a veto becomes a result the model sees.
Before(verdict) ==
  /\ pc = "before"
  /\ vetoed' = (verdict # "pass")
  /\ CASE verdict = "pass" -> pc' = "wrapping" /\ Begin(1) /\ UNCHANGED result
       [] verdict = "veto" -> pc' = "after" /\ result' = "blocked" /\ UNCHANGED <<wrapper, lease>>
       [] verdict = "err"  -> pc' = "returned" /\ result' = "err" /\ UNCHANGED <<wrapper, lease>>
  /\ UNCHANGED <<base, executed, wrong>>

\* A call of the guarded next of wrapper l.
MayCall(l) == /\ wrapper[l].pc # "idle" /\ wrapper[l].calls < MaxCalls

RefuseLate(l) ==
  /\ MayCall(l) /\ ~lease[l].open
  /\ wrapper' = [wrapper EXCEPT ![l].calls = @ + 1]
  /\ UNCHANGED <<lease, base, pc, result, executed, vetoed, wrong>>

RefuseWrong(l, changed) ==
  /\ MayCall(l) /\ lease[l].open
  /\ lease[l].used \/ changed
  /\ wrapper' = [wrapper EXCEPT ![l].calls = @ + 1]
  /\ lease' = [lease EXCEPT ![l] = [@ EXCEPT !.used = TRUE, !.violation = TRUE]]
  /\ wrong' = wrong \cup {l}
  /\ UNCHANGED <<base, pc, result, executed, vetoed>>

\* Admitted: the next layer begins, or the tool runs, once.  The innermost next
\* has a guard of its own, which no wrapper can reach past its lease.
Admit(l) ==
  /\ MayCall(l) /\ lease[l].open /\ ~lease[l].used
  /\ IF l = Depth
     THEN /\ wrapper' = [wrapper EXCEPT ![l].calls = @ + 1]
          /\ lease' = [lease EXCEPT ![l] = [@ EXCEPT !.used = TRUE, !.active = TRUE]]
          /\ base' = "running"
          /\ executed' = executed + 1
     ELSE /\ wrapper' = [wrapper EXCEPT ![l].calls = @ + 1, ![l + 1].pc = "running"]
          /\ lease' = [lease EXCEPT ![l] = [@ EXCEPT !.used = TRUE, !.active = TRUE],
                                    ![l + 1].open = TRUE]
          /\ UNCHANGED <<base, executed>>
  /\ UNCHANGED <<pc, result, vetoed, wrong>>

\* The inner call returns to the guarded next of wrapper l, which keeps an
\* error whatever its wrapper makes of it.
Gave(l, err) ==
  /\ lease' = [lease EXCEPT ![l].active = FALSE, ![l].failed = @ \/ err]
  /\ wrong' = IF err THEN wrong \cup {l} ELSE wrong

ToolReturns(err) ==
  /\ base = "running"
  /\ base' = IF err THEN "err" ELSE "ok"
  /\ Gave(Depth, err)
  /\ UNCHANGED <<wrapper, pc, result, executed, vetoed>>

WrapperReturns(l, err) ==
  /\ wrapper[l].pc = "running"
  /\ wrapper' = [wrapper EXCEPT ![l] = [@ EXCEPT !.pc = "leaving", !.err = err]]
  /\ lease' = [lease EXCEPT ![l].open = FALSE]
  /\ UNCHANGED <<base, pc, result, executed, vetoed, wrong>>

\* It waits for the call it admitted, then joins the errors it collected.
Outcome(l) == wrapper[l].err \/ lease[l].failed \/ lease[l].violation

WrapperLeft(l) ==
  /\ wrapper[l].pc = "leaving" /\ ~lease[l].active
  /\ wrapper' = [wrapper EXCEPT ![l].pc = "returned"]
  /\ IF l > 1
     THEN Gave(l - 1, Outcome(l)) /\ UNCHANGED <<pc, result>>
     ELSE /\ pc' = IF Outcome(1) THEN "returned" ELSE "after"
          /\ result' = IF Outcome(1) THEN "err" ELSE "none"
          /\ UNCHANGED <<lease, wrong>>
  /\ UNCHANGED <<base, executed, vetoed>>

After(err) ==
  /\ pc = "after"
  /\ pc' = "returned"
  /\ result' = IF err THEN "err" ELSE IF result = "none" THEN "ok" ELSE result
  /\ UNCHANGED <<lease, wrapper, base, executed, vetoed, wrong>>

Next ==
  \/ \E verdict \in {"pass", "veto", "err"} : Before(verdict)
  \/ \E l \in Layers : \/ RefuseLate(l) \/ Admit(l) \/ WrapperLeft(l)
                       \/ \E b \in BOOLEAN : RefuseWrong(l, b) \/ WrapperReturns(l, b)
  \/ \E err \in BOOLEAN : ToolReturns(err) \/ After(err)

Spec == Init /\ [][Next]_vars

\* Fairness is of these: hooks, wrappers and the tool return; nobody has to
\* call next.
CallMoves ==
  \/ \E verdict \in {"pass", "veto", "err"} : Before(verdict)
  \/ \E err \in BOOLEAN : ToolReturns(err) \/ After(err)
WrapperMoves(l) == WrapperLeft(l) \/ \E err \in BOOLEAN : WrapperReturns(l, err)

-----------------------------------------------------------------------------

ToolCallTypeOK ==
  /\ \A l \in Layers : /\ lease[l].open <=> wrapper[l].pc = "running"
                       /\ lease[l].active => lease[l].used
                       /\ lease[l].used => wrapper[l].pc # "idle"
  /\ result = "ok" => pc = "returned"

\* A committed call has its effect at most once, whatever the wrappers do.
ToolRunsOnce == executed <= 1

\* A call that is reported as done had its whole chain succeed: no wrapper can
\* hide the failure of the tool, a second call of next or a changed call.
FailureIsKept == result = "ok" => wrong = {} /\ base # "err"

\* A vetoed call never reaches the tool.
VetoHolds == vetoed => executed = 0

\* The result is final: nothing the call started still runs.
ResultIsLast ==
  pc = "returned" => base # "running" /\ \A l \in Layers : ~lease[l].active

\* Not for ever: the call returns, also when a wrapper leaves before its next.
Unreturned == pc # "returned"
=============================================================================
