----------------------------- MODULE ModelCall -----------------------------
(***************************************************************************)
(* One model invocation of sdk/kernel/core/model_invoke.go: a middleware   *)
(* wrapper calls `next` to make attempts, at the same time or after it     *)
(* returned as it pleases; each attempt streams chunks through a callback  *)
(* that the provider may still call after its Stream returned.  An attempt *)
(* publishes its chunks as the output of the invocation, or the wrapper    *)
(* keeps them in a buffer of its own.                                      *)
(***************************************************************************)
EXTENDS Naturals

CONSTANTS Calls,        \* the calls of next the wrapper makes
          MaxChunks     \* bound: callbacks per attempt

VARIABLES
  inv,      \* [active, published, failure]: modelInvocation
  lease,    \* [open, active]: the wrapper's lease on next
  wrapper,  \* [pc, err]: "running", "leaving", "returned"
  call,     \* [Calls -> [pc, private, err]]
  cb,       \* [Calls -> [pc, open, err, n]]: the callback lease of the attempt
  result,   \* "none", "ok" or "err"
  shown,    \* history: attempts with a chunk in the output
  failed,   \* history: attempts that ended with an error
  late,     \* history: a chunk reached the output after its attempt ended
  overlap   \* history: next was called while a call of it ran

vars == <<inv, lease, wrapper, call, cb, result, shown, failed, late, overlap>>

Init ==
  /\ inv = [active |-> FALSE, published |-> FALSE, failure |-> FALSE]
  /\ lease = [open |-> TRUE, active |-> 0]
  /\ wrapper = [pc |-> "running", err |-> FALSE]
  /\ call = [c \in Calls |-> [pc |-> "idle", private |-> FALSE, err |-> FALSE]]
  /\ cb = [c \in Calls |-> [pc |-> "none", open |-> FALSE, err |-> FALSE, n |-> 0]]
  /\ result = "none"
  /\ shown = {} /\ failed = {} /\ late = FALSE /\ overlap = FALSE

\* guardedNext: the lease of the wrapper.
NextCall_Lenient(c, private) ==
  /\ call[c].pc = "idle"
  /\ overlap' = (overlap \/ (lease.open /\ lease.active > 0))
  /\ IF ~lease.open \/ lease.active > 0
     THEN /\ call' = [call EXCEPT ![c] = [@ EXCEPT !.pc = "done", !.err = TRUE]]
          /\ UNCHANGED <<lease, inv>>
     ELSE /\ lease' = [lease EXCEPT !.active = @ + 1]
          /\ call' = [call EXCEPT ![c] = [@ EXCEPT !.pc = "admitted", !.private = private]]
          /\ UNCHANGED inv
  /\ UNCHANGED <<wrapper, cb, result, shown, failed, late>>
NextCall(c, private) ==
  /\ call[c].pc = "idle"
  /\ overlap' = (overlap \/ (lease.open /\ lease.active > 0))
  /\ IF ~lease.open \/ lease.active > 0
     THEN /\ inv' = [inv EXCEPT !.failure = @ \/ lease.open]
          /\ call' = [call EXCEPT ![c] = [@ EXCEPT !.pc = "done", !.err = TRUE]]
          /\ UNCHANGED lease
     ELSE /\ lease' = [lease EXCEPT !.active = @ + 1]
          /\ call' = [call EXCEPT ![c] = [@ EXCEPT !.pc = "admitted", !.private = private]]
          /\ UNCHANGED inv
  /\ UNCHANGED <<wrapper, cb, result, shown, failed, late>>

Step(c, pc, err) == call' = [call EXCEPT ![c] = [@ EXCEPT !.pc = pc, !.err = err]]

\* The head of the inner next: one attempt at a time, none after a failure.
Enter(c) ==
  /\ call[c].pc = "admitted"
  /\ IF inv.active \/ inv.failure
     THEN /\ inv' = [inv EXCEPT !.failure = TRUE]
          /\ Step(c, "leaving", TRUE)
     ELSE /\ inv' = [inv EXCEPT !.active = TRUE]
          /\ Step(c, "checking", FALSE)
  /\ UNCHANGED <<lease, wrapper, cb, result, shown, failed, late, overlap>>

\* A cancelled context, an invalid request or an admission hook stops it.
Reject(c) ==
  /\ call[c].pc = "checking"
  /\ Step(c, "ending", TRUE)
  /\ UNCHANGED <<inv, lease, wrapper, cb, result, shown, failed, late, overlap>>

Stream(c) ==
  /\ call[c].pc = "checking"
  /\ Step(c, "streaming", FALSE)
  /\ cb' = [cb EXCEPT ![c].open = TRUE]
  /\ UNCHANGED <<inv, lease, wrapper, result, shown, failed, late, overlap>>

\* The callback takes callbackMu; a closed lease and an earlier error refuse.
Callback(c) ==
  /\ cb[c].pc = "none" /\ cb[c].n < MaxChunks
  /\ cb[c].open /\ ~cb[c].err
  /\ cb' = [cb EXCEPT ![c].pc = "emit", ![c].n = @ + 1]
  /\ UNCHANGED <<inv, lease, wrapper, call, result, shown, failed, late, overlap>>

\* publish: refused after a failure, otherwise nothing can take it back.
Publish(c) ==
  /\ cb[c].pc = "emit"
  /\ IF call[c].private THEN cb' = [cb EXCEPT ![c].pc = "none"] /\ UNCHANGED inv
     ELSE IF inv.failure
     THEN cb' = [cb EXCEPT ![c] = [@ EXCEPT !.pc = "none", !.err = TRUE]] /\ UNCHANGED inv
     ELSE /\ cb' = [cb EXCEPT ![c].pc = "deliver"]
          /\ inv' = [inv EXCEPT !.published = TRUE]
  /\ UNCHANGED <<lease, wrapper, call, result, shown, failed, late, overlap>>

Deliver(c, err) ==
  /\ cb[c].pc = "deliver"
  /\ cb' = [cb EXCEPT ![c] = [@ EXCEPT !.pc = "none", !.err = err]]
  /\ shown' = shown \cup {c}
  /\ late' = (late \/ call[c].pc \notin {"streaming", "joining"})
  /\ UNCHANGED <<inv, lease, wrapper, call, result, failed, overlap>>

StreamReturns(c, err) ==
  /\ call[c].pc = "streaming"
  /\ Step(c, "joining", err)
  /\ UNCHANGED <<inv, lease, wrapper, cb, result, shown, failed, late, overlap>>

\* Under callbackMu: no callback of this attempt gets through from here on,
\* and an error of one that the provider ignored is the attempt's.
CloseCallback(c) ==
  /\ call[c].pc = "joining" /\ cb[c].pc = "none"
  /\ cb' = [cb EXCEPT ![c].open = FALSE]
  /\ Step(c, "ending", call[c].err \/ cb[c].err)
  /\ failed' = IF call[c].err \/ cb[c].err THEN failed \cup {c} ELSE failed
  /\ UNCHANGED <<inv, lease, wrapper, result, shown, late, overlap>>

EndAttempt(c) ==
  /\ call[c].pc = "ending"
  /\ inv' = [inv EXCEPT !.active = FALSE,
                        !.failure = @ \/ (call[c].err /\ inv.published)]
  /\ Step(c, "leaving", call[c].err)
  /\ UNCHANGED <<lease, wrapper, cb, result, shown, failed, late, overlap>>

\* guardedNext again: retainPublishedFailure, and the lease given back.
LeaveNext(c) ==
  /\ call[c].pc = "leaving"
  /\ inv' = [inv EXCEPT !.failure = @ \/ (call[c].err /\ inv.published)]
  /\ lease' = [lease EXCEPT !.active = @ - 1]
  /\ Step(c, "done", call[c].err)
  /\ UNCHANGED <<wrapper, cb, result, shown, failed, late, overlap>>

\* The wrapper publishes what it buffered.
Replay ==
  /\ wrapper.pc = "running" /\ ~inv.failure /\ ~inv.published
  /\ inv' = [inv EXCEPT !.published = TRUE]
  /\ UNCHANGED <<lease, wrapper, call, cb, result, shown, failed, late, overlap>>

WrapperReturns(err) ==
  /\ wrapper.pc = "running"
  /\ wrapper' = [pc |-> "leaving", err |-> err]
  /\ lease' = [lease EXCEPT !.open = FALSE]
  /\ UNCHANGED <<inv, call, cb, result, shown, failed, late, overlap>>

WrapperLeft ==
  /\ wrapper.pc = "leaving" /\ lease.active = 0
  /\ wrapper' = [wrapper EXCEPT !.pc = "returned"]
  /\ LET failure == inv.failure \/ (wrapper.err /\ inv.published) IN
     /\ inv' = [inv EXCEPT !.failure = failure]
     /\ result' = IF wrapper.err \/ failure THEN "err" ELSE "ok"
  /\ UNCHANGED <<lease, call, cb, shown, failed, late, overlap>>

Next ==
  \/ \E c \in Calls : \/ \E private \in BOOLEAN : NextCall(c, private)
                      \/ Enter(c) \/ Reject(c) \/ Stream(c)
                      \/ Callback(c) \/ Publish(c) \/ CloseCallback(c)
                      \/ EndAttempt(c) \/ LeaveNext(c)
                      \/ \E err \in BOOLEAN : Deliver(c, err) \/ StreamReturns(c, err)
  \/ Replay \/ WrapperLeft
  \/ \E err \in BOOLEAN : WrapperReturns(err)

Spec == Init /\ [][Next]_vars

\* Fairness is of these: providers, emits and wrappers return; nobody has to
\* call next or a callback.
WrapperMoves == WrapperLeft \/ \E err \in BOOLEAN : WrapperReturns(err)
AttemptMoves(c) == Enter(c) \/ Reject(c) \/ Stream(c) \/ EndAttempt(c) \/ LeaveNext(c)
StreamEnds(c) == \E err \in BOOLEAN : StreamReturns(c, err)
CallbackMoves(c) == Publish(c) \/ CloseCallback(c) \/ \E err \in BOOLEAN : Deliver(c, err)

-----------------------------------------------------------------------------

ModelCallTypeOK ==
  /\ lease.active = IF \E c \in Calls : call[c].pc \notin {"idle", "done"} THEN 1 ELSE 0
  /\ \A c, d \in Calls : call[c].pc \in {"idle", "done"} \/ call[d].pc \in {"idle", "done"} \/ c = d
  /\ inv.active => \E c \in Calls : call[c].pc \in {"checking", "streaming", "joining", "ending"}
  /\ wrapper.pc = "running" <=> lease.open
  /\ result # "none" <=> wrapper.pc = "returned"

\* An invocation that succeeded shows no chunk of an attempt that failed: a
\* published failure cannot be retried into a success, whatever the wrapper
\* returns.
NoPatchedSuccess == result = "ok" => shown \cap failed = {}

\* A callback that comes after its attempt ended reaches no output, in
\* particular not that of a later attempt.
NoLateChunk == ~late

\* A wrapper that called next while a call of it ran has not succeeded.
OneAttemptAtATime == overlap /\ result # "none" => result = "err"

\* The caller has its result only after every attempt is over.
ResultIsFinal ==
  result # "none" =>
    \A c \in Calls : call[c].pc \in {"idle", "done"} /\ cb[c].pc = "none"

\* Not for ever: the invocation returns, also when attempts outlive their wrapper.
Unreturned == result = "none"
=============================================================================
