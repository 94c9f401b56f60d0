---------------------------- MODULE GraphChannel ----------------------------
(***************************************************************************)
(* The versioned state channels of sdk/agent/graph/channel.go: LastValue,  *)
(* EphemeralValue, which a Reset empties, and BinaryOperatorAggregate,     *)
(* which reduces every value into the one it holds.  Update computes the   *)
(* next value outside the lock readers take; updateMu orders the updates.  *)
(***************************************************************************)
EXTENDS Naturals, FiniteSets

CONSTANTS Writers,
          Kind,       \* "last", "ephemeral" or "aggregate"
          Values,     \* sets of marks; the aggregate's reducer is union
          Absent,
          MaxCalls    \* bound: calls of Update and Reset by each writer

\* Nobody is none of the writers.
ChannelAssumption == Absent \notin Writers

VARIABLES
  channel,  \* [value, present, version]
  holder,   \* the writer that holds updateMu, or Absent
  w,        \* [Writers -> [pc, arg, next, changed, seen]]
  calls,    \* [Writers -> calls made]
  reduced,  \* history: the values the aggregate was given since it was made
  moves     \* history: how often the value a reader can get has changed

vars == <<channel, holder, w, calls, reduced, moves>>

Rest == [pc |-> "idle", arg |-> {}, next |-> {}, changed |-> FALSE]

Init ==
  /\ channel = [value |-> {}, present |-> FALSE, version |-> 0]
  /\ holder = Absent
  /\ w = [x \in Writers |-> Rest]
  /\ calls = [x \in Writers |-> 0]
  /\ reduced = {} /\ moves = 0

Call(x, v) ==
  /\ w[x].pc = "idle" /\ calls[x] < MaxCalls
  /\ calls' = [calls EXCEPT ![x] = @ + 1]
  /\ w' = [w EXCEPT ![x] = [Rest EXCEPT !.pc = "update", !.arg = v]]
  /\ UNCHANGED <<channel, holder, reduced, moves>>

\* Under updateMu: read the value, compute the next one.
Compute(x) ==
  /\ w[x].pc = "update" /\ holder = Absent
  /\ holder' = x
  /\ LET next == IF Kind = "aggregate" /\ channel.present
                 THEN channel.value \cup w[x].arg ELSE w[x].arg
     IN w' = [w EXCEPT ![x] = [@ EXCEPT !.pc = "store", !.next = next,
                 !.changed = ~channel.present \/ channel.value # next]]
  /\ UNCHANGED <<channel, calls, reduced, moves>>

\* Under the write lock as well: store it, and count the change.
Store(x) ==
  /\ w[x].pc = "store"
  /\ channel' = [value |-> w[x].next, present |-> TRUE,
                 version |-> channel.version + IF w[x].changed THEN 1 ELSE 0]
  /\ moves' = IF ~channel.present \/ channel.value # w[x].next THEN moves + 1 ELSE moves
  /\ reduced' = reduced \cup w[x].arg
  /\ holder' = Absent
  /\ w' = [w EXCEPT ![x] = Rest]
  /\ UNCHANGED calls

\* Only the ephemeral channel forgets, and its version does not count that.
Reset(x) ==
  /\ Kind = "ephemeral"
  /\ w[x].pc = "idle" /\ calls[x] < MaxCalls
  /\ holder = Absent
  /\ calls' = [calls EXCEPT ![x] = @ + 1]
  /\ channel' = [channel EXCEPT !.value = {}, !.present = FALSE]
  /\ UNCHANGED <<holder, w, reduced, moves>>

Next == \E x \in Writers : Compute(x) \/ Store(x) \/ Reset(x) \/ \E v \in Values : Call(x, v)

Spec == Init /\ [][Next]_vars

-----------------------------------------------------------------------------

\* An aggregate reduces every value it was given: updates of several
\* goroutines that read the same value do not overwrite each other.
AggregateKeepsAll == Kind = "aggregate" => channel.value = reduced

\* The version counts exactly the updates that changed what a reader gets.
VersionCountsChanges == channel.version = moves
=============================================================================
