------------------------------ MODULE EventBus ------------------------------
(***************************************************************************)
(* The broadcast topic of sdk/kernel/bus/events.go.  A topic keeps the     *)
(* last RingSize events in a ring; publishers never wait for a reader, and *)
(* a reader that fell behind is told how many events it lost.  Each        *)
(* subscription has one goroutine that calls Recv.  Publish clones its     *)
(* value outside the lock, so that the topic may gain or lose its last     *)
(* subscriber between its two looks at it.                                 *)
(***************************************************************************)
EXTENDS Naturals, FiniteSets, Sequences

CONSTANTS Publishers,   \* goroutines that publish
          Readers,      \* subscriptions, each with the goroutine that reads it
          RingSize,     \* slots of the ring
          MaxEvents,    \* bound: events the topic accepts
          MaxJoins,     \* bound: subscriptions each reader opens
          Zero          \* the zero value of an empty slot

BusAssumption == IsFiniteSet(Readers) /\ RingSize \in Nat \ {0} /\ MaxEvents \in Nat

VARIABLES
  topic,    \* [ring, first, next, subscribers, changed]; changed names the channel
  pub,      \* [Publishers -> {"idle", "cloning"}]
  sub,      \* [Readers -> [open, cursor, pc, waits]]; waits is the captured channel
  log,      \* history: the accepted events, in order
  told,     \* history: [Readers -> the position a reader derives from what Recv returned]
  heard,    \* history: [Readers -> set of <<derived position, value>>]
  lagged,   \* history: [Readers -> events still in the ring that a lag skipped]
  joins     \* [Readers -> subscriptions opened]

busVars == <<topic, pub, sub, log, told, heard, lagged, joins>>

BusEvent == Publishers \X (0 .. MaxEvents - 1)

Slot(n) == n % RingSize

EmptyRing == [i \in 0 .. RingSize - 1 |-> Zero]

BusInit ==
  /\ topic = [ring |-> EmptyRing, first |-> 0, next |-> 0, subscribers |-> 0, changed |-> 0]
  /\ pub = [p \in Publishers |-> "idle"]
  /\ sub = [r \in Readers |-> [open |-> FALSE, cursor |-> 0, pc |-> "idle", waits |-> 0]]
  /\ log = <<>>
  /\ told = [r \in Readers |-> 0]
  /\ heard = [r \in Readers |-> {}]
  /\ lagged = [r \in Readers |-> 0]
  /\ joins = [r \in Readers |-> 0]

\* The first look: nobody listens, so nothing is cloned.
Publish(p) ==
  /\ pub[p] = "idle"
  /\ topic.next < MaxEvents
  /\ topic.subscribers > 0
  /\ pub' = [pub EXCEPT ![p] = "cloning"]
  /\ UNCHANGED <<topic, sub, log, told, heard, lagged, joins>>

\* The topic after it accepts v: the oldest event of a full ring is gone, and
\* closing the channel wakes everyone who captured it.
Accepted_Eager(t, v) ==
  [t EXCEPT !.ring[Slot(t.next)] = v,
            !.first = IF t.next - t.first >= RingSize THEN t.next ELSE @,
            !.next = @ + 1,
            !.changed = @ + 1]
Accepted(t, v) ==
  [t EXCEPT !.ring[Slot(t.next)] = v,
            !.first = IF t.next - t.first >= RingSize THEN @ + 1 ELSE @,
            !.next = @ + 1,
            !.changed = @ + 1]

\* The second look, under the lock again.
Store(p) ==
  /\ pub[p] = "cloning"
  /\ pub' = [pub EXCEPT ![p] = "idle"]
  /\ LET e == <<p, topic.next>> IN
     IF topic.subscribers = 0 \/ topic.next >= MaxEvents
     THEN UNCHANGED <<topic, log>>
     ELSE topic' = Accepted(topic, e) /\ log' = Append(log, e)
  /\ UNCHANGED <<sub, told, heard, lagged, joins>>

Subscribe(r) ==
  /\ ~sub[r].open /\ sub[r].pc = "idle" /\ joins[r] < MaxJoins
  /\ topic' = [topic EXCEPT !.subscribers = @ + 1]
  /\ sub' = [sub EXCEPT ![r] = [@ EXCEPT !.open = TRUE, !.cursor = topic.next]]
  /\ told' = [told EXCEPT ![r] = topic.next]
  /\ heard' = [heard EXCEPT ![r] = {}]
  /\ lagged' = [lagged EXCEPT ![r] = 0]
  /\ joins' = [joins EXCEPT ![r] = @ + 1]
  /\ UNCHANGED <<pub, log>>

\* The last subscriber takes the retained events with it.
CloseSubscription(r) ==
  /\ sub[r].open
  /\ sub' = [sub EXCEPT ![r].open = FALSE]
  /\ topic' = IF topic.subscribers = 1
              THEN [topic EXCEPT !.subscribers = 0, !.ring = EmptyRing, !.first = topic.next]
              ELSE [topic EXCEPT !.subscribers = @ - 1]
  /\ UNCHANGED <<pub, log, told, heard, lagged, joins>>

RecvCall(r) ==
  /\ sub[r].open /\ sub[r].pc = "idle"
  /\ sub' = [sub EXCEPT ![r].pc = "look"]
  /\ UNCHANGED <<topic, pub, log, told, heard, lagged, joins>>

\* One turn of Recv's loop, under both locks.
Lag(r) ==
  /\ sub[r].open
  /\ sub[r].cursor < topic.first
  /\ sub' = [sub EXCEPT ![r] = [@ EXCEPT !.cursor = topic.first, !.pc = "idle"]]
  /\ told' = [told EXCEPT ![r] = @ + (topic.first - sub[r].cursor)]
  /\ lagged' = [lagged EXCEPT ![r] =
       @ + Cardinality({n \in sub[r].cursor .. topic.first - 1 : topic.next - n <= RingSize})]
  /\ UNCHANGED heard

Take(r) ==
  /\ sub[r].open
  /\ topic.first <= sub[r].cursor /\ sub[r].cursor < topic.next
  /\ sub' = [sub EXCEPT ![r].cursor = @ + 1, ![r].pc = "idle"]
  /\ heard' = [heard EXCEPT ![r] = @ \cup {<<told[r], topic.ring[Slot(sub[r].cursor)]>>}]
  /\ told' = [told EXCEPT ![r] = @ + 1]
  /\ UNCHANGED lagged

Park_Unlocked(r) ==
  /\ sub[r].open
  /\ sub[r].cursor = topic.next
  /\ \E c \in {topic.changed, topic.changed + 1} :
       sub' = [sub EXCEPT ![r] = [@ EXCEPT !.pc = "parked", !.waits = c]]
  /\ UNCHANGED <<told, heard, lagged>>
Park(r) ==
  /\ sub[r].open
  /\ sub[r].cursor = topic.next
  /\ sub' = [sub EXCEPT ![r] = [@ EXCEPT !.pc = "parked", !.waits = topic.changed]]
  /\ UNCHANGED <<told, heard, lagged>>

Closed(r) ==
  /\ ~sub[r].open
  /\ sub' = [sub EXCEPT ![r].pc = "idle"]
  /\ UNCHANGED <<told, heard, lagged>>

Look(r) ==
  /\ sub[r].pc = "look"
  /\ Lag(r) \/ Take(r) \/ Park(r) \/ Closed(r)
  /\ UNCHANGED <<topic, pub, log, joins>>

\* The select: the captured channel was closed, or the subscription was, or
\* the caller's context ended.
Woken(r) ==
  /\ sub[r].pc = "parked"
  /\ sub[r].waits < topic.changed
  /\ sub' = [sub EXCEPT ![r].pc = "look"]
  /\ UNCHANGED <<topic, pub, log, told, heard, lagged, joins>>

Released(r) ==
  /\ sub[r].pc = "parked"
  /\ ~sub[r].open
  /\ sub' = [sub EXCEPT ![r].pc = "idle"]
  /\ UNCHANGED <<topic, pub, log, told, heard, lagged, joins>>

Cancelled(r) ==
  /\ sub[r].pc # "idle"
  /\ sub' = [sub EXCEPT ![r].pc = "idle"]
  /\ UNCHANGED <<topic, pub, log, told, heard, lagged, joins>>

BusNext ==
  \/ \E p \in Publishers : Publish(p) \/ Store(p)
  \/ \E r \in Readers : \/ Subscribe(r) \/ CloseSubscription(r) \/ RecvCall(r) \/ Look(r)
                        \/ Woken(r) \/ Released(r) \/ Cancelled(r)

BusSpec == BusInit /\ [][BusNext]_busVars

\* Fairness is weak of ReaderMoves(r) and strong of Look(r): a reader keeps
\* calling Recv, not always with a context that has ended already, and the
\* scheduler runs its goroutine; nobody has to publish, close or cancel.
ReaderMoves(r) == RecvCall(r) \/ Woken(r) \/ Released(r)

-----------------------------------------------------------------------------

BusTypeOK ==
  /\ topic.ring \in [0 .. RingSize - 1 -> BusEvent \cup {Zero}]
  /\ topic.first \in 0 .. MaxEvents /\ topic.next \in 0 .. MaxEvents
  /\ topic.first <= topic.next /\ topic.next - topic.first <= RingSize
  /\ topic.subscribers = Cardinality({r \in Readers : sub[r].open})
  /\ pub \in [Publishers -> {"idle", "cloning"}]
  /\ \A r \in Readers : sub[r].open => sub[r].cursor <= topic.next

\* What a reader derives from the events and the lags Recv returned is where
\* those events really are in the topic's order: nothing is lost without a
\* lag, counted twice, or overwritten while it is still readable.
EveryGapIsTold ==
  \A r \in Readers : \A h \in heard[r] : h[1] < Len(log) /\ log[h[1] + 1] = h[2]

\* A lag skips only what a full ring had to drop: a reader less than RingSize
\* events behind hears every one of them.
LagIsForced == \A r \in Readers : lagged[r] = 0

\* A topic nobody listens to holds no event, whatever a publisher that was
\* cloning when the last subscriber left does next.
NothingRetained ==
  topic.subscribers = 0 => topic.ring = EmptyRing /\ topic.first = topic.next

\* Not for ever: an event accepted while a subscription is open reaches its
\* reader, as a value or inside a lag, unless the subscription is closed: the
\* channel captured under the lock cannot miss the publication.
Unheard(r, k) == sub[r].open /\ sub[r].cursor <= k /\ k < topic.next

\* Not for ever: a Recv sleeps in a closed subscription.
Unwoken(r) == ~sub[r].open /\ sub[r].pc # "idle"
=============================================================================
