-------------------------- MODULE AgentRuntimeProofs --------------------------
(***************************************************************************)
(* Proofs about what the runs of an agent share.  Permission: nothing runs *)
(* on a permission that is older than the policy, a user is asked once for *)
(* an invocation, and manager and broker keep their budgets.  EventBus:    *)
(* a reader is told of every event it misses, and misses none that the     *)
(* ring still held.  EventSink: what Emit accepted is what the consumer    *)
(* receives, and nobody sends on the closed channel.  ShellJobs: every     *)
(* process has the global lock until it is reaped, and one end.            *)
(* GraphChannel: no update of a channel is lost.  ManagedMcp: no worker is *)
(* let go before it is gone, and a server has one in a run.  BrowserRuns:  *)
(* no browser or profile is forgotten, whoever stops it and when.          *)
(*                                                                         *)
(* The invariant of Permission says of a request what it may conclude from *)
(* the revision it noted (RequestHolds), and of a decision that is kept    *)
(* which consent it goes back to (CacheHolds).  That of EventBus says what *)
(* the ring holds of the order of events (RingHolds); that of EventSink    *)
(* counts what was accepted in what was read and what is still queued      *)
(* (FlowHolds).  That of ShellJobs says of a process what its marks may be *)
(* (Fits), of a call what process it has (CallHolds), and ties the owner   *)
(* to the run of its attempt (OwnerHolds) and a cleanup to who is left to  *)
(* clean up after (CleanHolds).                                            *)
(***************************************************************************)
EXTENDS Permission, EventBus, EventSink, ShellJobs, FiniteSetTheorems, SequenceTheorems, TLAPS

Stages  == {"new", "fly", "join", "ask", "wait", "leave", "decide", "done"}
Asking  == {"ask", "wait", "leave", "decide"}
Tools   == {ToolOf[r] : r \in Request}
Modes   == Mode \cup {"ask", "none"}
Results == {"none", "allowed", "denied", "error"}
Requests == [pc : Stages, cancelled : BOOLEAN, rev : Nat, gen : Nat, joins : Request \cup {Nobody},
             reply : Seq(Answer \cup {Broken}), result : Results, asked : BOOLEAN, epoch : Nat]

Named(r) == CallOf[r] # "none"

PolicyTyped ==
    /\ policy \in [base : Modes, own : [Session -> Modes], rev : Nat, gen : [Session -> Nat], serial : Nat]
    /\ epoch \in [Session -> Nat] /\ \A s \in Session : epoch[s] = policy.rev + policy.gen[s]

StateTyped ==
    /\ cache \subseteq [session : Session, tool : Tools, allowed : BOOLEAN]
    /\ DOMAIN flights \subseteq Request /\ req \in [Request -> Requests]
    /\ broker \in [pending : SUBSET Request, closed : BOOLEAN]
    /\ consent \subseteq [request : Request, answer : Answer, epoch : Nat]

Budgets == Cardinality(broker.pending) <= Capacity /\ Cardinality(DOMAIN flights) <= MaxFlight

\* What a user said since the policy changed last.
Permits(k, s) == k.answer.allowed /\ SessionOf[k.request] = s /\ k.epoch = epoch[s]

CacheHolds == \A d \in cache : d.allowed =>
    \E k \in consent : Permits(k, d.session) /\ k.answer.scope = "session" /\ ToolOf[k.request] = d.tool

\* The revision a request noted is one the policy has had.
NotedHolds(r) ==
    /\ req[r].epoch = req[r].rev + req[r].gen
    /\ req[r].rev <= policy.rev /\ req[r].gen <= policy.gen[SessionOf[r]]

\* A flight is kept while the policy is that of its owner, and an owner that
\* still asks has one.
FlightHolds(r) ==
    /\ r \in DOMAIN flights => Named(r) /\ req[r].pc \in Asking \cup {"done"} /\ Current(r)
    /\ req[r].pc \in Asking /\ Named(r) /\ Current(r) => r \in DOMAIN flights
    /\ req[r].pc = "join" => Named(r) /\ req[r].joins \in Request /\ CallOf[req[r].joins] = CallOf[r]
    /\ r \in DOMAIN flights /\ req[r].pc = "done" /\ req[r].result = "allowed" =>
         \E k \in consent : k.request = r /\ Permits(k, SessionOf[r])

\* A request that waits is listed until it has its only reply.
ReplyHolds(r) ==
    /\ r \in broker.pending => req[r].pc \in {"wait", "leave"} /\ req[r].reply = <<>>
    /\ req[r].pc = "wait" /\ ~req[r].cancelled /\ req[r].reply = <<>> => r \in broker.pending
    /\ req[r].pc \in {"new", "fly", "join", "ask"} => req[r].reply = <<>>
    /\ req[r].pc # "done" => ~req[r].asked
    /\ req[r].reply = <<>> \/ req[r].reply = <<Broken>>
       \/ \E k \in consent : /\ k.request = r /\ req[r].reply = <<k.answer>>
                             /\ req[r].epoch <= k.epoch /\ k.epoch <= epoch[SessionOf[r]]

FlightsApart == \A o, p \in DOMAIN flights : CallOf[o] = CallOf[p] => o = p

AskedApart == \A r, o \in Request :
    (r # o /\ CallOf[r] = CallOf[o] /\ Named(r) /\ req[r].pc \in Asking /\ req[o].pc \in Asking) =>
       req[r].epoch # req[o].epoch

RequestHolds(r) == NotedHolds(r) /\ FlightHolds(r) /\ ReplyHolds(r)

PInv == /\ PolicyTyped /\ StateTyped /\ Budgets /\ CacheHolds /\ FlightsApart /\ AskedApart
        /\ \A r \in Request : RequestHolds(r)

-----------------------------------------------------------------------------
LEMMA SessionsOf == \A r \in Request : SessionOf[r] \in Session /\ ToolOf[r] \in Tools
  BY DEF Session, Tools

LEMMA InitHolds == ASSUME PermissionAssumption, Init PROVE PInv
  <1>1. NoReq \in Requests /\ \A r \in Request : req[r] = NoReq
    BY DEF Init, NoReq, Requests, Stages, Results
  <1>2. PolicyTyped
    BY DEF Init, PolicyTyped, Modes
  <1>3. StateTyped
    BY <1>1 DEF Init, StateTyped
  <1>4. DOMAIN flights = {} /\ broker.pending = {}
    BY DEF Init
  <1>5. Budgets
    BY <1>4, FS_EmptySet DEF Budgets, PermissionAssumption
  <1>6. \A r \in Request : RequestHolds(r)
    <2> SUFFICES ASSUME NEW r \in Request PROVE RequestHolds(r)
      OBVIOUS
    <2>1. /\ req[r].pc = "new" /\ req[r].rev = 0 /\ req[r].gen = 0 /\ req[r].epoch = 0 /\ req[r].reply = <<>>
          /\ req[r].asked = FALSE
      BY <1>1 DEF NoReq
    <2>2. SessionOf[r] \in Session
      BY SessionsOf
    <2>3. NotedHolds(r)
      BY <2>1, <2>2 DEF NotedHolds, Init
    <2> QED BY <1>4, <2>1, <2>3 DEF RequestHolds, FlightHolds, ReplyHolds, Asking
  <1> QED BY <1>1, <1>2, <1>3, <1>4, <1>5, <1>6 DEF PInv, CacheHolds, FlightsApart, AskedApart, Asking, NoReq, Init

-----------------------------------------------------------------------------
(* What a step of one request leaves of the others.                       *)

LEMMA Known ==
  ASSUME PInv, NEW r \in Request
  PROVE  req[r] \in Requests /\ RequestHolds(r) /\ SessionOf[r] \in Session /\ ToolOf[r] \in Tools
  BY SessionsOf DEF PInv, StateTyped

\* The same permission in the next state, whatever is added to the history.
SameEpochs == policy'.rev = policy.rev /\ policy'.gen = policy.gen /\ epoch' = epoch /\ consent \subseteq consent'

LEMMA OtherHolds ==
  ASSUME PInv, SameEpochs, NEW o \in Request, req'[o] = req[o], o \in broker'.pending <=> o \in broker.pending,
         o \in DOMAIN flights' => o \in DOMAIN flights,
         req[o].pc \in Asking /\ o \in DOMAIN flights => o \in DOMAIN flights'
  PROVE  RequestHolds(o)'
  <1>1. NotedHolds(o)'
    BY Known DEF RequestHolds, NotedHolds, SameEpochs
  <1>2. FlightHolds(o)'
    BY Known DEF RequestHolds, FlightHolds, SameEpochs, Named, Current, Permits
  <1>3. ReplyHolds(o)'
    BY Known DEF RequestHolds, ReplyHolds, SameEpochs
  <1> QED BY <1>1, <1>2, <1>3 DEF RequestHolds

LEMMA CacheStays ==
  ASSUME PInv, SameEpochs, NEW d \in cache, d.allowed
  PROVE  \E k \in consent' : Permits(k, d.session)' /\ k.answer.scope = "session" /\ ToolOf[k.request] = d.tool
  BY DEF PInv, CacheHolds, SameEpochs, Permits

\* A request may begin to ask when no other of its invocation asks under the same policy.
MayAsk(r) == \A o \in Request \ {r} :
    (CallOf[o] = CallOf[r] /\ Named(r) /\ req[o].pc \in Asking) => req[o].epoch # req[r].epoch

LEMMA StepKeeps ==
  ASSUME PInv, NEW r \in Request, NEW q \in Requests, req' = [req EXCEPT ![r] = q], SameEpochs,
         PolicyTyped', Budgets', CacheHolds', FlightsApart', RequestHolds(r)',
         cache' \subseteq [session : Session, tool : Tools, allowed : BOOLEAN],
         broker' \in [pending : SUBSET Request, closed : BOOLEAN],
         consent' \subseteq [request : Request, answer : Answer, epoch : Nat],
         DOMAIN flights' \subseteq Request,
         \A o \in Request \ {r} : /\ o \in broker'.pending <=> o \in broker.pending
                                  /\ o \in DOMAIN flights' => o \in DOMAIN flights
                                  /\ req[o].pc \in Asking /\ o \in DOMAIN flights => o \in DOMAIN flights',
         q.pc \in Asking /\ Named(r) => q.epoch = req[r].epoch /\ (req[r].pc \in Asking \/ MayAsk(r))
  PROVE  PInv'
  <1>1. req \in [Request -> Requests] /\ req' \in [Request -> Requests] /\ req'[r] = q
        /\ \A o \in Request \ {r} : req'[o] = req[o]
    BY DEF PInv, StateTyped
  <1>2. \A o \in Request : RequestHolds(o)'
    BY <1>1, OtherHolds
  <1>3. AskedApart'
    BY <1>1 DEF PInv, AskedApart, MayAsk, Named
  <1> QED BY <1>1, <1>2, <1>3 DEF PInv, StateTyped

\* The same when the request only moves on.
LEMMA QuietKeeps ==
  ASSUME PInv, NEW r \in Request, NEW q \in Requests, req' = [req EXCEPT ![r] = q],
         UNCHANGED <<policy, cache, flights, broker, consent, epoch>>, RequestHolds(r)',
         q.pc \in Asking /\ Named(r) => q.epoch = req[r].epoch /\ req[r].pc \in Asking
  PROVE  PInv'
  <1>1. SameEpochs
    BY DEF SameEpochs
  <1>2. PolicyTyped' /\ Budgets' /\ CacheHolds' /\ FlightsApart'
    BY DEF PInv, PolicyTyped, Budgets, CacheHolds, FlightsApart, Permits
  <1> QED BY <1>1, <1>2, StepKeeps DEF PInv, StateTyped

\* A request that ends without a flight or a place in the list.
LEMMA EndKeeps ==
  ASSUME PInv, NEW r \in Request, NEW q \in Requests, req' = [req EXCEPT ![r] = q],
         UNCHANGED <<policy, cache, flights, broker, consent, epoch>>,
         r \notin DOMAIN flights, r \notin broker.pending, q.pc = "done",
         q.rev = req[r].rev, q.gen = req[r].gen, q.epoch = req[r].epoch, q.reply = req[r].reply
  PROVE  PInv'
  <1>1. req'[r] = q
    BY DEF PInv, StateTyped
  <1>2. NotedHolds(r)'
    BY <1>1, Known DEF RequestHolds, NotedHolds
  <1>3. FlightHolds(r)'
    BY <1>1 DEF FlightHolds, Asking
  <1>4. ReplyHolds(r)'
    BY <1>1, Known DEF RequestHolds, ReplyHolds
  <1> QED BY <1>2, <1>3, <1>4, QuietKeeps DEF RequestHolds, Asking

LEMMA Unlisted ==
  ASSUME PInv, NEW r \in Request
  PROVE  /\ req[r].pc \in {"new", "fly", "join"} => r \notin DOMAIN flights
         /\ req[r].pc \in {"new", "fly", "join", "ask", "decide", "done"} => r \notin broker.pending
  BY Known DEF RequestHolds, FlightHolds, ReplyHolds, Asking

LEMMA ReturnKeeps ==
  ASSUME PInv, NEW r \in Request, req[r].pc \in {"new", "fly", "join"}, NEW x \in Results, NEW y \in BOOLEAN,
         req' = [req EXCEPT ![r] = [req[r] EXCEPT !.pc = "done", !.result = x, !.asked = y]],
         UNCHANGED <<policy, cache, flights, broker, consent, epoch>>
  PROVE  PInv'
  <1>1. PICK q : q = [req[r] EXCEPT !.pc = "done", !.result = x, !.asked = y]
    OBVIOUS
  <1>2. /\ q \in Requests /\ q.pc = "done" /\ q.rev = req[r].rev /\ q.gen = req[r].gen /\ q.epoch = req[r].epoch
        /\ q.reply = req[r].reply
    BY <1>1, Known DEF Requests, Stages
  <1> QED BY <1>1, <1>2, Unlisted, EndKeeps

LEMMA ReturnIs ==
  ASSUME PInv, NEW r \in Request, NEW x, Return(r, x)
  PROVE  req' = [req EXCEPT ![r] = [req[r] EXCEPT !.pc = "done", !.result = x, !.asked = req[r].asked]]
         /\ req[r].asked \in BOOLEAN
  <1>1. req \in [Request -> Requests] /\ req[r].asked \in BOOLEAN
    BY Known DEF PInv, StateTyped, Requests
  <1>2. [[req[r] EXCEPT !.pc = "done"] EXCEPT !.result = x]
          = [req[r] EXCEPT !.pc = "done", !.result = x, !.asked = req[r].asked]
    BY Known DEF Requests
  <1> QED BY <1>1, <1>2 DEF Return

LEMMA BeginKeeps == ASSUME PInv, NEW r \in Request, Begin(r) PROVE PInv'
  <1>1. req[r].pc = "new" /\ UNCHANGED <<policy, cache, flights, broker, consent, epoch>>
    BY DEF Begin
  <1>2. CASE \E x \in {"error", "denied", "allowed"} : Return(r, x)
    <2>1. PICK x \in Results : Return(r, x)
      BY <1>2 DEF Results
    <2>2. PICK y \in BOOLEAN : req' = [req EXCEPT ![r] = [req[r] EXCEPT !.pc = "done", !.result = x, !.asked = y]]
      BY <2>1, ReturnIs
    <2> QED BY <1>1, <2>2, ReturnKeeps
  <1>3. CASE \E d \in Cached(r) : req' = [req EXCEPT ![r].pc = "done", ![r].asked = TRUE,
                                     ![r].result = IF d.allowed THEN "allowed" ELSE "denied"]
    <2>1. PICK x \in Results : req' = [req EXCEPT ![r].pc = "done", ![r].asked = TRUE, ![r].result = x]
      BY <1>3 DEF Results
    <2>2. req' = [req EXCEPT ![r] = [req[r] EXCEPT !.pc = "done", !.result = x, !.asked = TRUE]]
      BY <2>1, Known DEF PInv, StateTyped, Requests
    <2> QED BY <1>1, <2>2, ReturnKeeps
  <1>4. CASE req' = [req EXCEPT ![r].pc = "fly", ![r].rev = policy.rev,
                                ![r].gen = policy.gen[SessionOf[r]], ![r].epoch = epoch[SessionOf[r]]]
    <2>1. PICK q : q = [req[r] EXCEPT !.pc = "fly", !.rev = policy.rev, !.gen = policy.gen[SessionOf[r]],
                                      !.epoch = epoch[SessionOf[r]]]
      OBVIOUS
    <2>2. /\ policy.rev \in Nat /\ policy.gen[SessionOf[r]] \in Nat /\ epoch[SessionOf[r]] \in Nat
          /\ epoch[SessionOf[r]] = policy.rev + policy.gen[SessionOf[r]]
      BY Known DEF PInv, PolicyTyped
    <2>3. /\ q \in Requests /\ q.pc = "fly" /\ q.rev = policy.rev /\ q.gen = policy.gen[SessionOf[r]]
          /\ q.epoch = epoch[SessionOf[r]] /\ q.reply = req[r].reply /\ q.asked = req[r].asked
      BY <2>1, <2>2, Known DEF Requests, Stages
    <2>4. req' = [req EXCEPT ![r] = q] /\ req'[r] = q
      BY <1>4, <2>1, Known DEF PInv, StateTyped, Requests
    <2>5. NotedHolds(r)'
      BY <1>1, <2>2, <2>3, <2>4 DEF NotedHolds
    <2>6. FlightHolds(r)'
      BY <1>1, <2>3, <2>4, Unlisted DEF FlightHolds, Asking
    <2>7. ReplyHolds(r)'
      BY <1>1, <2>3, <2>4, Known, Unlisted DEF RequestHolds, ReplyHolds
    <2> QED BY <1>1, <2>3, <2>4, <2>5, <2>6, <2>7, QuietKeeps DEF RequestHolds, Asking
  <1> QED BY <1>2, <1>3, <1>4 DEF Begin

LEMMA JoinedKeeps == ASSUME PInv, NEW r \in Request, Joined(r) PROVE PInv'
  <1>1. req[r].pc = "join" /\ UNCHANGED <<policy, cache, flights, broker, consent, epoch>>
    BY DEF Joined
  <1>2. CASE \E x \in {"error", "denied"} : Return(r, x)
    <2>1. PICK x \in Results : Return(r, x)
      BY <1>2 DEF Results
    <2>2. PICK y \in BOOLEAN : req' = [req EXCEPT ![r] = [req[r] EXCEPT !.pc = "done", !.result = x, !.asked = y]]
      BY <2>1, ReturnIs
    <2> QED BY <1>1, <2>2, ReturnKeeps
  <1>3. CASE req' = [req EXCEPT ![r].pc = "done", ![r].asked = TRUE, ![r].result = req[req[r].joins].result]
    <2>1. req[r].joins \in Request
      BY <1>1, Known DEF RequestHolds, FlightHolds
    <2>2. PICK x \in Results : x = req[req[r].joins].result
      BY <2>1, Known DEF Requests
    <2>3. req' = [req EXCEPT ![r] = [req[r] EXCEPT !.pc = "done", !.result = x, !.asked = TRUE]]
      BY <1>3, <2>2, Known DEF PInv, StateTyped, Requests
    <2> QED BY <1>1, <2>3, ReturnKeeps
  <1> QED BY <1>2, <1>3 DEF Joined

LEMMA WakeKeeps == ASSUME PInv, NEW r \in Request, Wake(r) PROVE PInv'
  <1>1. PICK q : q = [req[r] EXCEPT !.pc = "leave"]
    OBVIOUS
  <1>2. /\ q \in Requests /\ q.pc = "leave" /\ q.rev = req[r].rev /\ q.gen = req[r].gen /\ q.epoch = req[r].epoch
        /\ q.reply = req[r].reply /\ q.asked = req[r].asked
    BY <1>1, Known DEF Requests, Stages
  <1>3. /\ req' = [req EXCEPT ![r] = q] /\ req'[r] = q /\ req[r].pc = "wait"
        /\ UNCHANGED <<policy, cache, flights, broker, consent, epoch>>
    BY <1>1, Known DEF Wake, PInv, StateTyped
  <1>4. NotedHolds(r)'
    BY <1>2, <1>3, Known DEF RequestHolds, NotedHolds
  <1>5. FlightHolds(r)'
    BY <1>2, <1>3, Known DEF RequestHolds, FlightHolds, Asking, Current, Named
  <1>6. ReplyHolds(r)'
    BY <1>2, <1>3, Known DEF RequestHolds, ReplyHolds
  <1> QED BY <1>2, <1>3, <1>4, <1>5, <1>6, QuietKeeps DEF RequestHolds, Asking

LEMMA CancelKeeps == ASSUME PInv, NEW r \in Request, Cancel(r) PROVE PInv'
  <1>1. PICK q : q = [req[r] EXCEPT !.cancelled = TRUE]
    OBVIOUS
  <1>2. /\ q \in Requests /\ q.pc = req[r].pc /\ q.rev = req[r].rev /\ q.gen = req[r].gen /\ q.epoch = req[r].epoch
        /\ q.reply = req[r].reply /\ q.asked = req[r].asked /\ q.joins = req[r].joins /\ q.result = req[r].result
        /\ q.cancelled = TRUE
    BY <1>1, Known DEF Requests
  <1>3. /\ req' = [req EXCEPT ![r] = q] /\ req'[r] = q
        /\ UNCHANGED <<policy, cache, flights, broker, consent, epoch>>
    BY <1>1, Known DEF Cancel, PInv, StateTyped
  <1>4. NotedHolds(r)'
    BY <1>2, <1>3, Known DEF RequestHolds, NotedHolds
  <1>5. CallOf[req'[r].joins] = CallOf[req[r].joins]
    BY <1>2, <1>3
  <1>6. FlightHolds(r)'
    BY <1>2, <1>3, <1>5, Known DEF RequestHolds, FlightHolds, Current, Named, Permits
  <1>7. ReplyHolds(r)'
    BY <1>2, <1>3, Known DEF RequestHolds, ReplyHolds
  <1> QED BY <1>2, <1>3, <1>4, <1>6, <1>7, QuietKeeps DEF RequestHolds

-----------------------------------------------------------------------------
(* Asking, and the broker.                                                 *)

LEMMA AskingHolds ==
  ASSUME PInv, NEW r \in Request, NEW q \in Requests, req' = [req EXCEPT ![r] = q], SameEpochs, UNCHANGED flights,
         req[r].pc \in Asking, q.pc \in Asking, q.rev = req[r].rev, q.gen = req[r].gen, q.epoch = req[r].epoch
  PROVE  req'[r] = q /\ NotedHolds(r)' /\ FlightHolds(r)'
  <1>1. req'[r] = q
    BY DEF PInv, StateTyped
  <1>2. NotedHolds(r)'
    BY <1>1, Known DEF RequestHolds, NotedHolds, SameEpochs
  <1>3. FlightHolds(r)'
    BY <1>1, Known DEF RequestHolds, FlightHolds, Asking, Current, Named, SameEpochs
  <1> QED BY <1>1, <1>2, <1>3

\* What the broker does leaves everything else.
LEMMA BrokerKeeps ==
  ASSUME PInv, PermissionAssumption, NEW r \in Request, NEW q \in Requests, req' = [req EXCEPT ![r] = q],
         UNCHANGED <<policy, cache, flights, epoch>>, consent \subseteq consent',
         consent' \subseteq [request : Request, answer : Answer, epoch : Nat],
         broker' \in [pending : SUBSET Request, closed : BOOLEAN],
         \A o \in Request \ {r} : o \in broker'.pending <=> o \in broker.pending,
         Cardinality(broker'.pending) <= Capacity,
         req[r].pc \in Asking, q.pc \in Asking, q.rev = req[r].rev, q.gen = req[r].gen, q.epoch = req[r].epoch,
         ReplyHolds(r)'
  PROVE  PInv'
  <1>1. SameEpochs
    BY DEF SameEpochs
  <1>2. PolicyTyped' /\ FlightsApart' /\ Budgets'
    BY DEF PInv, PolicyTyped, FlightsApart, Budgets
  <1>3. CacheHolds'
    BY <1>1, CacheStays DEF CacheHolds
  <1>4. NotedHolds(r)' /\ FlightHolds(r)'
    BY <1>1, AskingHolds
  <1> QED BY <1>1, <1>2, <1>3, <1>4, StepKeeps DEF PInv, StateTyped, RequestHolds

LEMMA AskKeeps == ASSUME PInv, PermissionAssumption, NEW r \in Request, Ask(r) PROVE PInv'
  <1>1. /\ req[r].pc = "ask" /\ UNCHANGED <<policy, cache, flights, consent, epoch>>
        /\ broker \in [pending : SUBSET Request, closed : BOOLEAN]
        /\ consent \subseteq [request : Request, answer : Answer, epoch : Nat]
    BY DEF Ask, PInv, StateTyped
  <1>2. req[r].reply = <<>> /\ r \notin broker.pending /\ ~req[r].asked
    BY <1>1, Known DEF RequestHolds, ReplyHolds
  <1>3. PICK w, d : w = [req[r] EXCEPT !.pc = "wait"] /\ d = [req[r] EXCEPT !.pc = "decide"]
    OBVIOUS
  <1>4. /\ w \in Requests /\ w.pc = "wait" /\ w.rev = req[r].rev /\ w.gen = req[r].gen /\ w.epoch = req[r].epoch
        /\ w.reply = <<>> /\ ~w.asked
        /\ d \in Requests /\ d.pc = "decide" /\ d.rev = req[r].rev /\ d.gen = req[r].gen /\ d.epoch = req[r].epoch
        /\ d.reply = <<>> /\ ~d.asked
    BY <1>2, <1>3, Known DEF Requests, Stages
  <1>5. CASE req' = [req EXCEPT ![r] = w] /\ Admits /\ broker' = [broker EXCEPT !.pending = @ \cup {r}]
    <2>1. /\ broker'.pending = broker.pending \cup {r}
          /\ broker' \in [pending : SUBSET Request, closed : BOOLEAN]
      BY <1>1, <1>5
    <2>2. IsFiniteSet(broker.pending) /\ Cardinality(broker.pending) \in Nat
      BY <1>1, FS_Subset, FS_CardinalityType DEF PermissionAssumption
    <2>3. Cardinality(broker.pending \cup {r}) = Cardinality(broker.pending) + 1
      BY <1>2, <2>2, FS_AddElement
    <2>4. Cardinality(broker'.pending) <= Capacity
      BY <1>5, <2>1, <2>2, <2>3 DEF Admits, PermissionAssumption
    <2>5. req'[r] = w
      BY <1>5 DEF PInv, StateTyped
    <2>6. ReplyHolds(r)'
      BY <1>4, <2>1, <2>5 DEF ReplyHolds
    <2> QED BY <1>1, <1>4, <1>5, <2>1, <2>4, <2>6, BrokerKeeps DEF Asking
  <1>6. CASE req' = [req EXCEPT ![r] = d] /\ UNCHANGED broker
    <2>1. req'[r] = d
      BY <1>6 DEF PInv, StateTyped
    <2>2. ReplyHolds(r)'
      BY <1>2, <1>4, <1>6, <2>1 DEF ReplyHolds
    <2>3. Cardinality(broker'.pending) <= Capacity
      BY <1>6 DEF PInv, Budgets
    <2> QED BY <1>1, <1>4, <1>6, <2>2, <2>3, BrokerKeeps DEF Asking
  <1> QED BY <1>3, <1>5, <1>6 DEF Ask

\* A request that is listed no more.
LEMMA Shorter ==
  ASSUME PInv, PermissionAssumption, NEW S, S \subseteq broker.pending
  PROVE  Cardinality(S) <= Capacity
  <1>1. IsFiniteSet(broker.pending)
    BY FS_Subset DEF PInv, StateTyped, PermissionAssumption
  <1>2. Cardinality(S) <= Cardinality(broker.pending) /\ Cardinality(S) \in Nat /\ Cardinality(broker.pending) \in Nat
    BY <1>1, FS_Subset, FS_CardinalityType
  <1> QED BY <1>2 DEF PInv, Budgets, PermissionAssumption

LEMMA LeaveKeeps == ASSUME PInv, PermissionAssumption, NEW r \in Request, Leave(r) PROVE PInv'
  <1>1. /\ req[r].pc = "leave" /\ UNCHANGED <<policy, cache, flights, consent, epoch>>
        /\ broker \in [pending : SUBSET Request, closed : BOOLEAN]
        /\ consent \subseteq [request : Request, answer : Answer, epoch : Nat]
    BY DEF Leave, PInv, StateTyped
  <1>2. PICK q : q = [req[r] EXCEPT !.pc = "decide"]
    OBVIOUS
  <1>3. /\ q \in Requests /\ q.pc = "decide" /\ q.rev = req[r].rev /\ q.gen = req[r].gen /\ q.epoch = req[r].epoch
        /\ q.reply = req[r].reply /\ q.asked = req[r].asked
    BY <1>2, Known DEF Requests, Stages
  <1>4. req' = [req EXCEPT ![r] = q] /\ req'[r] = q
    BY <1>2 DEF Leave, PInv, StateTyped
  <1>5. broker'.pending = broker.pending \ {r} /\ broker' \in [pending : SUBSET Request, closed : BOOLEAN]
    BY <1>1 DEF Leave, Left
  <1>6. Cardinality(broker'.pending) <= Capacity
    BY <1>5, Shorter
  <1>7. ReplyHolds(r)'
    BY <1>1, <1>3, <1>4, <1>5, Known DEF RequestHolds, ReplyHolds
  <1> QED BY <1>1, <1>3, <1>4, <1>5, <1>6, <1>7, BrokerKeeps DEF Asking

LEMMA OneReply ==
  ASSUME NEW answer \in Answer \cup {Broken}
  PROVE  Append(<<>>, answer) = <<answer>> /\ <<answer>> \in Seq(Answer \cup {Broken}) /\ <<answer>> # <<>>
  OBVIOUS

LEMMA RespondKeeps ==
  ASSUME PInv, PermissionAssumption, NEW r \in Request, NEW answer \in Answer, Respond(r, answer)
  PROVE  PInv'
  <1>1. /\ r \in broker.pending /\ UNCHANGED <<policy, cache, flights, epoch>>
        /\ broker \in [pending : SUBSET Request, closed : BOOLEAN]
        /\ consent \subseteq [request : Request, answer : Answer, epoch : Nat]
    BY DEF Respond, PInv, StateTyped
  <1>2. req[r].pc \in {"wait", "leave"} /\ req[r].reply = <<>> /\ ~req[r].asked
    BY <1>1, Known DEF RequestHolds, ReplyHolds
  <1>3. PICK q : q = [req[r] EXCEPT !.reply = Append(req[r].reply, answer)]
    OBVIOUS
  <1>0. Append(<<>>, answer) = <<answer>> /\ <<answer>> \in Seq(Answer \cup {Broken}) /\ <<answer>> # <<>>
    BY OneReply
  <1>4. /\ q \in Requests /\ q.pc = req[r].pc /\ q.rev = req[r].rev /\ q.gen = req[r].gen /\ q.epoch = req[r].epoch
        /\ q.reply = <<answer>> /\ q.asked = req[r].asked
    <2>1. q.reply = <<answer>> /\ q = [req[r] EXCEPT !.reply = <<answer>>]
      BY <1>0, <1>2, <1>3, Known DEF Requests
    <2> QED BY <1>0, <2>1, Known DEF Requests
  <1>5. req' = [req EXCEPT ![r] = q] /\ req'[r] = q
    BY <1>3 DEF Respond, PInv, StateTyped
  <1>6. broker'.pending = broker.pending \ {r} /\ broker' \in [pending : SUBSET Request, closed : BOOLEAN]
    BY <1>1 DEF Respond, Taken
  <1>7. Cardinality(broker'.pending) <= Capacity
    BY <1>6, Shorter
  <1>8. PICK k : k = [request |-> r, answer |-> answer, epoch |-> epoch[SessionOf[r]]]
    OBVIOUS
  <1>9. /\ epoch[SessionOf[r]] \in Nat /\ req[r].epoch <= epoch[SessionOf[r]]
    <2>1. /\ policy.rev \in Nat /\ policy.gen[SessionOf[r]] \in Nat /\ epoch[SessionOf[r]] \in Nat
          /\ epoch[SessionOf[r]] = policy.rev + policy.gen[SessionOf[r]]
      BY Known DEF PInv, PolicyTyped
    <2>2. req[r].rev \in Nat /\ req[r].gen \in Nat
      BY Known DEF Requests
    <2> QED BY <2>1, <2>2, Known DEF RequestHolds, NotedHolds
  <1>10. /\ k \in [request : Request, answer : Answer, epoch : Nat] /\ consent' = consent \cup {k}
         /\ k.request = r /\ k.answer = answer /\ k.epoch = epoch[SessionOf[r]]
    BY <1>8, <1>9 DEF Respond
  <1>11. ReplyHolds(r)'
    <2>1. k \in consent' /\ req'[r].epoch <= k.epoch /\ k.epoch <= epoch'[SessionOf[r]] /\ req'[r].reply = <<k.answer>>
      BY <1>1, <1>4, <1>5, <1>9, <1>10
    <2>2. r \notin broker'.pending /\ req'[r].pc \in {"wait", "leave"} /\ req'[r].reply # <<>> /\ ~req'[r].asked
      BY <1>0, <1>2, <1>4, <1>5, <1>6
    <2> QED BY <1>10, <2>1, <2>2 DEF ReplyHolds
  <1> QED BY <1>1, <1>2, <1>4, <1>5, <1>6, <1>7, <1>10, <1>11, BrokerKeeps DEF Asking

-----------------------------------------------------------------------------
(* Flights.                                                                *)

LEMMA FewerFlights ==
  ASSUME PInv, PermissionAssumption, DOMAIN flights' \subseteq DOMAIN flights
  PROVE  Cardinality(DOMAIN flights') <= MaxFlight /\ FlightsApart' /\ DOMAIN flights' \subseteq Request
  <1>1. IsFiniteSet(DOMAIN flights) /\ IsFiniteSet(DOMAIN flights')
    BY FS_Subset DEF PInv, StateTyped, PermissionAssumption
  <1>2. /\ Cardinality(DOMAIN flights') <= Cardinality(DOMAIN flights)
        /\ Cardinality(DOMAIN flights) \in Nat /\ Cardinality(DOMAIN flights') \in Nat
    BY <1>1, FS_Subset, FS_CardinalityType
  <1>3. Cardinality(DOMAIN flights') <= MaxFlight
    BY <1>2 DEF PInv, Budgets, PermissionAssumption
  <1> QED BY <1>3 DEF PInv, FlightsApart, StateTyped

\* Equal policies are of one epoch, and the other way round for what was noted before.
LEMMA SameEpoch ==
  ASSUME PInv, NEW r \in Request
  PROVE  /\ req[r].epoch \in Nat /\ epoch[SessionOf[r]] \in Nat
         /\ req[r].epoch <= epoch[SessionOf[r]]
         /\ Current(r) <=> req[r].epoch = epoch[SessionOf[r]]
  <1>1. /\ policy.rev \in Nat /\ policy.gen[SessionOf[r]] \in Nat /\ epoch[SessionOf[r]] \in Nat
        /\ epoch[SessionOf[r]] = policy.rev + policy.gen[SessionOf[r]]
    BY Known DEF PInv, PolicyTyped
  <1>2. req[r].rev \in Nat /\ req[r].gen \in Nat /\ req[r].epoch \in Nat
    BY Known DEF Requests
  <1>3. /\ req[r].epoch = req[r].rev + req[r].gen
        /\ req[r].rev <= policy.rev /\ req[r].gen <= policy.gen[SessionOf[r]]
    BY Known DEF RequestHolds, NotedHolds
  <1> QED BY <1>1, <1>2, <1>3 DEF Current

LEMMA StartKeeps ==
  ASSUME PInv, PermissionAssumption, NEW r \in Request, req[r].pc = "fly", Named(r), Current(r),
         FlightOf(CallOf[r]) = {}, NEW kept, DOMAIN kept \subseteq DOMAIN flights, Start(r, kept),
         Cardinality(DOMAIN kept) < MaxFlight,
         \A o \in DOMAIN flights : req[o].pc \in Asking => o \in DOMAIN kept,
         UNCHANGED <<cache, broker, consent, epoch>>
  PROVE  PInv'
  <1>1. PICK q : q = [req[r] EXCEPT !.pc = "ask"]
    OBVIOUS
  <1>2. /\ q \in Requests /\ q.pc = "ask" /\ q.rev = req[r].rev /\ q.gen = req[r].gen /\ q.epoch = req[r].epoch
        /\ q.reply = req[r].reply /\ q.asked = req[r].asked
    BY <1>1, Known DEF Requests, Stages
  <1>3. req' = [req EXCEPT ![r] = q] /\ req'[r] = q
    BY <1>1 DEF Start, PInv, StateTyped
  <1>4. DOMAIN flights' = DOMAIN kept \cup {r} /\ DOMAIN flights \subseteq Request
    BY DEF Start, PInv, StateTyped
  <1>5. policy' = [policy EXCEPT !.serial = @ + 1] /\ policy'.rev = policy.rev /\ policy'.gen = policy.gen
    BY DEF Start, PInv, PolicyTyped
  <1>6. SameEpochs
    BY <1>5 DEF SameEpochs
  <1>7. PolicyTyped'
    BY <1>5 DEF PInv, PolicyTyped
  <1>8. r \notin DOMAIN flights /\ r \notin broker.pending
    BY Unlisted
  <1>9. Budgets'
    <2>1. IsFiniteSet(DOMAIN kept) /\ Cardinality(DOMAIN kept) \in Nat
      BY <1>4, FS_Subset, FS_CardinalityType DEF PermissionAssumption
    <2>2. Cardinality(DOMAIN kept \cup {r}) = Cardinality(DOMAIN kept) + 1
      BY <1>8, <2>1, FS_AddElement
    <2>3. Cardinality(DOMAIN flights') <= MaxFlight
      BY <1>4, <2>1, <2>2 DEF PermissionAssumption
    <2> QED BY <2>3 DEF PInv, Budgets
  <1>10. FlightsApart'
    BY <1>4 DEF PInv, FlightsApart, FlightOf
  <1>11. CacheHolds'
    BY <1>6, CacheStays DEF CacheHolds
  <1>12. MayAsk(r)
    <2> SUFFICES ASSUME NEW o \in Request \ {r}, CallOf[o] = CallOf[r], req[o].pc \in Asking, req[o].epoch = req[r].epoch
                 PROVE  FALSE
      BY DEF MayAsk
    <2>1. SessionOf[o] = SessionOf[r]
      BY DEF PermissionAssumption, Named
    <2>2. Current(o)
      BY <2>1, SameEpoch
    <2>3. o \in DOMAIN flights
      BY <2>2, Known DEF RequestHolds, FlightHolds, Named
    <2> QED BY <2>3 DEF FlightOf
  <1>13. NotedHolds(r)'
    BY <1>2, <1>3, <1>5, Known DEF RequestHolds, NotedHolds
  <1>14. FlightHolds(r)'
    <2>1. Current(r)'
      BY <1>2, <1>3, <1>5 DEF Current
    <2> QED BY <1>2, <1>3, <1>4, <2>1 DEF FlightHolds, Asking, Named
  <1>15. ReplyHolds(r)'
    BY <1>2, <1>3, <1>8, Known DEF RequestHolds, ReplyHolds
  <1>16. \A o \in Request \ {r} : /\ o \in broker'.pending <=> o \in broker.pending
                                  /\ o \in DOMAIN flights' => o \in DOMAIN flights
                                  /\ req[o].pc \in Asking /\ o \in DOMAIN flights => o \in DOMAIN flights'
    BY <1>4
  <1>17. /\ cache' \subseteq [session : Session, tool : Tools, allowed : BOOLEAN]
         /\ broker' \in [pending : SUBSET Request, closed : BOOLEAN]
         /\ consent' \subseteq [request : Request, answer : Answer, epoch : Nat]
         /\ DOMAIN flights' \subseteq Request
    BY <1>4 DEF PInv, StateTyped
  <1> QED BY <1>2, <1>3, <1>6, <1>7, <1>9, <1>10, <1>11, <1>12, <1>13, <1>14, <1>15, <1>16, <1>17, StepKeeps DEF RequestHolds

LEMMA FlyKeeps == ASSUME PInv, PermissionAssumption, NEW r \in Request, Fly(r) PROVE PInv'
  <1>1. req[r].pc = "fly" /\ UNCHANGED <<cache, broker, consent, epoch>>
    BY DEF Fly
  <1>2. CASE ~Named(r) /\ req' = [req EXCEPT ![r].pc = "ask"] /\ UNCHANGED <<policy, flights>>
    <2>1. PICK q : q = [req[r] EXCEPT !.pc = "ask"]
      OBVIOUS
    <2>2. /\ q \in Requests /\ q.pc = "ask" /\ q.rev = req[r].rev /\ q.gen = req[r].gen /\ q.epoch = req[r].epoch
          /\ q.reply = req[r].reply /\ q.asked = req[r].asked
      BY <2>1, Known DEF Requests, Stages
    <2>3. req' = [req EXCEPT ![r] = q] /\ req'[r] = q
      BY <1>2, <2>1 DEF PInv, StateTyped
    <2>4. NotedHolds(r)'
      BY <1>2, <2>2, <2>3, Known DEF RequestHolds, NotedHolds
    <2>5. FlightHolds(r)'
      BY <1>1, <1>2, <2>2, <2>3, Unlisted DEF FlightHolds, Named
    <2>6. ReplyHolds(r)'
      BY <1>1, <2>2, <2>3, Known DEF RequestHolds, ReplyHolds
    <2> QED BY <1>1, <1>2, <2>2, <2>3, <2>4, <2>5, <2>6, QuietKeeps DEF RequestHolds
  <1>3. CASE UNCHANGED <<policy, flights>> /\ \E x \in {"error", "denied"} : Return(r, x)
    <2>1. PICK x \in Results : Return(r, x)
      BY <1>3 DEF Results
    <2>2. PICK y \in BOOLEAN : req' = [req EXCEPT ![r] = [req[r] EXCEPT !.pc = "done", !.result = x, !.asked = y]]
      BY <2>1, ReturnIs
    <2> QED BY <1>1, <1>3, <2>2, ReturnKeeps
  <1>4. CASE Named(r) /\ Join(r) /\ UNCHANGED <<policy, flights>>
    <2>1. PICK o \in FlightOf(CallOf[r]) : req' = [req EXCEPT ![r].pc = "join", ![r].joins = o]
      BY <1>4 DEF Join
    <2>2. o \in Request /\ CallOf[o] = CallOf[r]
      BY DEF FlightOf, PInv, StateTyped
    <2>3. PICK q : q = [req[r] EXCEPT !.pc = "join", !.joins = o]
      OBVIOUS
    <2>4. /\ q \in Requests /\ q.pc = "join" /\ q.joins = o /\ q.rev = req[r].rev /\ q.gen = req[r].gen
          /\ q.epoch = req[r].epoch /\ q.reply = req[r].reply /\ q.asked = req[r].asked
      BY <2>2, <2>3, Known DEF Requests, Stages
    <2>5. req' = [req EXCEPT ![r] = q] /\ req'[r] = q
      BY <2>1, <2>3 DEF PInv, StateTyped
    <2>6. NotedHolds(r)'
      BY <1>4, <2>4, <2>5, Known DEF RequestHolds, NotedHolds
    <2>7. FlightHolds(r)'
      BY <1>1, <1>4, <2>2, <2>4, <2>5, Unlisted DEF FlightHolds, Named, Asking
    <2>8. ReplyHolds(r)'
      BY <1>1, <2>4, <2>5, Known DEF RequestHolds, ReplyHolds
    <2> QED BY <1>1, <1>4, <2>4, <2>5, <2>6, <2>7, <2>8, QuietKeeps DEF RequestHolds, Asking
  <1>5. CASE Named(r) /\ Current(r) /\ FlightOf(CallOf[r]) = {} /\ HasRoom /\ Start(r, flights)
    BY <1>1, <1>5, StartKeeps DEF HasRoom
  <1>6. CASE /\ Named(r) /\ Current(r) /\ FlightOf(CallOf[r]) = {}
             /\ \E o \in Evictable : Start(r, Without({o}))
    <2>1. PICK o \in DOMAIN flights : Complete(o) /\ Start(r, Without({o}))
      BY <1>6 DEF Evictable
    <2>2. DOMAIN Without({o}) = DOMAIN flights \ {o}
      BY DEF Without
    <2>3. Cardinality(DOMAIN flights \ {o}) < MaxFlight
      <3>1. IsFiniteSet(DOMAIN flights) /\ Cardinality(DOMAIN flights) \in Nat
        BY FS_Subset, FS_CardinalityType DEF PInv, StateTyped, PermissionAssumption
      <3>2. Cardinality(DOMAIN flights \ {o}) = Cardinality(DOMAIN flights) - 1
        BY <3>1, FS_RemoveElement
      <3> QED BY <3>1, <3>2 DEF PInv, Budgets, PermissionAssumption
    <2>4. \A p \in DOMAIN flights : req[p].pc \in Asking => p \in DOMAIN flights \ {o}
      BY <2>1 DEF Complete, Asking
    <2> QED BY <1>1, <1>6, <2>1, <2>2, <2>3, <2>4, StartKeeps
  <1> QED BY <1>2, <1>3, <1>4, <1>5, <1>6 DEF Fly, Named

-----------------------------------------------------------------------------
(* Decisions.                                                              *)

\* What an owner may take its reply for.
LEMMA ReplyIsConsent ==
  ASSUME PInv, NEW r \in Request, req[r].reply # <<>>, Head(req[r].reply) # Broken, Current(r)
  PROVE  \E k \in consent : k.request = r /\ k.answer = Head(req[r].reply) /\ k.epoch = epoch[SessionOf[r]]
  <1>1. req[r].reply # <<Broken>>
    OBVIOUS
  <1>2. PICK k \in consent : /\ k.request = r /\ req[r].reply = <<k.answer>>
                             /\ req[r].epoch <= k.epoch /\ k.epoch <= epoch[SessionOf[r]]
    BY <1>1, Known DEF RequestHolds, ReplyHolds
  <1>3. Head(req[r].reply) = k.answer
    BY <1>2
  <1>4. k.epoch \in Nat
    BY DEF PInv, StateTyped
  <1> QED BY <1>2, <1>3, <1>4, SameEpoch

\* A decision ends its request and may end its flight.
LEMMA StepDecides ==
  ASSUME PInv, PermissionAssumption, NEW r \in Request, req[r].pc = "decide", NEW q \in Requests,
         q.pc = "done", q.rev = req[r].rev, q.gen = req[r].gen, q.epoch = req[r].epoch, q.reply = req[r].reply,
         req' = [req EXCEPT ![r] = q], SameEpochs, UNCHANGED <<policy, broker, consent>>,
         CacheHolds', FlightHolds(r)', cache' \subseteq [session : Session, tool : Tools, allowed : BOOLEAN],
         DOMAIN flights' \subseteq DOMAIN flights, \A o \in DOMAIN flights \ {r} : o \in DOMAIN flights'
  PROVE  PInv'
  <1>1. req'[r] = q /\ r \notin broker.pending
    BY Unlisted DEF PInv, StateTyped
  <1>2. NotedHolds(r)'
    BY <1>1, Known DEF RequestHolds, NotedHolds
  <1>3. ReplyHolds(r)'
    BY <1>1, Known DEF RequestHolds, ReplyHolds, SameEpochs
  <1>4. PolicyTyped' /\ Budgets' /\ FlightsApart' /\ DOMAIN flights' \subseteq Request
    BY FewerFlights DEF PInv, PolicyTyped, Budgets, SameEpochs
  <1>5. /\ broker' \in [pending : SUBSET Request, closed : BOOLEAN]
        /\ consent' \subseteq [request : Request, answer : Answer, epoch : Nat]
    BY DEF PInv, StateTyped
  <1> QED BY <1>1, <1>2, <1>3, <1>4, <1>5, StepKeeps DEF RequestHolds, Asking

LEMMA DecideKeeps == ASSUME PInv, PermissionAssumption, NEW r \in Request, Decide(r) PROVE PInv'
  <1>1. PICK d : d = IF req[r].reply = <<>> \/ req[r].cancelled THEN Broken ELSE Head(req[r].reply)
    OBVIOUS
  <1>2. PICK valid \in BOOLEAN : valid = (Current(r) /\ (CallOf[r] = "none" \/ r \in DOMAIN flights))
    OBVIOUS
  <1>3. PICK clear \in BOOLEAN : clear = (valid /\ d # Broken)
    OBVIOUS
  <1>4. PICK x : x = CASE clear /\ d.allowed -> "allowed" [] valid /\ ~clear -> "error" [] OTHER -> "denied"
    OBVIOUS
  <1>5. x \in Results /\ (x = "allowed" => clear /\ d.allowed)
    BY <1>4 DEF Results
  <1>6. /\ req[r].pc = "decide" /\ UNCHANGED <<policy, broker, consent, epoch>>
        /\ cache' = IF clear /\ d.scope = "session"
                    THEN (cache \ Cached(r)) \cup {[session |-> SessionOf[r], tool |-> ToolOf[r], allowed |-> d.allowed]}
                    ELSE cache
        /\ req' = [req EXCEPT ![r].pc = "done", ![r].asked = TRUE, ![r].result = x]
        /\ flights' = IF valid /\ ~clear THEN Without({r}) ELSE flights
    BY <1>1, <1>2, <1>3, <1>4 DEF Decide
  <1>7. PICK q : q = [req[r] EXCEPT !.pc = "done", !.asked = TRUE, !.result = x]
    OBVIOUS
  <1>8. /\ q \in Requests /\ q.pc = "done" /\ q.rev = req[r].rev /\ q.gen = req[r].gen /\ q.epoch = req[r].epoch
        /\ q.reply = req[r].reply /\ q.result = x
    BY <1>5, <1>7, Known DEF Requests, Stages
  <1>9. req' = [req EXCEPT ![r] = q] /\ req'[r] = q
    BY <1>6, <1>7 DEF PInv, StateTyped
  <1>10. SameEpochs
    BY <1>6 DEF SameEpochs
  <1>11. DOMAIN flights' \subseteq DOMAIN flights /\ \A o \in DOMAIN flights \ {r} : o \in DOMAIN flights'
    BY <1>6 DEF Without
  <1>12. clear => /\ d \in Answer
                  /\ \E k \in consent : k.request = r /\ k.answer = d /\ k.epoch = epoch[SessionOf[r]]
    <2> SUFFICES ASSUME clear
                 PROVE  /\ d \in Answer
                        /\ \E k \in consent : k.request = r /\ k.answer = d /\ k.epoch = epoch[SessionOf[r]]
      OBVIOUS
    <2>1. Current(r) /\ req[r].reply # <<>> /\ d = Head(req[r].reply) /\ d # Broken
      BY <1>1, <1>2, <1>3
    <2>2. PICK k \in consent : k.request = r /\ k.answer = Head(req[r].reply) /\ k.epoch = epoch[SessionOf[r]]
      BY <2>1, ReplyIsConsent
    <2> QED BY <2>1, <2>2 DEF PInv, StateTyped
  <1>13. CASE clear
    <2>1. PICK k \in consent : k.request = r /\ k.answer = d /\ k.epoch = epoch[SessionOf[r]]
      BY <1>12, <1>13
    <2>2. d.allowed \in BOOLEAN /\ d \in Answer
      BY <1>12, <1>13 DEF Answer
    <2>3. PICK e : e = [session |-> SessionOf[r], tool |-> ToolOf[r], allowed |-> d.allowed]
      OBVIOUS
    <2>4. /\ e \in [session : Session, tool : Tools, allowed : BOOLEAN]
          /\ e.session = SessionOf[r] /\ e.tool = ToolOf[r] /\ e.allowed = d.allowed
      BY <2>2, <2>3, Known
    <2>5. cache' \subseteq cache \cup {e} /\ (e \in cache' \ cache => d.scope = "session")
      BY <1>6, <2>3
    <2>6. CacheHolds'
      <3> SUFFICES ASSUME NEW c \in cache', c.allowed
                   PROVE  \E j \in consent' : Permits(j, c.session)' /\ j.answer.scope = "session" /\ ToolOf[j.request] = c.tool
        BY DEF CacheHolds
      <3>1. CASE c \in cache
        BY <1>10, <3>1, CacheStays
      <3>2. CASE c \notin cache
        <4>1. c = e /\ d.scope = "session"
          BY <2>5, <3>2
        <4>2. Permits(k, c.session)'
          BY <1>6, <2>1, <2>4, <4>1 DEF Permits
        <4> QED BY <1>6, <2>1, <2>4, <4>1, <4>2
      <3> QED BY <3>1, <3>2
    <2>7. FlightHolds(r)'
      <3>1. r \in DOMAIN flights' => Named(r) /\ Current(r)
        BY <1>11, Known DEF RequestHolds, FlightHolds
      <3>2. Current(r)' <=> Current(r)
        BY <1>6, <1>8, <1>9 DEF Current
      <3>3. x = "allowed" => k \in consent' /\ k.request = r /\ Permits(k, SessionOf[r])'
        BY <1>5, <1>6, <2>1 DEF Permits
      <3> QED BY <1>8, <1>9, <3>1, <3>2, <3>3 DEF FlightHolds, Asking
    <2>8. cache' \subseteq [session : Session, tool : Tools, allowed : BOOLEAN]
      BY <2>4, <2>5 DEF PInv, StateTyped
    <2> QED BY <2>6, <2>7, <2>8, <1>6, <1>8, <1>9, <1>10, <1>11, StepDecides
  <1>14. CASE ~clear
    <2>1. cache' = cache
      BY <1>6, <1>14
    <2>2. CacheHolds'
      BY <1>10, <2>1, CacheStays DEF CacheHolds
    <2>3. FlightHolds(r)'
      <3>1. r \in DOMAIN flights' => Named(r) /\ Current(r)
        BY <1>11, Known DEF RequestHolds, FlightHolds
      <3>2. Current(r)' <=> Current(r)
        BY <1>6, <1>8, <1>9 DEF Current
      <3>3. x # "allowed"
        BY <1>5, <1>14
      <3> QED BY <1>8, <1>9, <3>1, <3>2, <3>3 DEF FlightHolds, Asking
    <2>4. cache' \subseteq [session : Session, tool : Tools, allowed : BOOLEAN]
      BY <2>1 DEF PInv, StateTyped
    <2> QED BY <2>2, <2>3, <2>4, <1>6, <1>8, <1>9, <1>10, <1>11, StepDecides
  <1> QED BY <1>13, <1>14

-----------------------------------------------------------------------------
(* The end of the broker, and changes of the policy.                       *)

LEMMA CloseKeeps == ASSUME PInv, PermissionAssumption, Close PROVE PInv'
  <1>1. /\ UNCHANGED <<policy, cache, flights, consent, epoch>> /\ broker'.pending = {}
        /\ broker' \in [pending : SUBSET Request, closed : BOOLEAN]
        /\ req' = [r \in Request |-> IF r \in broker.pending THEN [req[r] EXCEPT !.reply = Append(@, Broken)] ELSE req[r]]
    BY DEF Close
  <1>2. SameEpochs
    BY <1>1 DEF SameEpochs
  <1>3. ASSUME NEW r \in Request
        PROVE  /\ req'[r] \in Requests /\ req'[r].pc = req[r].pc /\ req'[r].epoch = req[r].epoch /\ RequestHolds(r)'
    <2>1. CASE r \notin broker.pending
      <3>1. req'[r] = req[r] /\ r \notin broker'.pending
        BY <1>1, <2>1
      <3> QED BY <1>1, <1>2, <2>1, <3>1, OtherHolds, Known
    <2>2. CASE r \in broker.pending
      <3>1. req[r].pc \in {"wait", "leave"} /\ req[r].reply = <<>> /\ ~req[r].asked
        BY <2>2, Known DEF RequestHolds, ReplyHolds
      <3>2. /\ Append(<<>>, Broken) = <<Broken>> /\ <<Broken>> \in Seq(Answer \cup {Broken}) /\ <<Broken>> # <<>>
        BY OneReply
      <3>3. PICK q : q = [req[r] EXCEPT !.reply = <<Broken>>]
        OBVIOUS
      <3>4. /\ q \in Requests /\ q.pc = req[r].pc /\ q.rev = req[r].rev /\ q.gen = req[r].gen
            /\ q.epoch = req[r].epoch /\ q.reply = <<Broken>> /\ q.asked = req[r].asked
        BY <3>2, <3>3, Known DEF Requests
      <3>5. req'[r] = q
        BY <1>1, <2>2, <3>1, <3>2, <3>3
      <3>6. NotedHolds(r)'
        BY <1>1, <3>4, <3>5, Known DEF RequestHolds, NotedHolds
      <3>7. FlightHolds(r)'
        BY <1>1, <3>1, <3>4, <3>5, Known DEF RequestHolds, FlightHolds, Current, Named
      <3>8. ReplyHolds(r)'
        BY <1>1, <3>1, <3>2, <3>4, <3>5 DEF ReplyHolds
      <3> QED BY <3>4, <3>5, <3>6, <3>7, <3>8 DEF RequestHolds
    <2> QED BY <2>1, <2>2
  <1>4. StateTyped'
    BY <1>1, <1>3 DEF PInv, StateTyped
  <1>5. AskedApart'
    BY <1>3 DEF PInv, AskedApart
  <1>6. CacheHolds'
    BY <1>1, <1>2, CacheStays DEF CacheHolds
  <1>7. Budgets'
    BY <1>1, Shorter DEF PInv, Budgets
  <1> QED BY <1>1, <1>3, <1>4, <1>5, <1>6, <1>7 DEF PInv, PolicyTyped, FlightsApart

\* A change moves the epochs of some sessions on, and forgets what was decided in them.
LEMMA ChangeKeeps ==
  ASSUME PInv, PermissionAssumption, NEW S \in SUBSET Session, PolicyTyped', UNCHANGED <<req, broker, consent>>,
         policy'.rev >= policy.rev, \A s \in Session : policy'.gen[s] >= policy.gen[s],
         \A s \in S : epoch'[s] = epoch[s] + 1,
         \A s \in Session \ S : epoch'[s] = epoch[s] /\ policy'.gen[s] = policy.gen[s],
         Session \ S # {} => policy'.rev = policy.rev,
         cache' \subseteq {d \in cache : d.session \notin S},
         DOMAIN flights' = {r \in DOMAIN flights : SessionOf[r] \notin S}
  PROVE  PInv'
  <1>1. /\ policy.rev \in Nat /\ policy'.rev \in Nat
        /\ \A s \in Session : /\ policy.gen[s] \in Nat /\ policy'.gen[s] \in Nat /\ epoch[s] \in Nat /\ epoch'[s] \in Nat
                              /\ epoch[s] = policy.rev + policy.gen[s] /\ epoch'[s] = policy'.rev + policy'.gen[s]
    BY DEF PInv, PolicyTyped
  <1>2. ASSUME NEW r \in Request PROVE RequestHolds(r)'
    <2>1. SessionOf[r] \in Session /\ req[r] \in Requests /\ RequestHolds(r)
      BY Known
    <2>2. req[r].rev \in Nat /\ req[r].gen \in Nat /\ req[r].epoch \in Nat
      BY <2>1 DEF Requests
    <2>3. NotedHolds(r)'
      BY <1>1, <2>1, <2>2 DEF RequestHolds, NotedHolds
    <2>4. epoch'[SessionOf[r]] >= epoch[SessionOf[r]]
      BY <1>1, <2>1
    <2>5. ReplyHolds(r)'
      <3>1. \A k \in consent : k.epoch \in Nat
        BY DEF PInv, StateTyped
      <3> QED BY <1>1, <2>1, <2>4, <3>1 DEF RequestHolds, ReplyHolds
    <2>6. CASE SessionOf[r] \in S
      <3>1. r \notin DOMAIN flights'
        BY <2>6
      <3>2. ~Current(r)'
        <4>1. req[r].epoch <= epoch[SessionOf[r]] /\ epoch'[SessionOf[r]] = epoch[SessionOf[r]] + 1
          BY <2>6, SameEpoch
        <4>2. req[r].epoch # epoch'[SessionOf[r]]
          BY <1>1, <2>1, <2>2, <4>1
        <4> QED BY <1>1, <2>1, <2>2, <4>2 DEF Current, RequestHolds, NotedHolds
      <3> QED BY <2>1, <2>3, <2>5, <3>1, <3>2 DEF RequestHolds, FlightHolds, Named
    <2>7. CASE SessionOf[r] \notin S
      <3>1. /\ epoch'[SessionOf[r]] = epoch[SessionOf[r]] /\ policy'.gen[SessionOf[r]] = policy.gen[SessionOf[r]]
            /\ policy'.rev = policy.rev
        BY <2>1, <2>7
      <3>2. Current(r)' <=> Current(r)
        BY <3>1 DEF Current
      <3>3. r \in DOMAIN flights' <=> r \in DOMAIN flights
        BY <2>7
      <3>4. \A k \in consent : Permits(k, SessionOf[r]) => Permits(k, SessionOf[r])'
        BY <3>1 DEF Permits
      <3> QED BY <2>1, <2>3, <2>5, <3>2, <3>3, <3>4 DEF RequestHolds, FlightHolds, Named
    <2> QED BY <2>6, <2>7
  <1>3. CacheHolds'
    <2> SUFFICES ASSUME NEW d \in cache', d.allowed
                 PROVE  \E k \in consent' : Permits(k, d.session)' /\ k.answer.scope = "session" /\ ToolOf[k.request] = d.tool
      BY DEF CacheHolds
    <2>1. d \in cache /\ d.session \in Session \ S
      BY DEF PInv, StateTyped
    <2>2. PICK k \in consent : Permits(k, d.session) /\ k.answer.scope = "session" /\ ToolOf[k.request] = d.tool
      BY <2>1 DEF PInv, CacheHolds
    <2> QED BY <2>1, <2>2 DEF Permits
  <1>4. StateTyped' /\ Budgets' /\ FlightsApart'
    BY FewerFlights DEF PInv, StateTyped, Budgets
  <1> QED BY <1>2, <1>3, <1>4 DEF PInv, AskedApart

LEMMA SetSessionModeKeeps ==
  ASSUME PInv, PermissionAssumption, NEW s \in Session, NEW mode \in Mode \cup {"none"}, SetSessionMode(s, mode)
  PROVE  PInv'
  <1>1. /\ policy' = [policy EXCEPT !.own[s] = mode, !.gen[s] = @ + 1] /\ epoch' = [epoch EXCEPT ![s] = @ + 1]
        /\ UNCHANGED <<req, broker, consent>> /\ cache' = Forgotten(s)
        /\ flights' = Without({r \in Request : SessionOf[r] = s})
    BY DEF SetSessionMode
  <1>5. /\ policy.rev \in Nat /\ policy.gen \in [Session -> Nat] /\ epoch \in [Session -> Nat]
        /\ policy.own \in [Session -> Modes] /\ \A t \in Session : epoch[t] = policy.rev + policy.gen[t]
    BY DEF PInv, PolicyTyped
  <1>7. PICK modes, gen : modes = [policy.own EXCEPT ![s] = mode] /\ gen = [policy.gen EXCEPT ![s] = policy.gen[s] + 1]
    OBVIOUS
  <1>8. /\ modes \in [Session -> Modes] /\ gen \in [Session -> Nat] /\ gen[s] = policy.gen[s] + 1
        /\ \A t \in Session \ {s} : gen[t] = policy.gen[t]
    BY <1>5, <1>7 DEF Modes
  <1>9. policy' = [policy EXCEPT !.own = modes, !.gen = gen]
    BY <1>1, <1>7 DEF PInv, PolicyTyped
  <1>2. /\ policy' \in [base : Modes, own : [Session -> Modes], rev : Nat, gen : [Session -> Nat], serial : Nat]
        /\ policy'.rev = policy.rev /\ policy'.gen = gen
    BY <1>8, <1>9 DEF PInv, PolicyTyped
  <1>10. /\ epoch' \in [Session -> Nat] /\ epoch'[s] = epoch[s] + 1
         /\ \A t \in Session \ {s} : epoch'[t] = epoch[t]
    BY <1>1, <1>5
  <1>3. PolicyTyped'
    <2>1. ASSUME NEW t \in Session PROVE epoch'[t] = policy'.rev + policy'.gen[t]
      <3>1. CASE t = s
        <4>1. epoch[s] \in Nat /\ policy.gen[s] \in Nat /\ epoch[s] = policy.rev + policy.gen[s]
          BY <1>5
        <4> QED BY <1>2, <1>5, <1>8, <1>10, <3>1, <4>1
      <3>2. CASE t # s
        BY <1>2, <1>5, <1>8, <1>10, <3>2
      <3> QED BY <3>1, <3>2
    <2> QED BY <1>2, <1>10, <2>1 DEF PolicyTyped
  <1>4. DOMAIN flights' = {r \in DOMAIN flights : SessionOf[r] \notin {s}}
    BY <1>1 DEF Without, PInv, StateTyped
  <1>6. /\ policy'.rev >= policy.rev /\ \A t \in Session : policy'.gen[t] >= policy.gen[t]
        /\ epoch'[s] = epoch[s] + 1
        /\ \A t \in Session \ {s} : epoch'[t] = epoch[t] /\ policy'.gen[t] = policy.gen[t]
    BY <1>2, <1>5, <1>8, <1>10
  <1>11. PICK S : S = {s}
    OBVIOUS
  <1>12. S \in SUBSET Session /\ \A t \in S : t = s
    BY <1>11
  <1>13. cache' \subseteq {d \in cache : d.session \notin S}
    BY <1>1, <1>11 DEF Forgotten
  <1>14. DOMAIN flights' = {r \in DOMAIN flights : SessionOf[r] \notin S}
    BY <1>4, <1>11
  <1>15. \A t \in S : epoch'[t] = epoch[t] + 1
    BY <1>6, <1>12
  <1>16. \A t \in Session \ S : epoch'[t] = epoch[t] /\ policy'.gen[t] = policy.gen[t]
    BY <1>6, <1>11
  <1> QED BY <1>1, <1>2, <1>3, <1>6, <1>12, <1>13, <1>14, <1>15, <1>16, ChangeKeeps

LEMMA SetModeKeeps ==
  ASSUME PInv, PermissionAssumption, NEW mode \in Mode, SetMode(mode)
  PROVE  PInv'
  <1>1. /\ policy' = [policy EXCEPT !.base = mode, !.rev = @ + 1, !.own = [s \in Session |-> "none"]]
        /\ epoch' = [s \in Session |-> epoch[s] + 1]
        /\ UNCHANGED <<req, broker, consent>> /\ cache' = {} /\ flights' = Without(Request)
    BY DEF SetMode
  <1>5. /\ policy.rev \in Nat /\ policy.gen \in [Session -> Nat] /\ epoch \in [Session -> Nat]
        /\ \A t \in Session : epoch[t] = policy.rev + policy.gen[t]
    BY DEF PInv, PolicyTyped
  <1>6. PICK modes : modes = [s \in Session |-> "none"]
    OBVIOUS
  <1>7. modes \in [Session -> Modes] /\ policy' = [policy EXCEPT !.base = mode, !.rev = policy.rev + 1, !.own = modes]
    BY <1>1, <1>6 DEF Modes, PInv, PolicyTyped
  <1>13. policy.rev + 1 \in Nat /\ mode \in Modes
    BY <1>5 DEF Modes
  <1>2. /\ policy' \in [base : Modes, own : [Session -> Modes], rev : Nat, gen : [Session -> Nat], serial : Nat]
        /\ policy'.rev = policy.rev + 1 /\ policy'.gen = policy.gen
    BY <1>7, <1>13 DEF PInv, PolicyTyped
  <1>8. /\ epoch' \in [Session -> Nat] /\ \A t \in Session : epoch'[t] = epoch[t] + 1
    BY <1>1, <1>5
  <1>3. PolicyTyped'
    <2>1. ASSUME NEW t \in Session PROVE epoch'[t] = policy'.rev + policy'.gen[t]
      <3>1. policy.gen[t] \in Nat /\ epoch[t] = policy.rev + policy.gen[t]
        BY <1>5
      <3> QED BY <1>2, <1>5, <1>8, <3>1
    <2> QED BY <1>2, <1>8, <2>1 DEF PolicyTyped
  <1>4. DOMAIN flights' = {r \in DOMAIN flights : SessionOf[r] \notin Session}
    BY <1>1, SessionsOf DEF Without, PInv, StateTyped
  <1>9. PICK S : S = Session
    OBVIOUS
  <1>10. S \in SUBSET Session /\ Session \ S = {}
    BY <1>9
  <1>11. policy'.rev >= policy.rev /\ \A t \in Session : policy'.gen[t] >= policy.gen[t]
    BY <1>2, <1>5
  <1>12. cache' \subseteq {d \in cache : d.session \notin S}
    BY <1>1
  <1> QED BY <1>1, <1>3, <1>4, <1>8, <1>9, <1>10, <1>11, <1>12, ChangeKeeps

-----------------------------------------------------------------------------
LEMMA StepHolds == ASSUME PInv, PermissionAssumption, [Next]_vars PROVE PInv'
  <1>1. ASSUME NEW r \in Request, Step(r) PROVE PInv'
    BY <1>1, BeginKeeps, FlyKeeps, JoinedKeeps, AskKeeps, WakeKeeps, LeaveKeeps, DecideKeeps DEF Step
  <1>2. UNCHANGED vars => PInv'
    BY DEF vars, PInv, PolicyTyped, StateTyped, Budgets, CacheHolds, FlightsApart, AskedApart, RequestHolds,
           NotedHolds, FlightHolds, ReplyHolds, Named, Current, Permits
  <1> QED BY <1>1, <1>2, CancelKeeps, RespondKeeps, SetSessionModeKeeps, SetModeKeeps, CloseKeeps DEF Next

\* What is kept of decisions, flights and replies agrees with the policy and
\* with what users said, in every state (PermissionManager.Authorize with its
\* locks, ApprovalBroker), for any requests, modes, budgets and numbers of changes.
THEOREM PermissionInvariant == PermissionAssumption /\ Spec => []PInv
  <1> SUFFICES ASSUME PermissionAssumption PROVE Spec => []PInv
    OBVIOUS
  <1>1. Init => PInv
    BY InitHolds
  <1>2. PInv /\ [Next]_vars => PInv'
    BY StepHolds
  <1> QED BY <1>1, <1>2, PTL DEF Spec

\* The broker and the manager keep their budgets, two flights that are kept are
\* of different invocations, a user is asked once for an invocation as long as
\* nothing changes, no reply blocks the broker, and whoever waits is listed
\* (ApprovalBroker.Decide and Respond, PermissionManager.flightFor).
THEOREM PermissionPromises ==
    PermissionAssumption /\ Spec => [](PermissionTypeOK /\ AskedOnce /\ RepliesFit /\ ListedIsWaiting)
  <1>1. ASSUME PInv PROVE PermissionTypeOK
    <2>1. \A r \in Request : req[r].result \in {"none", "allowed", "denied", "error"}
      BY <1>1, Known DEF Requests, Results
    <2> QED BY <1>1, <2>1 DEF PInv, StateTyped, Budgets, FlightsApart, PermissionTypeOK
  <1>2. ASSUME PInv PROVE AskedOnce
    <2> SUFFICES ASSUME NEW r \in Request, NEW o \in Request, r # o, CallOf[r] = CallOf[o], CallOf[r] # "none",
                        r \in broker.pending, o \in broker.pending
                 PROVE  req[r].epoch # req[o].epoch
      BY DEF AskedOnce
    <2>1. req[r].pc \in Asking /\ req[o].pc \in Asking
      BY <1>2, Known DEF RequestHolds, ReplyHolds, Asking
    <2> QED BY <1>2, <2>1 DEF PInv, AskedApart, Named
  <1>3. ASSUME PInv PROVE RepliesFit
    <2> SUFFICES ASSUME NEW r \in Request PROVE Len(req[r].reply) <= 1
      BY DEF RepliesFit
    <2>1. CASE req[r].reply = <<>>
      BY <2>1
    <2>2. CASE \E x : req[r].reply = <<x>>
      BY <2>2
    <2> QED BY <1>3, <2>1, <2>2, Known DEF RequestHolds, ReplyHolds
  <1>4. ASSUME PInv PROVE ListedIsWaiting
    BY <1>4, Known DEF RequestHolds, ReplyHolds, ListedIsWaiting
  <1> QED BY <1>1, <1>2, <1>3, <1>4, PermissionInvariant, PTL

-----------------------------------------------------------------------------
(* Permissions are current.                                                *)

\* What a request is allowed with, when it asked.
Backed(r) == \E k \in consent : /\ Permits(k, SessionOf[r])
                                /\ \/ k.request = r \/ (CallOf[k.request] = CallOf[r] /\ Named(r))
                                   \/ k.answer.scope = "session" /\ ToolOf[k.request] = ToolOf[r]

Granted(r) == req'[r].result = "allowed" /\ req[r].result = "none" /\ req'[r].asked

LEMMA BeginBacks == ASSUME PInv, NEW r \in Request, Begin(r), Granted(r) PROVE Backed(r)
  <1>1. req[r].pc = "new" /\ ~req[r].asked /\ req[r] \in Requests /\ req \in [Request -> Requests]
    BY Known DEF Begin, RequestHolds, ReplyHolds, PInv, StateTyped
  <1>2. ~ \E x \in {"error", "denied", "allowed"} : Return(r, x)
    BY <1>1 DEF Return, Granted, Requests
  <1>3. ~ req' = [req EXCEPT ![r].pc = "fly", ![r].rev = policy.rev,
                             ![r].gen = policy.gen[SessionOf[r]], ![r].epoch = epoch[SessionOf[r]]]
    BY <1>1 DEF Granted, Requests
  <1>4. PICK d \in Cached(r) : req' = [req EXCEPT ![r].pc = "done", ![r].asked = TRUE,
                                          ![r].result = IF d.allowed THEN "allowed" ELSE "denied"]
    BY <1>2, <1>3 DEF Begin
  <1>5. d.allowed /\ d \in cache /\ d.session = SessionOf[r] /\ d.tool = ToolOf[r]
    BY <1>1, <1>4 DEF Granted, Requests, Cached
  <1>6. PICK k \in consent : Permits(k, d.session) /\ k.answer.scope = "session" /\ ToolOf[k.request] = d.tool
    BY <1>5 DEF PInv, CacheHolds
  <1> QED BY <1>5, <1>6 DEF Backed

LEMMA JoinedBacks == ASSUME PInv, PermissionAssumption, NEW r \in Request, Joined(r), Granted(r) PROVE Backed(r)
  <1>1. req[r].pc = "join" /\ ~req[r].asked /\ req[r] \in Requests /\ req \in [Request -> Requests]
    BY Known DEF Joined, RequestHolds, ReplyHolds, PInv, StateTyped
  <1>2. ~ \E x \in {"error", "denied"} : Return(r, x)
    BY <1>1 DEF Return, Granted, Requests
  <1>3. PICK o : o = req[r].joins
    OBVIOUS
  <1>4. /\ Complete(o) /\ o \in DOMAIN flights
        /\ req' = [req EXCEPT ![r].pc = "done", ![r].asked = TRUE, ![r].result = req[o].result]
    BY <1>2, <1>3 DEF Joined
  <1>5. req[o].result = "allowed" /\ req[o].pc = "done"
    BY <1>1, <1>4 DEF Granted, Requests, Complete
  <1>6. o \in Request /\ CallOf[o] = CallOf[r] /\ Named(r)
    BY <1>1, <1>3, Known DEF RequestHolds, FlightHolds
  <1>7. PICK k \in consent : k.request = o /\ Permits(k, SessionOf[o])
    BY <1>4, <1>5, <1>6, Known DEF RequestHolds, FlightHolds
  <1>8. SessionOf[o] = SessionOf[r]
    BY <1>6 DEF PermissionAssumption, Named
  <1> QED BY <1>6, <1>7, <1>8 DEF Backed

LEMMA DecideBacks == ASSUME PInv, NEW r \in Request, Decide(r), Granted(r) PROVE Backed(r)
  <1>1. PICK d : d = IF req[r].reply = <<>> \/ req[r].cancelled THEN Broken ELSE Head(req[r].reply)
    OBVIOUS
  <1>2. PICK valid \in BOOLEAN : valid = (Current(r) /\ (CallOf[r] = "none" \/ r \in DOMAIN flights))
    OBVIOUS
  <1>3. PICK clear \in BOOLEAN : clear = (valid /\ d # Broken)
    OBVIOUS
  <1>4. PICK x : x = CASE clear /\ d.allowed -> "allowed" [] valid /\ ~clear -> "error" [] OTHER -> "denied"
    OBVIOUS
  <1>5. req' = [req EXCEPT ![r].pc = "done", ![r].asked = TRUE, ![r].result = x]
    BY <1>1, <1>2, <1>3, <1>4 DEF Decide
  <1>6. req[r] \in Requests /\ req \in [Request -> Requests]
    BY Known DEF PInv, StateTyped
  <1>7. x = "allowed"
    BY <1>5, <1>6 DEF Granted, Requests
  <1>8. clear /\ d.allowed
    BY <1>4, <1>7
  <1>9. Current(r) /\ req[r].reply # <<>> /\ d = Head(req[r].reply) /\ d # Broken
    BY <1>1, <1>2, <1>3, <1>8
  <1>10. PICK k \in consent : k.request = r /\ k.answer = Head(req[r].reply) /\ k.epoch = epoch[SessionOf[r]]
    BY <1>9, ReplyIsConsent
  <1> QED BY <1>8, <1>9, <1>10 DEF Backed, Permits

\* Only these three give a result to a request that asked.
LEMMA GrantedBy ==
  ASSUME PInv, NEW r \in Request, Granted(r), [Next]_vars
  PROVE  Begin(r) \/ Joined(r) \/ Decide(r)
  <1>1. req \in [Request -> Requests] /\ req[r] \in Requests /\ (req[r].pc # "done" => ~req[r].asked)
    BY Known DEF PInv, StateTyped, RequestHolds, ReplyHolds
  <1>2. ~ UNCHANGED req
    BY DEF Granted
  <1>3. ASSUME NEW o \in Request, Fly(o) PROVE FALSE
    <2>1. ASSUME NEW x, Return(o, x) PROVE o # r
      <3>1. req'[o].asked = req[o].asked /\ req[o].pc = "fly"
        BY <1>1, <1>3, <2>1 DEF Return, Fly, Requests
      <3> QED BY <1>1, <3>1 DEF Granted
    <2>2. ASSUME NEW x, Return(o, x), o # r PROVE req'[r] = req[r]
      BY <1>1, <2>2 DEF Return
    <2>3. ~ \E x : Return(o, x)
      BY <2>1, <2>2 DEF Granted
    <2>4. ASSUME NEW p, req' = [req EXCEPT ![o].pc = "join", ![o].joins = p] PROVE FALSE
      BY <1>1, <2>4 DEF Granted, Requests
    <2>5. req' # [req EXCEPT ![o].pc = "ask"]
      BY <1>1 DEF Granted, Requests
    <2> QED BY <1>3, <2>3, <2>4, <2>5 DEF Fly, Join, Start
  <1>4. ASSUME NEW o \in Request, \/ Ask(o) \/ Wake(o) \/ Leave(o) \/ Cancel(o) \/ \E answer \in Answer : Respond(o, answer)
        PROVE  FALSE
    <2>1. ASSUME NEW p, req' = [req EXCEPT ![o].pc = p] PROVE FALSE
      BY <1>1, <2>1 DEF Granted, Requests
    <2>2. req' # [req EXCEPT ![o].cancelled = TRUE]
      BY <1>1 DEF Granted, Requests
    <2>3. ASSUME NEW q, req' = [req EXCEPT ![o].reply = q] PROVE FALSE
      BY <1>1, <2>3 DEF Granted, Requests
    <2>4. ~ Ask(o)
      BY <2>1 DEF Ask
    <2>5. ~ (\E answer \in Answer : Respond(o, answer))
      BY <2>3 DEF Respond
    <2> QED BY <1>4, <2>1, <2>2, <2>4, <2>5 DEF Wake, Leave, Cancel
  <1>5. ~ Close
    <2>1. ASSUME Close PROVE req'[r] = req[r] \/ \E q : req'[r] = [req[r] EXCEPT !.reply = q]
      BY <2>1 DEF Close
    <2> QED BY <1>1, <2>1 DEF Granted, Requests
  <1>6. ASSUME NEW o \in Request, Begin(o) \/ Joined(o) \/ Decide(o) PROVE o = r
    <2>1. CASE \E q : req' = [req EXCEPT ![o] = q]
      BY <1>1, <2>1 DEF Granted
    <2>2. CASE Begin(o)
      BY <1>1, <2>2, <2>1 DEF Begin, Return
    <2>3. CASE Joined(o)
      BY <1>1, <2>3, <2>1 DEF Joined, Return
    <2>4. CASE Decide(o)
      BY <1>1, <2>4, <2>1 DEF Decide
    <2> QED BY <1>6, <2>2, <2>3, <2>4
  <1> QED BY <1>2, <1>3, <1>4, <1>5, <1>6 DEF Next, Step, vars, SetSessionMode, SetMode

\* Nothing runs on a permission that is older than the policy of its session:
\* a request that asked is allowed only by what a user said since, for that
\* invocation or for that tool of the session (Authorize and its three checks
\* of the revision and the generation).
THEOREM PermissionIsCurrent == PermissionAssumption /\ Spec => [][ConsentIsCurrent]_vars
  <1> SUFFICES ASSUME PermissionAssumption PROVE Spec => [][ConsentIsCurrent]_vars
    OBVIOUS
  <1>1. PInv /\ [Next]_vars => ConsentIsCurrent
    <2> SUFFICES ASSUME PInv, [Next]_vars, NEW r \in Request, Granted(r) PROVE Backed(r)
      BY DEF ConsentIsCurrent, Granted, Backed, Permits, Named
    <2> QED BY GrantedBy, BeginBacks, JoinedBacks, DecideBacks
  <1> QED BY <1>1, PermissionInvariant, PTL DEF Spec

-----------------------------------------------------------------------------
(* The event bus.                                                          *)

Topics == [ring : [0 .. RingSize - 1 -> BusEvent \cup {Zero}], first : Nat, next : Nat, subscribers : Nat, changed : Nat]
Subs   == [open : BOOLEAN, cursor : Nat, pc : {"idle", "look", "parked"}, waits : Nat]
Open   == {r \in Readers : sub[r].open}

BusTyped ==
    /\ topic \in Topics /\ pub \in [Publishers -> {"idle", "cloning"}] /\ sub \in [Readers -> Subs]
    /\ log \in Seq(BusEvent) /\ Len(log) = topic.next /\ topic.next <= MaxEvents
    /\ told \in [Readers -> Nat] /\ heard \in [Readers -> SUBSET (Nat \X (BusEvent \cup {Zero}))]
    /\ lagged \in [Readers -> Nat] /\ topic.subscribers = Cardinality(Open)

\* The ring holds the last events of the order.
RingHolds ==
    /\ topic.first <= topic.next /\ topic.next - topic.first <= RingSize
    /\ \A n \in Nat : topic.first <= n /\ n < topic.next => topic.ring[Slot(n)] = log[n + 1]

\* A reader is where it says; it falls behind only a ring that is full.
ReaderHolds(r) ==
    /\ sub[r].open => /\ sub[r].cursor <= topic.next /\ told[r] = sub[r].cursor
                      /\ sub[r].cursor < topic.first => topic.next - topic.first = RingSize
    /\ \A h \in heard[r] : h[1] < Len(log) /\ log[h[1] + 1] = h[2]
    /\ lagged[r] = 0

BInv == BusTyped /\ RingHolds /\ NothingRetained /\ \A r \in Readers : ReaderHolds(r)

LEMMA SlotsApart ==
  ASSUME NEW C \in Nat \ {0}, NEW m \in Nat, NEW n \in Nat, m < n, n < m + C
  PROVE  m % C # n % C
  <1>1. PICK q, p : q = m \div C /\ p = n \div C
    OBVIOUS
  <1>2. q \in Int /\ p \in Int
    BY <1>1
  <1>3. m % C = m - C * q /\ n % C = n - C * p
    BY <1>1
  <1> SUFFICES ASSUME m % C = n % C PROVE FALSE
    OBVIOUS
  <1>4. n - m = C * p - C * q
    <2>1. C * p \in Int /\ C * q \in Int
      BY <1>2
    <2> QED BY <1>3, <2>1
  <1>5. C * p - C * q = C * (p - q)
    BY <1>2
  <1>6. p - q \in Int /\ (p - q <= 0 => C * (p - q) <= 0) /\ (p - q >= 1 => C * (p - q) >= C)
    BY <1>2
  <1> QED BY <1>4, <1>5, <1>6

LEMMA SlotIs == ASSUME BusAssumption, NEW n \in Nat PROVE Slot(n) \in 0 .. RingSize - 1
  BY DEF Slot, BusAssumption

LEMMA OpenIsFinite == ASSUME BusAssumption PROVE IsFiniteSet(Open)
  BY FS_Subset DEF BusAssumption, Open

LEMMA BusInitHolds == ASSUME BusAssumption, BusInit PROVE BInv
  <1>1. Open = {}
    BY DEF BusInit, Open
  <1>2. topic \in Topics /\ topic.first = 0 /\ topic.next = 0 /\ topic.subscribers = 0 /\ topic.ring = EmptyRing
    BY DEF BusInit, Topics, EmptyRing
  <1>3. log = <<>> /\ log \in Seq(BusEvent) /\ Len(log) = 0
    BY DEF BusInit
  <1>4. BusTyped
    BY <1>1, <1>2, <1>3, FS_EmptySet DEF BusInit, BusTyped, Subs, BusAssumption
  <1>5. RingHolds
    BY <1>2 DEF RingHolds, BusAssumption
  <1>6. \A r \in Readers : ReaderHolds(r)
    BY DEF BusInit, ReaderHolds
  <1> QED BY <1>2, <1>4, <1>5, <1>6 DEF BInv, NothingRetained

LEMMA SubIs ==
  ASSUME BInv, NEW r \in Readers
  PROVE  /\ sub[r] \in Subs /\ ReaderHolds(r) /\ sub[r].open \in BOOLEAN /\ sub[r].cursor \in Nat
         /\ told[r] \in Nat /\ topic.first \in Nat /\ topic.next \in Nat /\ topic.changed \in Nat
         /\ heard[r] \subseteq Nat \X (BusEvent \cup {Zero})
  BY DEF BInv, BusTyped, Subs, Topics

\* A step of a reader that leaves the topic alone and its subscription open or closed.
LEMMA ReaderKeeps ==
  ASSUME BInv, UNCHANGED <<topic, log>>, pub' = pub, NEW r \in Readers, NEW w \in Subs, sub' = [sub EXCEPT ![r] = w],
         w.open = sub[r].open, NEW t \in Nat, told' = [told EXCEPT ![r] = t],
         NEW H \in SUBSET (Nat \X (BusEvent \cup {Zero})), heard' = [heard EXCEPT ![r] = H], lagged' = lagged, ReaderHolds(r)'
  PROVE  BInv'
  <1>1. sub \in [Readers -> Subs] /\ told \in [Readers -> Nat]
        /\ heard \in [Readers -> SUBSET (Nat \X (BusEvent \cup {Zero}))]
    BY DEF BInv, BusTyped
  <1>2. sub' \in [Readers -> Subs] /\ told' \in [Readers -> Nat]
        /\ heard' \in [Readers -> SUBSET (Nat \X (BusEvent \cup {Zero}))]
    BY <1>1
  <1>3. \A o \in Readers : sub'[o].open = sub[o].open
    BY <1>1
  <1>4. Open' = Open
    BY <1>3 DEF Open
  <1>5. BusTyped'
    BY <1>2, <1>4 DEF BInv, BusTyped
  <1>6. ASSUME NEW o \in Readers PROVE ReaderHolds(o)'
    <2>1. CASE o # r
      <3>1. sub'[o] = sub[o] /\ told'[o] = told[o] /\ heard'[o] = heard[o]
        BY <1>1, <2>1
      <3> QED BY <3>1, SubIs DEF ReaderHolds
    <2> QED BY <2>1
  <1> QED BY <1>5, <1>6 DEF BInv, RingHolds, NothingRetained

\* What Recv returns is not touched: RecvCall, Park, Woken, Released, Cancelled.
LEMMA MoveKeeps ==
  ASSUME BInv, UNCHANGED <<topic, pub, log, told, heard, lagged>>, NEW r \in Readers,
         NEW p \in {"idle", "look", "parked"}, NEW c \in Nat, sub' = [sub EXCEPT ![r] = [@ EXCEPT !.pc = p, !.waits = c]]
  PROVE  BInv'
  <1>1. PICK w : w = [sub[r] EXCEPT !.pc = p, !.waits = c]
    OBVIOUS
  <1>2. w \in Subs /\ w.open = sub[r].open /\ w.cursor = sub[r].cursor
    BY <1>1, SubIs DEF Subs
  <1>3. sub' = [sub EXCEPT ![r] = w] /\ sub'[r] = w
    BY <1>1 DEF BInv, BusTyped
  <1>4. told' = [told EXCEPT ![r] = told[r]] /\ heard' = [heard EXCEPT ![r] = heard[r]]
    BY DEF BInv, BusTyped
  <1>5. ReaderHolds(r)'
    BY <1>2, <1>3, SubIs DEF ReaderHolds
  <1> QED BY <1>2, <1>3, <1>4, <1>5, SubIs, ReaderKeeps

LEMMA PcKeeps ==
  ASSUME BInv, UNCHANGED <<topic, pub, log, told, heard, lagged>>, NEW r \in Readers,
         NEW p \in {"idle", "look", "parked"}, sub' = [sub EXCEPT ![r].pc = p]
  PROVE  BInv'
  <1>1. PICK c \in Nat : c = sub[r].waits
    BY SubIs DEF Subs
  <1>2. sub' = [sub EXCEPT ![r] = [@ EXCEPT !.pc = p, !.waits = c]]
    BY <1>1, SubIs DEF BInv, BusTyped, Subs
  <1> QED BY <1>2, MoveKeeps

LEMMA LagKeeps == ASSUME BInv, BusAssumption, NEW r \in Readers, Look(r), Lag(r) PROVE BInv'
  <1>1. UNCHANGED <<topic, pub, log, joins, heard>> /\ sub[r].open /\ sub[r].cursor < topic.first
    BY DEF Look, Lag
  <1>2. topic.next - topic.first = RingSize /\ told[r] = sub[r].cursor /\ sub[r].cursor <= topic.next
    BY <1>1, SubIs DEF ReaderHolds
  <1>3. PICK skipped : skipped = {n \in sub[r].cursor .. topic.first - 1 : topic.next - n <= RingSize}
    OBVIOUS
  <1>4. lagged' = lagged
    <2>1. skipped = {}
      BY <1>2, <1>3, SubIs DEF BusAssumption
    <2>2. PICK c : c = Cardinality(skipped)
      OBVIOUS
    <2>3. c = 0
      BY <2>1, <2>2, FS_EmptySet
    <2>4. lagged' = [lagged EXCEPT ![r] = @ + c]
      BY <1>3, <2>2 DEF Lag
    <2> QED BY <2>3, <2>4, SubIs DEF BInv, BusTyped
  <1>5. told' = [told EXCEPT ![r] = topic.first]
    <2>1. told' = [told EXCEPT ![r] = told[r] + (topic.first - sub[r].cursor)]
      BY DEF Lag
    <2>2. told[r] + (topic.first - sub[r].cursor) = topic.first
      BY <1>2, SubIs
    <2> QED BY <2>1, <2>2
  <1>6. PICK w : w = [sub[r] EXCEPT !.cursor = topic.first, !.pc = "idle"]
    OBVIOUS
  <1>7. w \in Subs /\ w.open = sub[r].open /\ w.cursor = topic.first
    BY <1>6, SubIs DEF Subs
  <1>8. sub' = [sub EXCEPT ![r] = w] /\ sub'[r] = w /\ told'[r] = topic.first /\ heard' = [heard EXCEPT ![r] = heard[r]]
    BY <1>1, <1>5, <1>6 DEF Lag, BInv, BusTyped
  <1>9. ReaderHolds(r)'
    BY <1>1, <1>4, <1>7, <1>8, SubIs DEF ReaderHolds, BInv, RingHolds
  <1> QED BY <1>1, <1>4, <1>5, <1>7, <1>8, <1>9, SubIs, ReaderKeeps

LEMMA TakeKeeps == ASSUME BInv, BusAssumption, NEW r \in Readers, Look(r), Take(r) PROVE BInv'
  <1>1. /\ UNCHANGED <<topic, pub, log, joins, lagged>> /\ sub[r].open
        /\ topic.first <= sub[r].cursor /\ sub[r].cursor < topic.next
    BY DEF Look, Take
  <1>2. told[r] = sub[r].cursor
    BY <1>1, SubIs DEF ReaderHolds
  <1> PICK c \in Nat : c = sub[r].cursor + 1
    BY SubIs
  <1> PICK t \in Nat : t = told[r] + 1
    BY SubIs
  <1>3. PICK w : w = [sub[r] EXCEPT !.cursor = c, !.pc = "idle"]
    OBVIOUS
  <1>4. w \in Subs /\ w.open = sub[r].open /\ w.cursor = c
    BY <1>3, SubIs DEF Subs
  <1>5. sub' = [sub EXCEPT ![r] = w] /\ sub'[r] = w
    <2>1. sub' = [sub EXCEPT ![r].cursor = c, ![r].pc = "idle"]
      BY DEF Take
    <2>2. sub' = [sub EXCEPT ![r] = w]
      BY <1>3, <2>1, SubIs DEF BInv, BusTyped, Subs
    <2> QED BY <2>2 DEF BInv, BusTyped
  <1>6. told' = [told EXCEPT ![r] = t] /\ told'[r] = t
    BY DEF Take, BInv, BusTyped
  <1>7. PICK v : v = topic.ring[Slot(sub[r].cursor)]
    OBVIOUS
  <1>8. v = log[told[r] + 1] /\ v \in BusEvent \cup {Zero} /\ told[r] < Len(log)
    <2>1. Slot(sub[r].cursor) \in 0 .. RingSize - 1
      BY SubIs, SlotIs
    <2> QED BY <1>1, <1>2, <1>7, <2>1, SubIs DEF BInv, BusTyped, Topics, RingHolds
  <1>9. PICK H : H = heard[r] \cup {<<told[r], v>>}
    OBVIOUS
  <1>10. /\ H \in SUBSET (Nat \X (BusEvent \cup {Zero})) /\ heard' = [heard EXCEPT ![r] = H] /\ heard'[r] = H
    BY <1>7, <1>8, <1>9, SubIs DEF Take, BInv, BusTyped
  <1>11. \A h \in H : h[1] < Len(log) /\ log[h[1] + 1] = h[2]
    BY <1>8, <1>9, SubIs DEF ReaderHolds
  <1>12. ReaderHolds(r)'
    BY <1>1, <1>2, <1>4, <1>5, <1>6, <1>10, <1>11, SubIs DEF ReaderHolds
  <1> QED BY <1>1, <1>4, <1>5, <1>6, <1>10, <1>12, SubIs, ReaderKeeps

LEMMA LookKeeps == ASSUME BInv, BusAssumption, NEW r \in Readers, Look(r) PROVE BInv'
  <1>1. UNCHANGED <<topic, pub, log, joins>>
    BY DEF Look
  <1>2. CASE Park(r)
    BY <1>1, <1>2, SubIs, MoveKeeps DEF Park
  <1>3. CASE Closed(r)
    BY <1>1, <1>3, PcKeeps DEF Closed
  <1> QED BY <1>2, <1>3, LagKeeps, TakeKeeps DEF Look

LEMMA SubscribeKeeps == ASSUME BInv, BusAssumption, NEW r \in Readers, Subscribe(r) PROVE BInv'
  <1>1. /\ ~sub[r].open /\ UNCHANGED <<pub, log>> /\ topic' = [topic EXCEPT !.subscribers = @ + 1]
        /\ told' = [told EXCEPT ![r] = topic.next] /\ heard' = [heard EXCEPT ![r] = {}] /\ lagged' = [lagged EXCEPT ![r] = 0]
    BY DEF Subscribe
  <1>2. PICK w : w = [sub[r] EXCEPT !.open = TRUE, !.cursor = topic.next]
    OBVIOUS
  <1>3. w \in Subs /\ w.open = TRUE /\ w.cursor = topic.next
    BY <1>2, SubIs DEF Subs
  <1> PICK n : n = topic.subscribers + 1
    OBVIOUS
  <1>0. topic \in Topics /\ topic.subscribers \in Nat /\ n \in Nat /\ n # 0 /\ topic' = [topic EXCEPT !.subscribers = n]
    BY <1>1 DEF BInv, BusTyped, Topics
  <1>4. /\ topic' \in Topics /\ topic'.ring = topic.ring /\ topic'.first = topic.first /\ topic'.next = topic.next
        /\ topic'.subscribers = n
    BY <1>0 DEF Topics
  <1>5. /\ sub' = [sub EXCEPT ![r] = w] /\ sub' \in [Readers -> Subs] /\ sub'[r] = w
        /\ \A o \in Readers \ {r} : sub'[o] = sub[o] /\ told'[o] = told[o] /\ heard'[o] = heard[o] /\ lagged'[o] = lagged[o]
        /\ told'[r] = topic.next /\ heard'[r] = {} /\ lagged'[r] = 0
    BY <1>1, <1>2, <1>3 DEF Subscribe, BInv, BusTyped
  <1>6. Open' = Open \cup {r} /\ r \notin Open
    BY <1>1, <1>3, <1>5 DEF Open
  <1>7. topic'.subscribers = Cardinality(Open')
    <2>1. Cardinality(Open') = Cardinality(Open) + 1
      BY <1>6, OpenIsFinite, FS_AddElement
    <2> QED BY <1>0, <1>4, <2>1 DEF BInv, BusTyped
  <1>8. BusTyped'
    <2>1. /\ told' \in [Readers -> Nat] /\ lagged' \in [Readers -> Nat]
          /\ heard' \in [Readers -> SUBSET (Nat \X (BusEvent \cup {Zero}))]
      BY <1>1, SubIs DEF BInv, BusTyped
    <2> QED BY <1>1, <1>4, <1>5, <1>7, <2>1 DEF BInv, BusTyped
  <1>9. ASSUME NEW o \in Readers PROVE ReaderHolds(o)'
    <2>1. CASE o = r
      BY <1>3, <1>4, <1>5, <2>1, SubIs DEF ReaderHolds, BInv, RingHolds
    <2>2. CASE o # r
      BY <1>1, <1>4, <1>5, <2>2, SubIs DEF ReaderHolds
    <2> QED BY <2>1, <2>2
  <1>10. RingHolds' /\ NothingRetained'
    BY <1>0, <1>1, <1>4 DEF BInv, RingHolds, NothingRetained
  <1> QED BY <1>8, <1>9, <1>10 DEF BInv

LEMMA CloseSubscriptionKeeps == ASSUME BInv, BusAssumption, NEW r \in Readers, CloseSubscription(r) PROVE BInv'
  <1>1. /\ sub[r].open /\ UNCHANGED <<pub, log, told, heard, lagged>>
        /\ topic' = IF topic.subscribers = 1
                    THEN [topic EXCEPT !.subscribers = 0, !.ring = EmptyRing, !.first = topic.next]
                    ELSE [topic EXCEPT !.subscribers = @ - 1]
    BY DEF CloseSubscription
  <1>2. PICK w : w = [sub[r] EXCEPT !.open = FALSE]
    OBVIOUS
  <1>3. w \in Subs /\ w.open = FALSE /\ w.cursor = sub[r].cursor
    BY <1>2, SubIs DEF Subs
  <1>4. /\ sub' \in [Readers -> Subs] /\ sub'[r] = w /\ \A o \in Readers \ {r} : sub'[o] = sub[o]
    BY <1>2, <1>3 DEF CloseSubscription, BInv, BusTyped
  <1>5. Open' = Open \ {r} /\ r \in Open
    BY <1>1, <1>3, <1>4 DEF Open
  <1>6. Cardinality(Open') = Cardinality(Open) - 1 /\ Cardinality(Open) \in Nat /\ IsFiniteSet(Open')
    BY <1>5, OpenIsFinite, FS_RemoveElement, FS_CardinalityType
  <1>7. topic \in Topics /\ topic.subscribers = Cardinality(Open) /\ topic.subscribers \in Nat /\ topic.next \in Nat
    BY DEF BInv, BusTyped, Topics
  <1>8. Cardinality(Open') \in Nat
    BY <1>6, FS_CardinalityType
  <1>9. CASE topic.subscribers = 1
    <2>1. topic' = [topic EXCEPT !.subscribers = 0, !.ring = EmptyRing, !.first = topic.next]
      BY <1>1, <1>9
    <2>2. /\ topic' \in Topics /\ topic'.ring = EmptyRing /\ topic'.first = topic.next /\ topic'.next = topic.next
          /\ topic'.subscribers = 0
      <3>1. EmptyRing \in [0 .. RingSize - 1 -> BusEvent \cup {Zero}]
        BY DEF EmptyRing
      <3> QED BY <1>7, <2>1, <3>1 DEF Topics
    <2>3. Open' = {}
      BY <1>6, <1>7, <1>9, FS_EmptySet
    <2>4. \A o \in Readers : ~sub'[o].open
      BY <2>3 DEF Open
    <2>5. \A o \in Readers : ReaderHolds(o)'
      BY <1>1, <2>4, SubIs DEF ReaderHolds
    <2>6. RingHolds'
      BY <1>7, <2>2 DEF RingHolds, BusAssumption
    <2>7. BusTyped'
      BY <1>1, <1>4, <1>6, <1>7, <1>9, <2>2 DEF BInv, BusTyped
    <2> QED BY <2>2, <2>5, <2>6, <2>7 DEF BInv, NothingRetained
  <1>10. CASE topic.subscribers # 1
    <2>1. topic' = [topic EXCEPT !.subscribers = @ - 1]
      BY <1>1, <1>10
    <2>2. topic.subscribers - 1 \in Nat /\ topic.subscribers - 1 # 0
      BY <1>6, <1>7, <1>8, <1>10
    <2>3. /\ topic' \in Topics /\ topic'.ring = topic.ring /\ topic'.first = topic.first /\ topic'.next = topic.next
          /\ topic'.subscribers = topic.subscribers - 1
      BY <1>7, <2>1, <2>2 DEF Topics
    <2>4. ASSUME NEW o \in Readers PROVE ReaderHolds(o)'
      <3>1. CASE o = r
        BY <1>1, <1>3, <1>4, <3>1, SubIs DEF ReaderHolds
      <3>2. CASE o # r
        BY <1>1, <1>4, <2>3, <3>2, SubIs DEF ReaderHolds
      <3> QED BY <3>1, <3>2
    <2>5. BusTyped'
      BY <1>1, <1>4, <1>6, <1>7, <2>3 DEF BInv, BusTyped
    <2>6. RingHolds' /\ NothingRetained'
      BY <1>1, <2>2, <2>3 DEF BInv, RingHolds, NothingRetained
    <2> QED BY <2>4, <2>5, <2>6 DEF BInv
  <1> QED BY <1>9, <1>10

LEMMA StoreKeeps == ASSUME BInv, BusAssumption, NEW p \in Publishers, Store(p) PROVE BInv'
  <1>1. /\ UNCHANGED <<sub, told, heard, lagged>> /\ pub' \in [Publishers -> {"idle", "cloning"}]
    BY DEF Store, BInv, BusTyped
  <1>2. Open' = Open
    BY <1>1 DEF Open
  <1>3. CASE UNCHANGED <<topic, log>>
    BY <1>1, <1>2, <1>3 DEF BInv, BusTyped, RingHolds, NothingRetained, ReaderHolds
  <1>4. CASE topic.subscribers # 0 /\ topic.next < MaxEvents /\ topic' = Accepted(topic, <<p, topic.next>>)
             /\ log' = Append(log, <<p, topic.next>>)
    <2>1. PICK e : e = <<p, topic.next>>
      OBVIOUS
    <2>2. topic \in Topics /\ topic.next \in Nat /\ topic.first \in Nat /\ topic.changed \in Nat
          /\ topic.ring \in [0 .. RingSize - 1 -> BusEvent \cup {Zero}] /\ log \in Seq(BusEvent) /\ Len(log) = topic.next
      BY DEF BInv, BusTyped, Topics
    <2>3. e \in BusEvent
      BY <1>4, <2>1, <2>2 DEF BusEvent, BusAssumption
    <2>4. PICK ring, first : /\ ring = [topic.ring EXCEPT ![Slot(topic.next)] = e]
                             /\ first = IF topic.next - topic.first >= RingSize THEN topic.first + 1 ELSE topic.first
      OBVIOUS
    <2>17. PICK next \in Nat : next = topic.next + 1
      BY <2>2
    <2> PICK changed \in Nat : changed = topic.changed + 1
      BY <2>2
    <2>5. ring \in [0 .. RingSize - 1 -> BusEvent \cup {Zero}] /\ first \in Nat
      <3>1. ring \in [0 .. RingSize - 1 -> BusEvent \cup {Zero}]
        BY <2>2, <2>3, <2>4
      <3>2. first \in Nat
        BY <2>2, <2>4
      <3> QED BY <3>1, <3>2
    <2>6. topic' = [topic EXCEPT !.ring = ring, !.first = first, !.next = next, !.changed = changed]
      BY <1>4, <2>1, <2>17, <2>2, <2>4 DEF Accepted, Topics
    <2>7. /\ topic' \in Topics /\ topic'.ring = ring /\ topic'.first = first /\ topic'.next = next
          /\ topic'.subscribers = topic.subscribers
      BY <2>2, <2>5, <2>6 DEF Topics
    <2>8. /\ log' \in Seq(BusEvent) /\ Len(log') = topic.next + 1 /\ log'[topic.next + 1] = e
          /\ \A i \in 1 .. topic.next : log'[i] = log[i]
      BY <1>4, <2>1, <2>2, <2>3
    <2>9. RingSize \in Nat /\ RingSize > 0 /\ MaxEvents \in Nat
      BY DEF BusAssumption
    <2>10. topic.first <= topic.next /\ topic.next - topic.first <= RingSize
      BY DEF BInv, RingHolds
    <2>11. /\ first <= topic.next + 1 /\ first <= next /\ next - first <= RingSize
           /\ topic.next + 1 - first <= RingSize /\ topic.first <= first
           /\ topic.next - first < RingSize /\ (topic.first < first => topic.next + 1 - first = RingSize)
           /\ (topic.next - topic.first = RingSize => topic.next + 1 - first = RingSize)
      <3>1. PICK a \in Nat, b \in Nat, C \in Nat : a = topic.first /\ b = topic.next /\ C = RingSize
        BY <2>2, <2>9
      <3>2. C > 0 /\ a <= b /\ b - a <= C
        BY <2>9, <2>10, <3>1
      <3>3. first = IF b - a >= C THEN a + 1 ELSE a
        BY <2>4, <3>1
      <3>4. next = b + 1
        BY <2>17, <3>1
      <3>5. /\ first <= b + 1 /\ first <= next /\ next - first <= C /\ b + 1 - first <= C /\ a <= first /\ b - first < C
            /\ a < first => b + 1 - first = C
            /\ b - a = C => b + 1 - first = C
        BY <3>2, <3>3, <3>4
      <3> QED BY <3>1, <3>5
    <2>12. ASSUME NEW n \in Nat, first <= n, n < topic.next + 1 PROVE ring[Slot(n)] = log'[n + 1]
      <3>1. CASE n = topic.next
        BY <2>2, <2>4, <2>8, <3>1, SlotIs
      <3>2. CASE n # topic.next
        <4>1. n < topic.next /\ topic.next < n + RingSize /\ topic.first <= n /\ n + 1 \in 1 .. topic.next
          <5>1. n < topic.next
            BY <2>2, <2>12, <3>2
          <5>2. topic.next < n + RingSize /\ topic.first <= n
            BY <2>2, <2>5, <2>9, <2>11, <2>12
          <5> QED BY <2>2, <5>1, <5>2
        <4>2. Slot(n) # Slot(topic.next)
          <5>1. RingSize \in Nat \ {0} /\ topic.next \in Nat /\ n < topic.next /\ topic.next < n + RingSize
            BY <2>2, <4>1 DEF BusAssumption
          <5> QED BY <5>1, SlotsApart DEF Slot
        <4>3. ring[Slot(n)] = topic.ring[Slot(n)]
          BY <2>2, <2>4, <4>2, SlotIs
        <4> QED BY <2>8, <4>1, <4>3 DEF BInv, RingHolds
      <3> QED BY <3>1, <3>2
    <2>13. RingHolds'
      <3>1. topic'.first <= topic'.next /\ topic'.next - topic'.first <= RingSize
        BY <2>7, <2>11
      <3>2. \A n \in Nat : topic'.first <= n /\ n < topic'.next => topic'.ring[Slot(n)] = log'[n + 1]
        BY <2>7, <2>12, <2>17
      <3> QED BY <3>1, <3>2 DEF RingHolds, Slot
    <2>14. NothingRetained'
      BY <1>4, <2>7 DEF NothingRetained
    <2>15. BusTyped'
      BY <1>1, <1>2, <1>4, <2>2, <2>7, <2>8, <2>9, <2>17 DEF BInv, BusTyped
    <2>16. ASSUME NEW r \in Readers PROVE ReaderHolds(r)'
      <3>1. /\ ReaderHolds(r) /\ sub[r].cursor \in Nat /\ sub[r] \in Subs
            /\ heard[r] \subseteq Nat \X (BusEvent \cup {Zero})
        BY SubIs
      <3>2. \A h \in heard'[r] : h[1] < Len(log') /\ log'[h[1] + 1] = h[2]
        <4> SUFFICES ASSUME NEW h \in heard[r] PROVE h[1] < Len(log') /\ log'[h[1] + 1] = h[2]
          BY <1>1
        <4>1. h[1] \in Nat /\ h[1] < Len(log) /\ log[h[1] + 1] = h[2]
          BY <3>1 DEF ReaderHolds
        <4>2. h[1] + 1 \in 1 .. topic.next
          BY <2>2, <4>1
        <4> QED BY <2>2, <2>8, <4>1, <4>2
      <3>3. sub[r].open => /\ sub[r].cursor <= topic.next + 1 /\ told[r] = sub[r].cursor
                           /\ sub[r].cursor < first => topic.next + 1 - first = RingSize
        <4>1. CASE sub[r].open
          <5>1. /\ sub[r].cursor <= topic.next /\ told[r] = sub[r].cursor
                /\ sub[r].cursor < topic.first => topic.next - topic.first = RingSize
            BY <3>1, <4>1 DEF ReaderHolds
          <5>2. sub[r].cursor <= topic.next + 1
            BY <2>2, <3>1, <5>1
          <5>3. sub[r].cursor < first => topic.next + 1 - first = RingSize
            <6>1. CASE sub[r].cursor < topic.first
              BY <2>11, <5>1, <6>1
            <6>2. CASE ~ sub[r].cursor < topic.first
              BY <2>2, <2>5, <2>11, <3>1, <6>2
            <6> QED BY <6>1, <6>2
          <5> QED BY <5>1, <5>2, <5>3
        <4> QED BY <4>1
      <3>4. sub'[r] = sub[r] /\ told'[r] = told[r] /\ lagged'[r] = 0
        BY <1>1, <3>1 DEF ReaderHolds
      <3>5. sub'[r].open => /\ sub'[r].cursor <= topic'.next /\ told'[r] = sub'[r].cursor
                            /\ sub'[r].cursor < topic'.first => topic'.next - topic'.first = RingSize
        BY <2>2, <2>5, <2>7, <2>9, <2>17, <3>1, <3>3, <3>4
      <3> QED BY <3>2, <3>4, <3>5 DEF ReaderHolds
    <2> QED BY <2>13, <2>14, <2>15, <2>16 DEF BInv
  <1>5. topic.next < MaxEvents \/ topic.next >= MaxEvents
    BY DEF BInv, BusTyped, Topics, BusAssumption
  <1> QED BY <1>3, <1>4, <1>5 DEF Store

LEMMA BusStepHolds == ASSUME BInv, BusAssumption, [BusNext]_busVars PROVE BInv'
  <1>1. ASSUME NEW p \in Publishers, Publish(p) PROVE BInv'
    <2>1. UNCHANGED <<topic, sub, log, told, heard, lagged, Open>> /\ pub' \in [Publishers -> {"idle", "cloning"}]
      BY <1>1 DEF Publish, BInv, BusTyped, Open
    <2> QED BY <2>1 DEF BInv, BusTyped, RingHolds, NothingRetained, ReaderHolds
  <1>2. ASSUME NEW r \in Readers, RecvCall(r) \/ Woken(r) \/ Released(r) \/ Cancelled(r) PROVE BInv'
    BY <1>2, PcKeeps DEF RecvCall, Woken, Released, Cancelled
  <1>3. UNCHANGED busVars => BInv'
    BY DEF busVars, BInv, BusTyped, RingHolds, NothingRetained, ReaderHolds, Open
  <1> QED BY <1>1, <1>2, <1>3, StoreKeeps, SubscribeKeeps, CloseSubscriptionKeeps, LookKeeps DEF BusNext

\* Topic and readers agree on the order of events in every state (Topic.Publish,
\* Subscription.Recv and Close), for any publishers, readers and size of the ring.
THEOREM BusInvariant == BusAssumption /\ BusSpec => []BInv
  <1> SUFFICES ASSUME BusAssumption PROVE BusSpec => []BInv
    OBVIOUS
  <1>1. BusInit => BInv
    BY BusInitHolds
  <1>2. BInv /\ [BusNext]_busVars => BInv'
    BY BusStepHolds
  <1> QED BY <1>1, <1>2, PTL DEF BusSpec

\* A reader can tell every gap, only a full ring makes one, and a topic that
\* nobody listens to holds nothing (the count Recv returns with ErrLagged, and
\* the reset in Subscription.Close).
THEOREM BusAccountsForEvents == BusAssumption /\ BusSpec => [](BusTypeOK /\ EveryGapIsTold /\ LagIsForced /\ NothingRetained)
  <1> SUFFICES ASSUME BusAssumption PROVE BusSpec => [](BusTypeOK /\ EveryGapIsTold /\ LagIsForced /\ NothingRetained)
    OBVIOUS
  <1>1. ASSUME BInv PROVE BusTypeOK
    <2>1. topic.first \in 0 .. MaxEvents /\ topic.next \in 0 .. MaxEvents
      BY <1>1 DEF BInv, BusTyped, Topics, RingHolds, BusAssumption
    <2>2. \A r \in Readers : sub[r].open => sub[r].cursor <= topic.next
      BY <1>1, SubIs DEF ReaderHolds
    <2> QED BY <1>1, <2>1, <2>2 DEF BInv, BusTyped, Topics, RingHolds, BusTypeOK, Open
  <1>2. ASSUME BInv PROVE EveryGapIsTold /\ LagIsForced /\ NothingRetained
    BY <1>2, SubIs DEF BInv, ReaderHolds, EveryGapIsTold, LagIsForced
  <1> QED BY <1>1, <1>2, BusInvariant, PTL

-----------------------------------------------------------------------------
(* The lossless sink.                                                      *)

SinkTyped ==
    /\ sink \in [closed : BOOLEAN, done : BOOLEAN, eof : BOOLEAN, events : Seq(SinkEvent)]
    /\ emit \in [Producers -> {"idle", "sending"}] /\ close \in [Owners -> {"idle", "waiting", "returned"}]
    /\ count \in [Producers -> 0 .. MaxEmits] /\ accepted \subseteq SinkEvent /\ refused \subseteq SinkEvent
    /\ read \in Seq(SinkEvent) /\ ended \in BOOLEAN /\ panicked = FALSE

\* Who closes has marked the sink first, and closes the channel when nobody sends.
ClosingHolds ==
    /\ Len(sink.events) <= Room /\ (once = "done" <=> sink.eof)
    /\ \A o \in Owners : close[o] = "waiting" => sink.closed
    /\ sink.eof => sink.closed /\ \A p \in Producers : emit[p] = "idle"
    /\ ended => sink.eof /\ sink.events = <<>>

\* What was accepted is what the consumer read and what is in the channel, each
\* once; a call that is still sending is neither accepted nor refused.
Elements(s) == {s[i] : i \in DOMAIN s}

FlowHolds ==
    /\ accepted = Elements(read) \cup Elements(sink.events)
    /\ IsFiniteSet(accepted) /\ Cardinality(accepted) = Len(read) + Len(sink.events)
    /\ accepted \cap refused = {}
    /\ \A e \in accepted \cup refused : e[2] <= count[e[1]] /\ (emit[e[1]] = "sending" => e[2] < count[e[1]])
    /\ \A p \in Producers : emit[p] = "sending" => count[p] > 0

SInv == SinkTyped /\ ClosingHolds /\ FlowHolds

LEMMA SinkInitHolds == ASSUME SinkAssumption, SinkInit PROVE SInv
  <1>1. sink.events = <<>> /\ read = <<>> /\ accepted = {} /\ refused = {}
        /\ Elements(read) = {} /\ Elements(sink.events) = {} /\ Len(<<>>) = 0
    BY DEF SinkInit, Elements
  <1>2. SinkTyped
    <2>1. <<>> \in Seq(SinkEvent) /\ 0 \in 0 .. MaxEmits
      BY DEF SinkAssumption
    <2>2. sink \in [closed : BOOLEAN, done : BOOLEAN, eof : BOOLEAN, events : Seq(SinkEvent)]
      BY <2>1 DEF SinkInit
    <2>3. /\ emit \in [Producers -> {"idle", "sending"}]
          /\ close \in [Owners -> {"idle", "waiting", "returned"}]
          /\ count \in [Producers -> 0 .. MaxEmits]
      BY <2>1 DEF SinkInit
    <2> QED BY <1>1, <2>1, <2>2, <2>3 DEF SinkInit, SinkTyped
  <1>3. ClosingHolds
    BY <1>1 DEF SinkInit, ClosingHolds, SinkAssumption
  <1>4. FlowHolds
    BY <1>1, FS_EmptySet DEF SinkInit, FlowHolds
  <1> QED BY <1>2, <1>3, <1>4 DEF SInv

\* A call that is refused, at once or while it sends.
LEMMA RefusedKeeps ==
  ASSUME SInv, SinkAssumption, NEW p \in Producers, NEW n \in 1 .. MaxEmits, refused' = refused \cup {<<p, n>>},
         UNCHANGED <<sink, close, once, accepted, read, ended, panicked>>,
         emit' = [emit EXCEPT ![p] = "idle"], count' = [count EXCEPT ![p] = n],
         \/ n = count[p] + 1
         \/ n = count[p] /\ emit[p] = "sending"
  PROVE  SInv'
  <1>1. /\ emit \in [Producers -> {"idle", "sending"}] /\ count \in [Producers -> 0 .. MaxEmits]
        /\ accepted \subseteq SinkEvent /\ refused \subseteq SinkEvent
    BY DEF SInv, SinkTyped
  <1>2. <<p, n>> \in SinkEvent /\ MaxEmits \in Nat
    BY DEF SinkEvent, SinkAssumption
  <1>3. /\ emit'[p] = "idle" /\ count'[p] = n /\ count' \in [Producers -> 0 .. MaxEmits]
        /\ emit' \in [Producers -> {"idle", "sending"}]
        /\ \A o \in Producers \ {p} : emit'[o] = emit[o] /\ count'[o] = count[o]
    BY <1>1, <1>2
  <1>4. SinkTyped'
    BY <1>1, <1>2, <1>3 DEF SInv, SinkTyped
  <1>5. ClosingHolds'
    BY <1>1, <1>3 DEF SInv, ClosingHolds
  <1>6. \A e \in accepted \cup refused : /\ e \in SinkEvent /\ e[1] \in Producers /\ e[2] \in Nat /\ e = <<e[1], e[2]>>
                                         /\ e[2] <= count[e[1]] /\ (emit[e[1]] = "sending" => e[2] < count[e[1]])
    BY <1>1, <1>2 DEF SInv, FlowHolds, SinkEvent
  <1>7. count[p] \in Nat /\ n \in Nat
    BY <1>1, <1>2
  <1>8. <<p, n>> \notin accepted
    BY <1>6, <1>7
  <1>9. ASSUME NEW e \in accepted' \cup refused'
        PROVE  e[2] <= count'[e[1]] /\ (emit'[e[1]] = "sending" => e[2] < count'[e[1]])
    <2>1. CASE e = <<p, n>>
      BY <1>3, <1>7, <2>1
    <2>2. CASE e # <<p, n>>
      <3>1. e \in accepted \cup refused
        BY <2>2
      <3> QED BY <1>3, <1>6, <1>7, <3>1
    <2> QED BY <2>1, <2>2
  <1>10. \A o \in Producers : emit'[o] = "sending" => count'[o] > 0
    BY <1>3 DEF SInv, FlowHolds
  <1>11. FlowHolds'
    BY <1>8, <1>9, <1>10 DEF SInv, FlowHolds
  <1> QED BY <1>4, <1>5, <1>11 DEF SInv

LEMMA DeliverKeeps == ASSUME SInv, SinkAssumption, NEW p \in Producers, Deliver(p) PROVE SInv'
  <1>1. /\ sink \in [closed : BOOLEAN, done : BOOLEAN, eof : BOOLEAN, events : Seq(SinkEvent)]
        /\ emit \in [Producers -> {"idle", "sending"}] /\ count \in [Producers -> 0 .. MaxEmits]
        /\ accepted \subseteq SinkEvent /\ refused \subseteq SinkEvent /\ read \in Seq(SinkEvent)
    BY DEF SInv, SinkTyped
  <1>2. emit[p] = "sending" /\ ~sink.eof /\ Len(sink.events) < Room
    BY <1>1 DEF Deliver, SInv, ClosingHolds
  <1>3. PICK e : e = <<p, count[p]>>
    OBVIOUS
  <1>4. count[p] \in Nat /\ count[p] > 0 /\ count[p] <= MaxEmits /\ MaxEmits \in Nat
    BY <1>1, <1>2 DEF SInv, FlowHolds, SinkAssumption
  <1>5. e \in SinkEvent
    BY <1>3, <1>4 DEF SinkEvent
  <1>6. PICK events : events = Append(sink.events, e)
    OBVIOUS
  <1>7. /\ sink.events \in Seq(SinkEvent) /\ Len(sink.events) \in Nat /\ events \in Seq(SinkEvent)
        /\ Len(events) = Len(sink.events) + 1
    BY <1>1, <1>5, <1>6
  <1>8. sink' = [sink EXCEPT !.events = events] /\ panicked' = panicked /\ accepted' = accepted \cup {e}
        /\ emit' = [emit EXCEPT ![p] = "idle"] /\ UNCHANGED <<close, once, count, refused, read, ended>>
    BY <1>2, <1>3, <1>6 DEF Deliver, SInv, SinkTyped
  <1>9. /\ sink' \in [closed : BOOLEAN, done : BOOLEAN, eof : BOOLEAN, events : Seq(SinkEvent)]
        /\ sink'.closed = sink.closed /\ sink'.eof = sink.eof /\ sink'.events = events
    BY <1>1, <1>7, <1>8
  <1>10. /\ emit' \in [Producers -> {"idle", "sending"}] /\ emit'[p] = "idle"
         /\ \A o \in Producers \ {p} : emit'[o] = emit[o]
    BY <1>1, <1>8
  <1>11. SinkTyped'
    BY <1>1, <1>5, <1>8, <1>9, <1>10 DEF SInv, SinkTyped
  <1>12. ClosingHolds'
    BY <1>2, <1>7, <1>8, <1>9, <1>10 DEF SInv, ClosingHolds, SinkAssumption
  <1>13. \A x \in accepted \cup refused : /\ x \in SinkEvent /\ x[1] \in Producers /\ x[2] \in Nat
                                          /\ x[2] <= count[x[1]] /\ (emit[x[1]] = "sending" => x[2] < count[x[1]])
    BY <1>1, <1>4 DEF SInv, FlowHolds, SinkEvent
  <1>14. e \notin accepted \cup refused
    BY <1>2, <1>3, <1>4, <1>13
  <1>15. Elements(events) = Elements(sink.events) \cup {e}
    <2>1. DOMAIN events = 1 .. Len(sink.events) + 1 /\ DOMAIN sink.events = 1 .. Len(sink.events)
      BY <1>1, <1>5, <1>6, <1>7
    <2>2. /\ events[Len(sink.events) + 1] = e
          /\ \A i \in 1 .. Len(sink.events) : events[i] = sink.events[i]
      BY <1>1, <1>5, <1>6, <1>7
    <2>3. \A i \in DOMAIN events : i \in DOMAIN sink.events \/ i = Len(sink.events) + 1
      BY <1>7, <2>1
    <2>4. Len(sink.events) + 1 \in DOMAIN events /\ \A i \in DOMAIN sink.events : i \in DOMAIN events
      BY <1>7, <2>1
    <2> QED BY <2>1, <2>2, <2>3, <2>4 DEF Elements
  <1>16. IsFiniteSet(accepted \cup {e}) /\ Cardinality(accepted \cup {e}) = Cardinality(accepted) + 1
    BY <1>14, FS_AddElement DEF SInv, FlowHolds
  <1>17. ASSUME NEW x \in accepted' \cup refused'
         PROVE  x[2] <= count'[x[1]] /\ (emit'[x[1]] = "sending" => x[2] < count'[x[1]])
    <2>1. CASE x = e
      BY <1>3, <1>4, <1>8, <1>10, <2>1
    <2>2. CASE x # e
      BY <1>8, <1>10, <1>13, <2>2
    <2> QED BY <2>1, <2>2
  <1>18. FlowHolds'
    <2>1. accepted' = Elements(read') \cup Elements(sink'.events)
      BY <1>8, <1>9, <1>15 DEF SInv, FlowHolds
    <2>2. Len(read) \in Nat
      BY <1>1
    <2>3. IsFiniteSet(accepted') /\ Cardinality(accepted') = Len(read') + Len(sink'.events)
      <3>1. Cardinality(accepted) = Len(read) + Len(sink.events)
        BY DEF SInv, FlowHolds
      <3>2. Cardinality(accepted') = (Len(read) + Len(sink.events)) + 1 /\ IsFiniteSet(accepted')
        BY <1>8, <1>16, <3>1
      <3>3. PICK a, b : a = Len(read) /\ b = Len(sink.events)
        OBVIOUS
      <3>4. Len(read') = a /\ Len(sink'.events) = b + 1
        BY <1>7, <1>8, <1>9, <3>3
      <3>5. a \in Nat /\ b \in Nat /\ Cardinality(accepted') = (a + b) + 1
        BY <1>7, <2>2, <3>2, <3>3
      <3>6. (a + b) + 1 = a + (b + 1)
        BY <3>5
      <3> QED BY <3>2, <3>4, <3>5, <3>6
    <2>4. accepted' \cap refused' = {}
      BY <1>8, <1>14 DEF SInv, FlowHolds
    <2>5. \A o \in Producers : emit'[o] = "sending" => count'[o] > 0
      BY <1>8, <1>10 DEF SInv, FlowHolds
    <2> QED BY <1>17, <2>1, <2>3, <2>4, <2>5 DEF FlowHolds
  <1> QED BY <1>11, <1>12, <1>18 DEF SInv

LEMMA DrainKeeps == ASSUME SInv, SinkAssumption, Drain PROVE SInv'
  <1>1. /\ sink \in [closed : BOOLEAN, done : BOOLEAN, eof : BOOLEAN, events : Seq(SinkEvent)]
        /\ sink.events # <<>> /\ read \in Seq(SinkEvent) /\ sink.events \in Seq(SinkEvent)
    BY DEF Drain, SInv, SinkTyped
  <1>2. PICK e, events, seen : e = Head(sink.events) /\ events = Tail(sink.events) /\ seen = Append(read, e)
    OBVIOUS
  <1>3. /\ Len(sink.events) \in Nat /\ Len(sink.events) > 0 /\ e = sink.events[1] /\ e \in SinkEvent
        /\ events \in Seq(SinkEvent) /\ Len(events) = Len(sink.events) - 1
        /\ \A i \in 1 .. Len(events) : events[i] = sink.events[i + 1]
    BY <1>1, <1>2
  <1>4. /\ seen \in Seq(SinkEvent) /\ Len(read) \in Nat /\ Len(seen) = Len(read) + 1 /\ seen[Len(read) + 1] = e
        /\ \A i \in 1 .. Len(read) : seen[i] = read[i]
    BY <1>1, <1>2, <1>3
  <1>5. sink' = [sink EXCEPT !.events = events] /\ read' = seen
        /\ UNCHANGED <<emit, close, once, count, accepted, refused, ended, panicked>>
    BY <1>2 DEF Drain
  <1>6. /\ sink' \in [closed : BOOLEAN, done : BOOLEAN, eof : BOOLEAN, events : Seq(SinkEvent)]
        /\ sink'.closed = sink.closed /\ sink'.eof = sink.eof /\ sink'.events = events
    BY <1>1, <1>3, <1>5
  <1>7. SinkTyped'
    BY <1>4, <1>5, <1>6 DEF SInv, SinkTyped
  <1>8. ~ended
    BY <1>1 DEF SInv, ClosingHolds
  <1>9. ClosingHolds'
    <2>1. PICK a, b : a = Len(sink.events) /\ b = Len(events)
      OBVIOUS
    <2>2. a \in Nat /\ b = a - 1 /\ a <= Room /\ Room \in Nat
      BY <1>3, <2>1 DEF SInv, ClosingHolds, SinkAssumption
    <2>3. b <= Room
      BY <2>2
    <2>4. Len(sink'.events) <= Room
      BY <1>6, <2>1, <2>3
    <2> QED BY <1>5, <1>6, <1>8, <2>4 DEF SInv, ClosingHolds
  <1>10. Elements(seen) = Elements(read) \cup {e}
    <2>1. DOMAIN seen = 1 .. Len(read) + 1 /\ DOMAIN read = 1 .. Len(read)
      BY <1>1, <1>4
    <2>2. \A i \in DOMAIN seen : i \in DOMAIN read \/ i = Len(read) + 1
      BY <1>4, <2>1
    <2>3. Len(read) + 1 \in DOMAIN seen /\ \A i \in DOMAIN read : i \in DOMAIN seen
      BY <1>4, <2>1
    <2> QED BY <1>4, <2>1, <2>2, <2>3 DEF Elements
  <1>11. Elements(sink.events) = Elements(events) \cup {e}
    <2>1. DOMAIN sink.events = 1 .. Len(sink.events) /\ DOMAIN events = 1 .. Len(events)
      BY <1>1, <1>3
    <2>2. ASSUME NEW i \in DOMAIN sink.events PROVE sink.events[i] \in Elements(events) \cup {e}
      <3>1. CASE i = 1
        BY <1>3, <3>1
      <3>2. CASE i # 1
        <4>1. i - 1 \in 1 .. Len(events) /\ (i - 1) + 1 = i
          BY <1>3, <2>1, <3>2
        <4>2. events[i - 1] = sink.events[i]
          BY <1>3, <4>1
        <4> QED BY <2>1, <4>1, <4>2 DEF Elements
      <3> QED BY <3>1, <3>2
    <2>3. ASSUME NEW i \in DOMAIN events PROVE events[i] \in Elements(sink.events)
      <3>1. i + 1 \in DOMAIN sink.events /\ events[i] = sink.events[i + 1]
        BY <1>3, <2>1
      <3> QED BY <3>1 DEF Elements
    <2>4. e \in Elements(sink.events)
      <3>1. 1 \in DOMAIN sink.events
        BY <1>3, <2>1
      <3> QED BY <1>3, <3>1 DEF Elements
    <2>5. Elements(sink.events) \subseteq Elements(events) \cup {e}
      BY <2>2 DEF Elements
    <2>6. Elements(events) \subseteq Elements(sink.events)
      BY <2>3 DEF Elements
    <2> QED BY <2>4, <2>5, <2>6
  <1>12. FlowHolds'
    <2>1. accepted = Elements(read) \cup Elements(sink.events)
      BY DEF SInv, FlowHolds
    <2>2. accepted' = Elements(read') \cup Elements(sink'.events)
      BY <1>5, <1>6, <1>10, <1>11, <2>1
    <2>3. IsFiniteSet(accepted') /\ Cardinality(accepted') = Len(read) + Len(sink.events)
      BY <1>5 DEF SInv, FlowHolds
    <2>4. PICK a, b : a = Len(read) /\ b = Len(sink.events)
      OBVIOUS
    <2>5. Len(read') = a + 1 /\ Len(sink'.events) = b - 1
      BY <1>3, <1>4, <1>5, <1>6, <2>4
    <2>6. a \in Nat /\ b \in Nat /\ Cardinality(accepted') = a + b
      BY <1>3, <1>4, <2>3, <2>4
    <2>7. a + b = (a + 1) + (b - 1)
      BY <2>6
    <2>8. Cardinality(accepted') = Len(read') + Len(sink'.events)
      BY <2>5, <2>6, <2>7
    <2>9. /\ accepted' \cap refused' = {}
          /\ \A x \in accepted' \cup refused' : /\ x[2] <= count'[x[1]]
                                               /\ (emit'[x[1]] = "sending" => x[2] < count'[x[1]])
          /\ \A p \in Producers : emit'[p] = "sending" => count'[p] > 0
      BY <1>5 DEF SInv, FlowHolds
    <2> QED BY <2>2, <2>3, <2>8, <2>9 DEF FlowHolds
  <1> QED BY <1>7, <1>9, <1>12 DEF SInv

LEMMA SinkStepHolds == ASSUME SInv, SinkAssumption, [SinkNext]_sinkVars PROVE SInv'
  <1>0. /\ emit \in [Producers -> {"idle", "sending"}] /\ count \in [Producers -> 0 .. MaxEmits] /\ MaxEmits \in Nat
        /\ sink \in [closed : BOOLEAN, done : BOOLEAN, eof : BOOLEAN, events : Seq(SinkEvent)]
        /\ close \in [Owners -> {"idle", "waiting", "returned"}]
    BY DEF SInv, SinkTyped, SinkAssumption
  <1>1. ASSUME NEW p \in Producers, Admit(p) PROVE SInv'
    <2>1. ~sink.eof /\ ~sink.closed /\ count[p] + 1 \in 0 .. MaxEmits /\ count[p] \in Nat
      BY <1>0, <1>1 DEF Admit, SInv, ClosingHolds
    <2> PICK n \in 0 .. MaxEmits : n = count[p] + 1
      BY <2>1
    <2>2. /\ emit' \in [Producers -> {"idle", "sending"}] /\ count' \in [Producers -> 0 .. MaxEmits]
          /\ count'[p] = n /\ \A o \in Producers \ {p} : emit'[o] = emit[o] /\ count'[o] = count[o]
          /\ UNCHANGED <<sink, close, once, accepted, refused, read, ended, panicked>>
      BY <1>0, <1>1 DEF Admit
    <2>3. SinkTyped' /\ ClosingHolds'
      BY <2>1, <2>2 DEF SInv, SinkTyped, ClosingHolds
    <2>4. ASSUME NEW e \in accepted \cup refused
          PROVE  e[2] <= count'[e[1]] /\ (emit'[e[1]] = "sending" => e[2] < count'[e[1]])
      <3>1. /\ e[1] \in Producers /\ e[2] \in Nat /\ e[2] <= count[e[1]]
            /\ (emit[e[1]] = "sending" => e[2] < count[e[1]])
        BY <1>0 DEF SInv, SinkTyped, FlowHolds, SinkEvent
      <3> QED BY <2>1, <2>2, <3>1
    <2>5. \A o \in Producers : emit'[o] = "sending" => count'[o] > 0
      BY <2>1, <2>2 DEF SInv, FlowHolds
    <2>6. FlowHolds'
      BY <2>2, <2>4, <2>5 DEF SInv, FlowHolds
    <2> QED BY <2>3, <2>6 DEF SInv
  <1>2. ASSUME NEW p \in Producers, Refuse(p) PROVE SInv'
    <2>1. count[p] + 1 \in 1 .. MaxEmits
      BY <1>0, <1>2 DEF Refuse
    <2> PICK n \in 1 .. MaxEmits : n = count[p] + 1
      BY <2>1
    <2>2. emit' = [emit EXCEPT ![p] = "idle"] /\ count' = [count EXCEPT ![p] = n]
      BY <1>0, <1>2 DEF Refuse
    <2> QED BY <1>2, <2>2, RefusedKeeps DEF Refuse
  <1>3. ASSUME NEW p \in Producers, GiveUp(p) \/ CancelEmit(p) PROVE SInv'
    <2>1. emit[p] = "sending"
      BY <1>3 DEF GiveUp, CancelEmit
    <2> PICK n \in 1 .. MaxEmits : n = count[p]
      BY <1>0, <2>1 DEF SInv, FlowHolds
    <2>2. emit' = [emit EXCEPT ![p] = "idle"] /\ count' = [count EXCEPT ![p] = n]
      BY <1>0, <1>3 DEF GiveUp, CancelEmit
    <2> QED BY <1>3, <2>1, <2>2, RefusedKeeps DEF GiveUp, CancelEmit
  <1>4. ASSUME NEW o \in Owners, CloseFirst(o) \/ CloseFinish(o) \/ CloseAgain(o) PROVE SInv'
    <2>1. /\ UNCHANGED <<emit, count, accepted, refused, read, ended, panicked>>
          /\ close' \in [Owners -> {"idle", "waiting", "returned"}]
          /\ sink' \in [closed : BOOLEAN, done : BOOLEAN, eof : BOOLEAN, events : Seq(SinkEvent)]
          /\ sink'.events = sink.events
      BY <1>0, <1>4 DEF CloseFirst, CloseFinish, CloseAgain
    <2>2. SinkTyped' /\ FlowHolds'
      BY <2>1 DEF SInv, SinkTyped, FlowHolds
    <2>3. ClosingHolds'
      <3>1. CASE CloseFirst(o)
        BY <1>0, <2>1, <3>1 DEF CloseFirst, SInv, ClosingHolds
      <3>2. CASE CloseFinish(o)
        <4>1. \A p \in Producers : emit[p] = "idle"
          BY <1>0, <3>2 DEF CloseFinish, Inflight
        <4> QED BY <1>0, <2>1, <3>2, <4>1 DEF CloseFinish, SInv, ClosingHolds
      <3>3. CASE CloseAgain(o)
        BY <1>0, <2>1, <3>3 DEF CloseAgain, SInv, ClosingHolds
      <3> QED BY <1>4, <3>1, <3>2, <3>3
    <2> QED BY <2>2, <2>3 DEF SInv
  <1>5. CASE SeeEnd
    BY <1>5 DEF SeeEnd, SInv, SinkTyped, ClosingHolds, FlowHolds
  <1>6. CASE UNCHANGED sinkVars
    BY <1>6 DEF sinkVars, SInv, SinkTyped, ClosingHolds, FlowHolds
  <1> QED BY <1>1, <1>2, <1>3, <1>4, <1>5, <1>6, DeliverKeeps, DrainKeeps DEF SinkNext

\* Emit, Close and the consumer agree on what was accepted, in every state, for
\* any producers, owners and room in the channel.
THEOREM SinkInvariant == SinkAssumption /\ SinkSpec => []SInv
  <1> SUFFICES ASSUME SinkAssumption PROVE SinkSpec => []SInv
    OBVIOUS
  <1>1. SinkInit => SInv
    BY SinkInitHolds
  <1>2. SInv /\ [SinkNext]_sinkVars => SInv'
    BY SinkStepHolds
  <1> QED BY <1>1, <1>2, PTL DEF SinkSpec

\* Nobody sends on the closed channel, and the consumer that saw the end has
\* received exactly the events that Emit accepted, each once.
THEOREM SinkLosesNothing == SinkAssumption /\ SinkSpec => [](SinkTypeOK /\ NoSendAfterClose /\ Lossless)
  <1> SUFFICES ASSUME SinkAssumption PROVE SinkSpec => [](SinkTypeOK /\ NoSendAfterClose /\ Lossless)
    OBVIOUS
  <1>1. ASSUME SInv PROVE SinkTypeOK /\ NoSendAfterClose
    BY <1>1 DEF SInv, SinkTyped, ClosingHolds, SinkTypeOK, NoSendAfterClose, Inflight
  <1>2. ASSUME SInv PROVE Lossless
    <2>1. accepted \cap refused = {}
      BY <1>2 DEF SInv, FlowHolds
    <2>2. CASE ended
      <3>1. sink.events = <<>> /\ Elements(sink.events) = {} /\ Len(sink.events) = 0
        BY <1>2, <2>2 DEF SInv, ClosingHolds, Elements
      <3>2. Len(read) \in Nat
        BY <1>2 DEF SInv, SinkTyped
      <3> QED BY <1>2, <2>1, <3>1, <3>2 DEF SInv, FlowHolds, Lossless, Elements
    <2> QED BY <2>1, <2>2 DEF Lossless
  <1> QED BY <1>1, <1>2, SinkInvariant, PTL

-----------------------------------------------------------------------------
(* Shell processes.                                                        *)

Steps   == {"idle", "begun", "locking", "gating", "gated", "intended", "started", "waiting", "aborting", "killing"}
Cleaner == {"attempt", "close", "reset"}
Fact(s) == {"intent"} \cup s
JobRec  == [proc : {"none", "alive", "closing", "reaped", "stuck", "unknown"}, at : {"new", "running", "judged", "done"},
            listed : BOOLEAN, held : BOOLEAN, watched : BOOLEAN, bad : BOOLEAN,
            facts : {{"intent"}, {"intent", "failed"}, {"intent", "abandoned"}, {"intent", "outcome"}}]

OwnRec  == [on : BOOLEAN, closed : BOOLEAN, life : BOOLEAN, run : 0 .. MaxRun, live : BOOLEAN,
            reserved : BOOLEAN, gen : 0 .. MaxRun, started : 0 .. MaxPerRun]
CleanRec == [at : {"off", "first", "calls", "gate", "second", "clean"}, jobs : SUBSET Nat]
CallRec == [pc : Steps, background : BOOLEAN, job : Nat]

ShellTyped ==
    /\ own \in OwnRec
    /\ gate \in Caller \cup Cleaner \cup {NoHolder}
    /\ attempt \in [Attempt -> {"none", "bound", "running", "ending", "ended", "closing", "over"}]
    /\ call \in [Caller -> CallRec]
    /\ job \in Seq(JobRec)
    /\ tool \in BOOLEAN /\ closed \in BOOLEAN
    /\ cleaner \in [Cleaner -> CleanRec]

\* What is known of a process.
Fits(j) ==
    /\ j.at = "new" => ~j.listed /\ ~j.watched /\ ~j.bad /\ j.proc \in {"none", "alive", "unknown"}
    /\ j.at # "new" => j.proc \in {"alive", "closing", "reaped", "stuck"}
    /\ j.proc \in {"alive", "closing"} /\ j.at # "new" => j.listed
    /\ j.at \in {"running", "judged"} => j.listed /\ j.facts = {"intent"}
    /\ j.listed => "abandoned" \notin j.facts
    /\ j.held => j.listed
    /\ j.listed /\ ~j.held => j.proc = "reaped"
    /\ j.watched => j.proc = "stuck" \/ (j.proc = "reaped" /\ ~j.held)
    /\ "abandoned" \in j.facts => j.at \in {"new", "done"}
    /\ "failed" \in j.facts => j.proc = "none"

JobsHold == \A i \in DOMAIN job : Fits(job[i])

Born(x) == [NewJob EXCEPT !.proc = x]

CallHolds(c) ==
    /\ call[c].pc = "intended" => call[c].job \in DOMAIN job /\ job[call[c].job] = NewJob
    /\ call[c].pc = "started" => call[c].job \in DOMAIN job /\ job[call[c].job] = Born("alive")
    /\ call[c].pc \in {"intended", "started"} => Budget
    /\ call[c].pc \in {"waiting", "aborting", "killing"} => call[c].job \in Listed

CallsHold == \A c \in Caller : CallHolds(c)

NewHolds ==
    \A i \in DOMAIN job : job[i].at = "new" /\ job[i].proc = "alive" =>
        \E c \in Caller : call[c].pc = "started" /\ call[c].job = i

LockHolds ==
    /\ \A c, d \in Caller : Locking(c) /\ Locking(d) => c = d
    /\ \A i, k \in DOMAIN job : job[i].held /\ job[k].held => i = k
    /\ tool => (\A c \in Caller : ~Locking(c)) /\ \A i \in DOMAIN job : ~job[i].held
    /\ \A c \in Caller, i \in DOMAIN job : ~(Locking(c) /\ job[i].held)

Acting == Busy # {}

OwnerHolds ==
    /\ ~own.on => own = NoOwner /\ Listed = {}
    /\ own.on => own.gen \in Attempt
    /\ own.closed => ~own.life
    /\ own.run # 0 => own.on /\ own.run = own.gen /\ own.reserved
    /\ own.run # 0 /\ ~(attempt[own.gen] = "running") => ~own.life /\ attempt[own.gen] \in {"ending", "ended", "closing", "over"}
    /\ own.run # 0 /\ attempt[own.gen] = "running" => own.life \/ own.closed
    /\ Acting => own.run # 0 /\ attempt[own.gen] = "running"
    /\ \A n \in Attempt : attempt[n] \in {"running", "ending"} => own.run = n
    /\ own.on /\ ~own.closed /\ ~own.life /\ own.run = 0 => CompleteLocked

CleanHolds ==
    /\ Unclean("attempt") => own.run # 0 /\ ~own.life /\ attempt[own.gen] \in {"ending", "closing"}
    /\ Unclean("reset") => own.on /\ ~own.reserved /\ own.closed
    /\ cleaner["attempt"].at # "clean" /\ cleaner["reset"].at # "clean"
    /\ closed => (own.on => own.closed) /\ cleaner["reset"].at = "off"
    /\ cleaner["close"].at # "off" => closed
    /\ cleaner["close"].at \in {"gate", "second", "clean"} => ~Acting
    /\ cleaner["close"].at = "clean" => CompleteLocked

Bounded == Cardinality(Listed) <= MaxListed

ShInv ==
    /\ ShellTyped /\ Bounded
    /\ JobsHold /\ CallsHold
    /\ NewHolds /\ LockHolds /\ OwnerHolds /\ CleanHolds
-----------------------------------------------------------------------------
Over(j) == j.at = "done" /\ j.watched /\ j.proc = "reaped"

LEMMA FunctionIsSeq == ASSUME NEW S, NEW n \in Nat, NEW f \in [1 .. n -> S] PROVE f \in Seq(S) /\ Len(f) = n
  OBVIOUS

LEMMA Shapes ==
  ASSUME ShInv
  PROVE  /\ job \in Seq(JobRec) /\ Len(job) \in Nat /\ DOMAIN job = 1 .. Len(job) /\ job \in [DOMAIN job -> JobRec]
         /\ \A i \in DOMAIN job : job[i] \in JobRec /\ Fits(job[i])
         /\ Listed \subseteq DOMAIN job /\ IsFiniteSet(Listed) /\ Cardinality(Listed) \in Nat
         /\ own \in OwnRec /\ call \in [Caller -> CallRec] /\ attempt \in [Attempt -> {"none", "bound", "running", "ending", "ended", "closing", "over"}]
         /\ cleaner \in [Cleaner -> CleanRec]
  <1>1. job \in Seq(JobRec)
    BY DEF ShInv, ShellTyped
  <1>2. Len(job) \in Nat /\ DOMAIN job = 1 .. Len(job) /\ job \in [DOMAIN job -> JobRec]
    BY <1>1, LenProperties
  <1>3. \A i \in DOMAIN job : job[i] \in JobRec /\ Fits(job[i])
    BY <1>2 DEF ShInv, JobsHold
  <1>4. Listed \subseteq DOMAIN job
    BY DEF Listed
  <1>5. IsFiniteSet(Listed) /\ Cardinality(Listed) \in Nat
    <2>1. IsFiniteSet(DOMAIN job)
      BY <1>2, FS_Interval
    <2>2. IsFiniteSet(Listed)
      BY <1>4, <2>1, FS_Subset
    <2> QED BY <2>2, FS_CardinalityType
  <1> QED BY <1>1, <1>2, <1>3, <1>4, <1>5 DEF ShInv, ShellTyped

LEMMA CompleteIs == CompleteLocked <=> \A i \in Listed : Over(job[i])
  BY DEF CompleteLocked, Finished, Over

\* A step of processes that somebody lists: none is born, forgotten or locks.
Evolves ==
    /\ job' \in [DOMAIN job -> JobRec]
    /\ \A i \in DOMAIN job :
         \/ job'[i] = job[i]
         \/ /\ job[i].listed /\ job'[i].listed /\ Fits(job'[i])
            /\ job'[i].held => job[i].held
            /\ Over(job[i]) => Over(job'[i])

LEMMA EvolvesTo ==
  ASSUME ShInv, Evolves
  PROVE  /\ job' \in Seq(JobRec) /\ DOMAIN job' = DOMAIN job /\ Len(job') = Len(job) /\ JobsHold'
         /\ Listed' = Listed /\ (CompleteLocked => CompleteLocked')
         /\ \A i \in DOMAIN job : /\ job'[i].held => job[i].held
                                  /\ job[i].at = "new" \/ job'[i].at = "new" => job'[i] = job[i]
  <1>1. /\ Len(job) \in Nat /\ DOMAIN job = 1 .. Len(job) /\ job' \in [1 .. Len(job) -> JobRec]
        /\ \A i \in DOMAIN job : job[i] \in JobRec /\ Fits(job[i])
    BY Shapes DEF Evolves
  <1>2. job' \in Seq(JobRec) /\ Len(job') = Len(job) /\ DOMAIN job' = DOMAIN job
    BY <1>1, FunctionIsSeq
  <1>3. JobsHold'
    BY <1>1, <1>2 DEF JobsHold, Evolves
  <1>4. Listed' = Listed
    BY <1>2 DEF Listed, Evolves
  <1>5. CompleteLocked => CompleteLocked'
    <2>1. CompleteLocked' <=> \A i \in Listed' : Over(job'[i])
      BY DEF CompleteLocked, Finished, Over, Listed
    <2>2. \A i \in Listed : Over(job[i]) => Over(job'[i])
      BY DEF Evolves, Listed
    <2> QED BY <1>4, <2>1, <2>2, CompleteIs
  <1>6. ASSUME NEW i \in DOMAIN job
        PROVE  /\ job'[i].held => job[i].held
               /\ job[i].at = "new" \/ job'[i].at = "new" => job'[i] = job[i]
    BY <1>1 DEF Evolves, Fits
  <1> QED BY <1>2, <1>3, <1>4, <1>5, <1>6

LEMMA EvolveKeeps ==
  ASSUME ShInv, Evolves, UNCHANGED <<call, tool>>, own'.started = own.started \/ ~Acting
  PROVE  CallsHold' /\ NewHolds' /\ LockHolds'
  <1>1. /\ DOMAIN job' = DOMAIN job /\ Listed' = Listed
        /\ \A i \in DOMAIN job : /\ job'[i].held => job[i].held
                                 /\ job[i].at = "new" \/ job'[i].at = "new" => job'[i] = job[i]
    BY EvolvesTo
  <1>2. \A c \in Caller : CallHolds(c)'
    <2> SUFFICES ASSUME NEW c \in Caller PROVE CallHolds(c)'
      OBVIOUS
    <2>1. CallHolds(c)
      BY DEF ShInv, CallsHold
    <2>2. CASE c \notin Busy
      <3>1. call[c].pc = "idle"
        BY <2>2 DEF Busy
      <3> QED BY <3>1 DEF CallHolds
    <2>3. CASE c \in Busy
      <3>1. Budget' <=> Budget
        BY <1>1, <2>3 DEF Budget, Acting
      <3>2. NewJob.at = "new" /\ Born("alive").at = "new"
        BY DEF NewJob, Born
      <3> QED BY <1>1, <2>1, <3>1, <3>2 DEF CallHolds
    <2> QED BY <2>2, <2>3
  <1>3. NewHolds'
    BY <1>1 DEF ShInv, NewHolds
  <1>4. LockHolds'
    BY <1>1 DEF ShInv, LockHolds, Locking
  <1> QED BY <1>2, <1>3, <1>4 DEF CallsHold

\* The run and the cleanups do not notice what a call or a process does.
LEMMA OthersKeep ==
  ASSUME ShInv, UNCHANGED <<attempt, cleaner, closed>>,
         own' = own \/ (Acting /\ own' \in OwnRec /\ \E n \in Nat : own' = [own EXCEPT !.started = n]),
         Busy' \subseteq Busy \/ Bound,
         Acting \/ Bound \/ (Listed' = Listed /\ (CompleteLocked => CompleteLocked'))
  PROVE  OwnerHolds' /\ CleanHolds'
  <1>1. OwnerHolds /\ CleanHolds /\ own \in OwnRec
    BY DEF ShInv, ShellTyped
  <1>2. /\ own'.on = own.on /\ own'.closed = own.closed /\ own'.life = own.life /\ own'.run = own.run
        /\ own'.reserved = own.reserved /\ own'.gen = own.gen /\ own'.live = own.live
    BY <1>1 DEF OwnRec
  <1>3. Acting => own.on /\ own' \in OwnRec
    BY <1>1 DEF OwnerHolds
  <1>4. ~own.on => own' = own /\ ~Acting /\ ~Bound
    BY <1>1, <1>3 DEF Bound
  <1>5. Acting' => own.run # 0 /\ attempt[own.gen] = "running"
    BY <1>1 DEF OwnerHolds, Acting, Bound
  <1>6. Acting \/ Bound => own.run # 0 /\ own.on
    BY <1>1 DEF OwnerHolds, Bound
  <1>7. OwnerHolds'
    BY <1>1, <1>2, <1>4, <1>5, <1>6 DEF OwnerHolds
  <1>8. CleanHolds'
    <2>1. closed => ~Bound
      BY <1>1 DEF CleanHolds, Bound
    <2>2. cleaner["close"].at \in {"gate", "second", "clean"} => ~Acting /\ closed /\ ~Acting'
      BY <1>1, <2>1 DEF CleanHolds, Acting
    <2> QED BY <1>1, <1>2, <2>1, <2>2 DEF CleanHolds, Unclean
  <1> QED BY <1>7, <1>8

LEMMA JobStepKeeps ==
  ASSUME ShInv, UNCHANGED <<own, gate, attempt, call, tool, cleaner, closed>>, Evolves
  PROVE  ShInv'
  <1>1. CallsHold' /\ NewHolds' /\ LockHolds'
    BY EvolveKeeps
  <1>2. job' \in Seq(JobRec) /\ JobsHold' /\ Listed' = Listed /\ (CompleteLocked => CompleteLocked')
    BY EvolvesTo
  <1>3. OwnerHolds' /\ CleanHolds'
    BY <1>2, OthersKeep DEF Busy
  <1>4. ShellTyped' /\ Bounded'
    BY <1>2 DEF ShInv, ShellTyped, Bounded
  <1> QED BY <1>1, <1>2, <1>3, <1>4 DEF ShInv

\* One process changes, by a rule that depends on nothing else.
LEMMA JobIsKeeps ==
  ASSUME ShInv, UNCHANGED <<own, gate, attempt, call, tool, cleaner, closed>>, NEW i \in DOMAIN job, NEW j \in JobRec,
         job' = [job EXCEPT ![i] = j], job[i].listed, j.listed, Fits(j), j.held => job[i].held, Over(job[i]) => Over(j)
  PROVE  ShInv'
  <1>1. job \in [DOMAIN job -> JobRec]
    BY Shapes
  <1>2. Evolves
    BY <1>1 DEF Evolves
  <1> QED BY <1>2, JobStepKeeps

LEMMA KilledEvolves ==
  ASSUME ShInv, NEW S, S \subseteq Listed, job' = Killed(S)
  PROVE  Evolves
  <1>1. job \in [DOMAIN job -> JobRec] /\ \A i \in DOMAIN job : job[i] \in JobRec /\ Fits(job[i])
    BY Shapes
  <1>2. ASSUME NEW i \in DOMAIN job, i \in S, job[i].proc = "alive"
        PROVE  /\ [job[i] EXCEPT !.proc = "closing"] \in JobRec /\ [job[i] EXCEPT !.proc = "closing"].listed
               /\ Fits([job[i] EXCEPT !.proc = "closing"]) /\ job[i].listed /\ ~Over(job[i])
               /\ [job[i] EXCEPT !.proc = "closing"].held = job[i].held
    <2>1. PICK j : j = [job[i] EXCEPT !.proc = "closing"]
      OBVIOUS
    <2>2. /\ j \in JobRec /\ j.proc = "closing" /\ j.at = job[i].at /\ j.listed = job[i].listed /\ j.held = job[i].held
          /\ j.watched = job[i].watched /\ j.bad = job[i].bad /\ j.facts = job[i].facts
      BY <1>1, <2>1 DEF JobRec
    <2>3. job[i].listed /\ Fits(job[i]) /\ ~Over(job[i])
      BY <1>1, <1>2 DEF Listed, Over
    <2>4. Fits(j)
      BY <1>2, <2>2, <2>3 DEF Fits
    <2> QED BY <2>1, <2>2, <2>3, <2>4
  <1>3. job' \in [DOMAIN job -> JobRec]
    BY <1>1, <1>2 DEF Killed
  <1> QED BY <1>1, <1>2, <1>3 DEF Evolves, Killed

LEMMA JobMovesKeep ==
  ASSUME ShInv, NEW i \in DOMAIN job, NEW b \in BOOLEAN, NEW f \in BOOLEAN,
         JobEnds(i, b) \/ JobStopped(i) \/ Reap(i, b) \/ Judge(i) \/ Watch(i) \/ Record(i, f, b)
  PROVE  ShInv'
  <1>1. job \in [DOMAIN job -> JobRec] /\ job[i] \in JobRec /\ Fits(job[i])
    BY Shapes
  <1>2. /\ job[i].proc \in {"none", "alive", "closing", "reaped", "stuck", "unknown"} /\ job[i].at \in {"new", "running", "judged", "done"}
        /\ job[i].listed \in BOOLEAN /\ job[i].held \in BOOLEAN /\ job[i].watched \in BOOLEAN /\ job[i].bad \in BOOLEAN
    BY <1>1 DEF JobRec
  <1>3. UNCHANGED <<own, gate, attempt, call, tool, cleaner, closed>>
    BY DEF JobEnds, JobStopped, Reap, Judge, Watch, Record
  <1>4. job[i].listed
    BY <1>1, <1>2 DEF Fits, JobEnds, JobStopped, Reap, Judge, Watch, Record
  <1>5. CASE JobEnds(i, b)
    <2>1. PICK j : j = [job[i] EXCEPT !.proc = "closing", !.bad = b]
      OBVIOUS
    <2>2. job' = [job EXCEPT ![i] = j] /\ job[i].at = "running"
      BY <1>1, <1>5, <2>1 DEF JobEnds
    <2>3. /\ j \in JobRec /\ j.proc = "closing" /\ j.at = job[i].at /\ j.listed = job[i].listed /\ j.held = job[i].held
          /\ j.watched = job[i].watched /\ j.facts = job[i].facts
      BY <1>1, <2>1 DEF JobRec
    <2>4. Fits(j)
      BY <1>1, <1>5, <2>2, <2>3 DEF Fits, JobEnds
    <2> QED BY <1>3, <1>4, <2>2, <2>3, <2>4, JobIsKeeps DEF Over
  <1>6. CASE JobStopped(i)
    <2>1. {i} \subseteq Listed /\ job' = Killed({i})
      BY <1>4, <1>6 DEF JobStopped, Listed
    <2> QED BY <1>3, <2>1, KilledEvolves, JobStepKeeps
  <1>7. CASE Reap(i, b)
    <2>1. PICK j : j = [job[i] EXCEPT !.proc = IF b THEN "stuck" ELSE "reaped"]
      OBVIOUS
    <2>2. job' = [job EXCEPT ![i] = j] /\ job[i].proc = "closing"
      BY <1>1, <1>7, <2>1 DEF Reap
    <2>3. /\ j \in JobRec /\ j.proc \in {"stuck", "reaped"} /\ j.at = job[i].at /\ j.listed = job[i].listed /\ j.held = job[i].held
          /\ j.watched = job[i].watched /\ j.bad = job[i].bad /\ j.facts = job[i].facts
      BY <1>1, <2>1 DEF JobRec
    <2>4. Fits(j)
      BY <1>1, <2>2, <2>3 DEF Fits
    <2> QED BY <1>3, <1>4, <2>2, <2>3, <2>4, JobIsKeeps DEF Over
  <1>8. CASE Judge(i)
    <2>1. PICK j : j = [job[i] EXCEPT !.at = "judged", !.bad = job[i].bad \/ job[i].proc = "stuck", !.held = job[i].held /\ ~Lets(i)]
      OBVIOUS
    <2>2. job' = [job EXCEPT ![i] = j] /\ job[i].at = "running"
      BY <1>1, <1>8, <2>1 DEF Judge
    <2>3. /\ j \in JobRec /\ j.proc = job[i].proc /\ j.at = "judged" /\ j.listed = job[i].listed
          /\ (j.held <=> job[i].held /\ job[i].proc # "reaped")
          /\ j.watched = job[i].watched /\ j.facts = job[i].facts
      BY <1>1, <1>2, <2>1 DEF JobRec, Lets
    <2>4. Fits(j)
      BY <1>1, <1>2, <2>2, <2>3 DEF Fits
    <2> QED BY <1>3, <1>4, <2>2, <2>3, <2>4, JobIsKeeps DEF Over
  <1>9. CASE Watch(i)
    <2>1. PICK j : j = [job[i] EXCEPT !.watched = TRUE, !.held = job[i].held /\ ~Lets(i)]
      OBVIOUS
    <2>2. job' = [job EXCEPT ![i] = j] /\ job[i].proc \in {"reaped", "stuck"}
      BY <1>1, <1>9, <2>1 DEF Watch
    <2>3. /\ j \in JobRec /\ j.proc = job[i].proc /\ j.at = job[i].at /\ j.listed = job[i].listed
          /\ (j.held <=> job[i].held /\ job[i].proc # "reaped")
          /\ j.watched /\ j.facts = job[i].facts /\ j.bad = job[i].bad
      BY <1>1, <1>2, <2>1 DEF JobRec, Lets
    <2>4. Fits(j)
      BY <1>1, <1>2, <1>4, <2>2, <2>3 DEF Fits
    <2> QED BY <1>3, <1>4, <2>2, <2>3, <2>4, JobIsKeeps DEF Over
  <1>10. CASE Record(i, f, b)
    <2>1. PICK j : j = [job[i] EXCEPT !.at = "done", !.bad = job[i].bad \/ f,
                                      !.facts = IF b THEN job[i].facts \cup {"outcome"} ELSE job[i].facts]
      OBVIOUS
    <2>2. job' = [job EXCEPT ![i] = j] /\ job[i].at = "judged" /\ job[i].facts = {"intent"}
      BY <1>1, <1>10, <2>1 DEF Record, Fits
    <2>3. /\ j \in JobRec /\ j.proc = job[i].proc /\ j.at = "done" /\ j.listed = job[i].listed
          /\ j.held = job[i].held
          /\ j.watched = job[i].watched /\ j.facts \in {{"intent"}, {"intent", "outcome"}}
      <3>1. (IF b THEN job[i].facts \cup {"outcome"} ELSE job[i].facts) \in {{"intent"}, {"intent", "outcome"}}
        BY <2>2
      <3> QED BY <1>1, <1>2, <2>1, <3>1 DEF JobRec
    <2>4. Fits(j)
      BY <1>1, <1>2, <2>2, <2>3 DEF Fits
    <2> QED BY <1>3, <1>4, <2>2, <2>3, <2>4, JobIsKeeps DEF Over
  <1> QED BY <1>5, <1>6, <1>7, <1>8, <1>9, <1>10

\* A call goes on, takes the lock or leaves, and lists and starts nothing.
LEMMA CallKeeps ==
  ASSUME ShInv, NEW c \in Caller, NEW q \in CallRec, call' = [call EXCEPT ![c] = q],
         UNCHANGED <<own, attempt, tool, cleaner, closed>>, gate' \in Caller \cup Cleaner \cup {NoHolder},
         Evolves, call[c].pc # "idle" \/ Bound, call[c].pc # "started",
         q.pc \notin {"intended", "started"},
         q.pc \in {"waiting", "aborting", "killing"} => q.job \in Listed,
         q.pc \in {"gating", "gated"} => Locking(c) \/ LockFree
  PROVE  ShInv'
  <1>1. call \in [Caller -> CallRec] /\ own \in OwnRec
    BY Shapes
  <1>2. call' \in [Caller -> CallRec] /\ call'[c] = q /\ \A d \in Caller \ {c} : call'[d] = call[d]
    BY <1>1
  <1>3. /\ DOMAIN job' = DOMAIN job /\ Listed' = Listed /\ job' \in Seq(JobRec) /\ JobsHold'
        /\ CompleteLocked => CompleteLocked'
        /\ \A i \in DOMAIN job : /\ job'[i].held => job[i].held
                                 /\ job[i].at = "new" \/ job'[i].at = "new" => job'[i] = job[i]
    BY EvolvesTo
  <1>4. ASSUME NEW d \in Caller PROVE CallHolds(d)'
    <2>1. CASE d = c
      BY <1>2, <1>3, <2>1 DEF CallHolds
    <2>2. CASE d # c
      <3>1. call'[d] = call[d] /\ CallHolds(d)
        BY <1>2, <2>2 DEF ShInv, CallsHold
      <3>2. Budget' <=> Budget
        BY <1>3 DEF Budget
      <3>3. NewJob.at = "new" /\ Born("alive").at = "new"
        BY DEF NewJob, Born
      <3> QED BY <1>3, <3>1, <3>2, <3>3 DEF CallHolds
    <2> QED BY <2>1, <2>2
  <1>5. NewHolds'
    <2> SUFFICES ASSUME NEW i \in DOMAIN job, job'[i].at = "new", job'[i].proc = "alive"
                 PROVE  \E d \in Caller : call'[d].pc = "started" /\ call'[d].job = i
      BY <1>3 DEF NewHolds
    <2>1. PICK d \in Caller : call[d].pc = "started" /\ call[d].job = i
      BY <1>3 DEF ShInv, NewHolds
    <2>2. d # c
      BY <2>1
    <2> QED BY <1>2, <2>1, <2>2
  <1>6. LockHolds'
    <2>1. \A d \in Caller \ {c} : Locking(d)' <=> Locking(d)
      BY <1>2 DEF Locking
    <2>2. Locking(c)' => Locking(c) \/ LockFree
      BY <1>2 DEF Locking
    <2> QED BY <1>3, <2>1, <2>2 DEF ShInv, LockHolds, LockFree
  <1>7. OwnerHolds' /\ CleanHolds'
    <2>1. Busy' \subseteq Busy \/ Bound
      BY <1>2 DEF Busy
    <2> QED BY <1>3, <2>1, OthersKeep
  <1>8. ShellTyped' /\ Bounded'
    BY <1>2, <1>3 DEF ShInv, ShellTyped, Bounded
  <1> QED BY <1>3, <1>4, <1>5, <1>6, <1>7, <1>8 DEF ShInv, CallsHold

\* The call that has the lock makes, starts or lists its process k.
LEMMA LockedKeeps ==
  ASSUME ShInv, NEW c \in Caller, call[c].pc \in {"gated", "intended", "started"}, NEW q \in CallRec, call' = [call EXCEPT ![c] = q],
         gate' \in Caller \cup Cleaner \cup {NoHolder}, UNCHANGED <<attempt, tool, cleaner, closed>>,
         own' \in OwnRec, own' = own \/ \E n \in Nat : own' = [own EXCEPT !.started = n],
         NEW k, job' \in Seq(JobRec), DOMAIN job' = DOMAIN job \cup {k}, \A i \in DOMAIN job \ {k} : job'[i] = job[i],
         k \notin Listed, Bounded', Fits(job'[k]), call[c].pc = "started" => call[c].job = k,
         q.pc \in {"intended", "started"} => Budget' /\ q.job = k,
         q.pc = "intended" => job'[k] = NewJob,
         q.pc = "started" => job'[k] = Born("alive"),
         q.pc \in {"waiting", "aborting", "killing"} => q.job = k /\ job'[k].listed,
         q.pc \in {"gating", "gated", "intended", "started"} => ~job'[k].held,
         job'[k].at = "new" /\ job'[k].proc = "alive" => q.pc = "started"
  PROVE  ShInv'
  <1>1. /\ call \in [Caller -> CallRec] /\ Listed \subseteq DOMAIN job
        /\ \A i \in DOMAIN job : job[i] \in JobRec /\ Fits(job[i])
    BY Shapes
  <1>2. call' \in [Caller -> CallRec] /\ call'[c] = q /\ \A d \in Caller \ {c} : call'[d] = call[d]
    BY <1>1
  <1>3. /\ Locking(c) /\ ~tool /\ \A d \in Caller \ {c} : ~Locking(d)
        /\ \A i \in DOMAIN job : ~job[i].held
    BY DEF Locking, ShInv, LockHolds
  <1>4. Listed \subseteq Listed'
    BY DEF Listed
  <1>5. JobsHold'
    BY <1>1 DEF JobsHold
  <1>6. ASSUME NEW d \in Caller PROVE CallHolds(d)'
    <2>1. CASE d = c
      BY <1>2, <2>1 DEF CallHolds, Listed
    <2>2. CASE d # c
      <3>1. call'[d] = call[d] /\ CallHolds(d) /\ call[d].pc \notin {"intended", "started"}
        BY <1>2, <1>3, <2>2 DEF ShInv, CallsHold, Locking
      <3> QED BY <1>4, <3>1 DEF CallHolds
    <2> QED BY <2>1, <2>2
  <1>7. NewHolds'
    <2> SUFFICES ASSUME NEW i \in DOMAIN job', job'[i].at = "new", job'[i].proc = "alive"
                 PROVE  \E d \in Caller : call'[d].pc = "started" /\ call'[d].job = i
      BY DEF NewHolds
    <2>1. CASE i = k
      BY <1>2, <2>1
    <2>2. CASE i # k
      <3>1. i \in DOMAIN job /\ job'[i] = job[i]
        BY <2>2
      <3>2. PICK d \in Caller : call[d].pc = "started" /\ call[d].job = i
        BY <3>1 DEF ShInv, NewHolds
      <3>3. d = c
        BY <1>3, <3>2 DEF Locking
      <3> QED BY <2>2, <3>2, <3>3
    <2> QED BY <2>1, <2>2
  <1>8. LockHolds'
    <2>1. \A d \in Caller \ {c} : ~Locking(d)'
      BY <1>2, <1>3 DEF Locking
    <2>2. \A i \in DOMAIN job' : job'[i].held => i = k
      BY <1>3
    <2>3. Locking(c)' => ~job'[k].held
      BY <1>2 DEF Locking
    <2> QED BY <1>3, <2>1, <2>2, <2>3 DEF LockHolds
  <1>9. OwnerHolds' /\ CleanHolds'
    <2>1. c \in Busy /\ Busy' \subseteq Busy
      BY <1>2 DEF Busy
    <2>2. Acting
      BY <2>1 DEF Acting
    <2> QED BY <2>1, <2>2, OthersKeep
  <1>10. ShellTyped'
    BY <1>2 DEF ShInv, ShellTyped
  <1> QED BY <1>5, <1>6, <1>7, <1>8, <1>9, <1>10 DEF ShInv, CallsHold

LEMMA Still == ASSUME ShInv, job' = job PROVE Evolves
  BY Shapes DEF Evolves

LEMMA GateKeeps ==
  ASSUME ShInv
  PROVE  gate \in Caller \cup Cleaner \cup {NoHolder} /\ \A x : (IF gate = x THEN NoHolder ELSE gate) \in Caller \cup Cleaner \cup {NoHolder}
  BY DEF ShInv, ShellTyped

LEMMA PlainCallsKeep ==
  ASSUME ShInv, NEW c \in Caller, NEW b \in BOOLEAN, NEW i,
         \/ BeginCall(c) \/ Authorized(c, b) \/ Refused(c) \/ Acquire(c) \/ TakeGate(c) \/ CallGivesUp(c)
         \/ Kill(c, i) \/ Abort(c) \/ Returns(c)
  PROVE  ShInv'
  <1>1. call \in [Caller -> CallRec] /\ call[c] \in CallRec /\ call[c].pc \in Steps /\ call[c].background \in BOOLEAN /\ call[c].job \in Nat
    BY Shapes DEF CallRec
  <1>2. PICK q : q = call'[c]
    OBVIOUS
  <1>3. UNCHANGED <<own, attempt, tool, cleaner, closed>>
    BY DEF BeginCall, Authorized, Refused, Acquire, TakeGate, CallGivesUp, Kill, Abort, Returns
  <1>4. gate' \in Caller \cup Cleaner \cup {NoHolder}
    BY GateKeeps DEF BeginCall, Authorized, Refused, Acquire, TakeGate, CallGivesUp, Kill, Abort, Returns, Leaves
  <1>5. NoCall \in CallRec /\ NoCall.pc = "idle"
    BY DEF NoCall, CallRec, Steps
  <1>6. CASE Refused(c) \/ CallGivesUp(c) \/ Returns(c)
    <2>1. call' = [call EXCEPT ![c] = NoCall] /\ job' = job /\ call[c].pc \notin {"idle", "started"}
      BY <1>6 DEF Refused, CallGivesUp, Returns, Leaves
    <2> QED BY <1>3, <1>4, <1>5, <2>1, Still, CallKeeps
  <1>7. ASSUME NEW s \in {"begun", "gating", "gated"}, Goes(c, s), job' = job, call[c].pc # "idle" \/ Bound, call[c].pc # "started",
               s = "begun" \/ Locking(c) \/ LockFree
        PROVE  ShInv'
    <2>1. PICK r : r = [call[c] EXCEPT !.pc = s]
      OBVIOUS
    <2>2. call' = [call EXCEPT ![c] = r] /\ r \in CallRec /\ r.pc = s
      BY <1>1, <1>7, <2>1 DEF Goes, CallRec, Steps
    <2> QED BY <1>3, <1>4, <1>7, <2>2, Still, CallKeeps
  <1>8. CASE BeginCall(c) \/ Acquire(c) \/ TakeGate(c)
    BY <1>7, <1>8 DEF BeginCall, Acquire, TakeGate, Locking
  <1>9. CASE Authorized(c, b)
    <2>1. PICK r : r = [pc |-> "locking", background |-> b, job |-> 0]
      OBVIOUS
    <2>2. call' = [call EXCEPT ![c] = r] /\ r \in CallRec /\ r.pc = "locking" /\ call[c].pc = "begun" /\ job' = job
      BY <1>9, <2>1 DEF Authorized, CallRec, Steps
    <2> QED BY <1>3, <1>4, <2>2, Still, CallKeeps
  <1>10. CASE Kill(c, i)
    <2>1. PICK r : r = [call[c] EXCEPT !.pc = "killing", !.job = i]
      OBVIOUS
    <2>2. i \in Listed /\ i \in Nat
      BY <1>10, Shapes DEF Kill
    <2>3. call' = [call EXCEPT ![c] = r] /\ r \in CallRec /\ r.pc = "killing" /\ r.job = i /\ call[c].pc = "begun" /\ job' = Killed({i})
      BY <1>1, <1>10, <2>1, <2>2 DEF Kill, CallRec, Steps
    <2>4. Evolves
      BY <2>2, <2>3, KilledEvolves
    <2> QED BY <1>3, <1>4, <2>2, <2>3, <2>4, CallKeeps
  <1>11. CASE Abort(c)
    <2>1. PICK r : r = [call[c] EXCEPT !.pc = "aborting"]
      OBVIOUS
    <2>2. call' = [call EXCEPT ![c] = r] /\ r \in CallRec /\ r.pc = "aborting" /\ r.job = call[c].job /\ call[c].pc = "waiting" /\ job' = Killed({call[c].job})
      BY <1>1, <1>11, <2>1 DEF Abort, Goes, CallRec, Steps
    <2>3. call[c].job \in Listed
      BY <2>2 DEF ShInv, CallsHold, CallHolds
    <2>4. Evolves
      BY <2>2, <2>3, KilledEvolves
    <2> QED BY <1>3, <1>4, <2>2, <2>3, <2>4, CallKeeps
  <1> QED BY <1>6, <1>8, <1>9, <1>10, <1>11

LEMMA NewJobFits == NewJob \in JobRec /\ Fits(NewJob) /\ ~NewJob.held /\ ~NewJob.listed /\ NewJob.proc = "none" /\ NewJob.at = "new"
  BY DEF NewJob, JobRec, Fits

LEMMA Appended ==
  ASSUME ShInv, job' = Append(job, NewJob)
  PROVE  /\ job' \in Seq(JobRec) /\ DOMAIN job' = DOMAIN job \cup {Len(job) + 1} /\ job'[Len(job) + 1] = NewJob
         /\ \A i \in DOMAIN job \ {Len(job) + 1} : job'[i] = job[i]
         /\ Len(job) + 1 \notin Listed /\ Listed' = Listed /\ Len(job) + 1 \in Nat
  <1>1. job \in Seq(JobRec) /\ Len(job) \in Nat /\ DOMAIN job = 1 .. Len(job) /\ Listed \subseteq DOMAIN job
    BY Shapes
  <1>2. PICK n : n = Len(job) + 1
    OBVIOUS
  <1>3. /\ job' \in Seq(JobRec) /\ Len(job') = n /\ job'[n] = NewJob /\ \A i \in 1 .. Len(job) : job'[i] = job[i]
    BY <1>1, <1>2, NewJobFits, AppendProperties
  <1>4. DOMAIN job' = 1 .. n
    BY <1>3, LenProperties
  <1>5. 1 .. n = (1 .. Len(job)) \cup {n} /\ n \notin 1 .. Len(job)
    BY <1>1, <1>2
  <1>6. DOMAIN job' = DOMAIN job \cup {n} /\ n \notin Listed /\ n \in Nat
    BY <1>1, <1>2, <1>4, <1>5
  <1>7. Listed' = Listed
    BY <1>1, <1>3, <1>5, <1>6, NewJobFits DEF Listed
  <1> QED BY <1>1, <1>2, <1>3, <1>6, <1>7

LEMMA IntendKeeps == ASSUME ShInv, NEW c \in Caller, Intend(c) \/ IntendFails(c) PROVE ShInv'
  <1>1. call \in [Caller -> CallRec] /\ call[c] \in CallRec /\ call[c].pc = "gated" /\ own \in OwnRec /\ Len(job) \in Nat
    BY Shapes DEF CallRec, Intend, IntendFails
  <1>2. UNCHANGED <<own, attempt, tool, cleaner, closed>> /\ gate' \in Caller \cup Cleaner \cup {NoHolder}
    BY GateKeeps DEF Intend, IntendFails, Leaves
  <1>3. NoCall \in CallRec /\ NoCall.pc = "idle"
    BY DEF NoCall, CallRec, Steps
  <1>4. CASE Intend(c)
    <2>1. PICK q, k : k = Len(job) + 1 /\ q = [call[c] EXCEPT !.pc = "intended", !.job = k]
      OBVIOUS
    <2>2. job' = Append(job, NewJob) /\ Budget
      BY <1>4 DEF Intend
    <2>3. call' = [call EXCEPT ![c] = q]
      BY <1>1, <1>4, <2>1 DEF Intend
    <2>4. q \in CallRec /\ q.pc = "intended" /\ q.job = k
      <3>1. k \in Nat
        BY <1>1, <2>1
      <3> QED BY <1>1, <2>1, <3>1 DEF CallRec, Steps
    <2>5. /\ job' \in Seq(JobRec) /\ DOMAIN job' = DOMAIN job \cup {k} /\ job'[k] = NewJob
          /\ \A i \in DOMAIN job \ {k} : job'[i] = job[i]
          /\ k \notin Listed /\ Listed' = Listed
      BY <2>1, <2>2, Appended
    <2>6. Budget' /\ Bounded'
      BY <1>2, <2>2, <2>5 DEF Budget, ShInv, Bounded
    <2> QED BY <1>1, <1>2, <2>3, <2>4, <2>5, <2>6, NewJobFits, LockedKeeps
  <1>5. CASE IntendFails(c) /\ job' = job
    <2>1. call' = [call EXCEPT ![c] = NoCall]
      BY <1>5 DEF IntendFails, Leaves
    <2> QED BY <1>1, <1>2, <1>3, <1>5, <2>1, Still, CallKeeps
  <1>6. CASE IntendFails(c) /\ job' = Append(job, NewJob)
    <2>1. call' = [call EXCEPT ![c] = NoCall]
      BY <1>6 DEF IntendFails, Leaves
    <2>2. PICK k : k = Len(job) + 1
      OBVIOUS
    <2>3. /\ job' \in Seq(JobRec) /\ DOMAIN job' = DOMAIN job \cup {k} /\ job'[k] = NewJob
          /\ \A i \in DOMAIN job \ {k} : job'[i] = job[i]
          /\ k \notin Listed /\ Listed' = Listed
      BY <1>6, <2>2, Appended
    <2>4. Bounded'
      BY <2>3 DEF ShInv, Bounded
    <2> QED BY <1>1, <1>2, <1>3, <2>1, <2>3, <2>4, NewJobFits, LockedKeeps
  <1> QED BY <1>4, <1>5, <1>6 DEF IntendFails

LEMMA ReplacedJob ==
  ASSUME ShInv, NEW k \in DOMAIN job, NEW j \in JobRec, job' = [job EXCEPT ![k] = j]
  PROVE  /\ job' \in Seq(JobRec) /\ DOMAIN job' = DOMAIN job \cup {k} /\ job'[k] = j
         /\ \A i \in DOMAIN job \ {k} : job'[i] = job[i]
  <1>1. job \in Seq(JobRec) /\ Len(job) \in Nat /\ DOMAIN job = 1 .. Len(job) /\ job \in [DOMAIN job -> JobRec]
    BY Shapes
  <1>2. job' \in [1 .. Len(job) -> JobRec]
    BY <1>1
  <1> QED BY <1>1, <1>2, FunctionIsSeq

LEMMA JobStartKeeps == ASSUME ShInv, NEW c \in Caller, NEW noted \in BOOLEAN, StartJob(c) \/ StartFails(c, noted) PROVE ShInv'
  <1>1. /\ call \in [Caller -> CallRec] /\ call[c] \in CallRec /\ call[c].pc = "intended" /\ own \in OwnRec
        /\ job \in [DOMAIN job -> JobRec]
    BY Shapes DEF CallRec, StartJob, StartFails
  <1>2. UNCHANGED <<own, attempt, tool, cleaner, closed>> /\ gate' \in Caller \cup Cleaner \cup {NoHolder}
    BY GateKeeps DEF StartJob, StartFails, Leaves
  <1>3. NoCall \in CallRec /\ NoCall.pc = "idle"
    BY DEF NoCall, CallRec, Steps
  <1>4. PICK k : k = call[c].job
    OBVIOUS
  <1>5. k \in DOMAIN job /\ job[k] = NewJob /\ Budget /\ k \notin Listed
    BY <1>1, <1>4, NewJobFits DEF ShInv, CallsHold, CallHolds, Listed
  <1>6. CASE StartJob(c)
    <2>1. PICK q, j : q = [call[c] EXCEPT !.pc = "started"] /\ j = Born("alive")
      OBVIOUS
    <2>2. call' = [call EXCEPT ![c] = q] /\ job' = [job EXCEPT ![k] = j]
      <3>1. job' = [job EXCEPT ![k] = [job[k] EXCEPT !.proc = "alive"]]
        BY <1>1, <1>4, <1>6 DEF StartJob
      <3> QED BY <1>1, <1>5, <1>6, <2>1, <3>1 DEF StartJob, Goes, Born
    <2>3. q \in CallRec /\ q.pc = "started" /\ q.job = k
      BY <1>1, <1>4, <2>1 DEF CallRec, Steps
    <2>4. j \in JobRec /\ Fits(j) /\ ~j.held /\ ~j.listed
      BY <2>1 DEF Born, NewJob, JobRec, Fits
    <2>5. /\ job' \in Seq(JobRec) /\ DOMAIN job' = DOMAIN job \cup {k} /\ job'[k] = j
          /\ \A i \in DOMAIN job \ {k} : job'[i] = job[i]
      BY <1>5, <2>2, <2>4, ReplacedJob
    <2>6. Listed' = Listed
      BY <1>5, <2>4, <2>5 DEF Listed
    <2>7. Budget' /\ Bounded'
      BY <1>2, <1>5, <2>6 DEF Budget, ShInv, Bounded
    <2> QED BY <1>1, <1>2, <1>5, <2>1, <2>2, <2>3, <2>4, <2>5, <2>7, LockedKeeps
  <1>7. CASE StartFails(c, noted) /\ job' = job
    <2>1. call' = [call EXCEPT ![c] = NoCall]
      BY <1>7 DEF StartFails, Leaves
    <2> QED BY <1>1, <1>2, <1>3, <1>7, <2>1, Still, CallKeeps
  <1>8. CASE StartFails(c, noted) /\ job' = [job EXCEPT ![call[c].job].facts = @ \cup {"failed"}]
    <2>1. call' = [call EXCEPT ![c] = NoCall]
      BY <1>8 DEF StartFails, Leaves
    <2>2. PICK j : j = [NewJob EXCEPT !.facts = {"intent", "failed"}]
      OBVIOUS
    <2>3. job' = [job EXCEPT ![k] = j]
      <3>1. job' = [job EXCEPT ![k] = [job[k] EXCEPT !.facts = job[k].facts \cup {"failed"}]]
        BY <1>1, <1>4, <1>8
      <3>2. job[k].facts \cup {"failed"} = {"intent", "failed"}
        BY <1>5 DEF NewJob
      <3> QED BY <1>5, <2>2, <3>1, <3>2
    <2>4. j \in JobRec /\ Fits(j) /\ ~j.held /\ ~j.listed /\ j.proc = "none"
      BY <2>2 DEF NewJob, JobRec, Fits
    <2>5. /\ job' \in Seq(JobRec) /\ DOMAIN job' = DOMAIN job \cup {k} /\ job'[k] = j
          /\ \A i \in DOMAIN job \ {k} : job'[i] = job[i]
      BY <1>5, <2>3, <2>4, ReplacedJob
    <2>6. Bounded'
      <3>1. Listed' = Listed
        BY <1>5, <2>4, <2>5 DEF Listed
      <3> QED BY <3>1 DEF ShInv, Bounded
    <2> QED BY <1>1, <1>2, <1>3, <1>5, <2>1, <2>4, <2>5, <2>6, LockedKeeps
  <1> QED BY <1>6, <1>7, <1>8 DEF StartFails

LEMMA PublishKeeps == ASSUME ShellAssumption, ShInv, NEW c \in Caller, NEW fails \in BOOLEAN, PublishJob(c, fails) PROVE ShInv'
  <1>1. /\ call \in [Caller -> CallRec] /\ call[c] \in CallRec /\ call[c].pc = "started" /\ own \in OwnRec
        /\ job \in [DOMAIN job -> JobRec] /\ call[c].background \in BOOLEAN
    BY Shapes DEF CallRec, PublishJob
  <1>2. UNCHANGED <<attempt, tool, cleaner, closed>> /\ gate' \in Caller \cup Cleaner \cup {NoHolder}
    BY GateKeeps DEF PublishJob, Leaves
  <1>3. NoCall \in CallRec /\ NoCall.pc = "idle"
    BY DEF NoCall, CallRec, Steps
  <1>4. PICK k : k = call[c].job
    OBVIOUS
  <1>5. k \in DOMAIN job /\ job[k] = Born("alive") /\ Budget /\ k \notin Listed
    BY <1>1, <1>4 DEF ShInv, CallsHold, CallHolds, Listed, Born, NewJob
  <1>6. PICK q, j : /\ q = IF fails \/ call[c].background THEN NoCall ELSE [call[c] EXCEPT !.pc = "waiting"]
                    /\ j = [Born("alive") EXCEPT !.listed = TRUE, !.held = TRUE, !.at = "running",
                                                 !.proc = IF fails THEN "closing" ELSE "alive"]
    OBVIOUS
  <1>7. call' = [call EXCEPT ![c] = q]
    BY <1>1, <1>6 DEF PublishJob, Goes, Leaves
  <1>8. q \in CallRec /\ q.pc \in {"idle", "waiting"} /\ (q.pc = "waiting" => q.job = k)
    BY <1>1, <1>3, <1>4, <1>6 DEF CallRec, Steps
  <1>9. job' = [job EXCEPT ![k] = j]
    <2>1. PICK p : p = [job[k] EXCEPT !.listed = TRUE, !.held = TRUE, !.at = "running"]
      OBVIOUS
    <2>2. Published(k) = [job EXCEPT ![k] = p]
      BY <1>1, <1>5, <2>1 DEF Published
    <2>3. CASE fails
      <3>1. job' = [Published(k) EXCEPT ![k].proc = "closing"]
        BY <1>4, <2>3 DEF PublishJob
      <3>2. PICK f : f = Published(k)
        OBVIOUS
      <3>3. f \in [DOMAIN job -> {p} \cup JobRec] /\ f[k] = p
        BY <1>1, <1>5, <2>2, <3>2
      <3>4. job' = [f EXCEPT ![k] = [p EXCEPT !.proc = "closing"]]
        BY <3>1, <3>2, <3>3
      <3>5. [p EXCEPT !.proc = "closing"] = j
        BY <1>5, <1>6, <2>1, <2>3 DEF Born, NewJob
      <3> QED BY <1>1, <1>5, <2>2, <3>2, <3>4, <3>5
    <2>4. CASE ~fails
      <3>1. job' = [job EXCEPT ![k] = p]
        BY <1>4, <2>2, <2>4 DEF PublishJob
      <3>2. p = j
        BY <1>5, <1>6, <2>1, <2>4 DEF Born, NewJob
      <3> QED BY <3>1, <3>2
    <2> QED BY <2>3, <2>4
  <1>10. j \in JobRec /\ Fits(j) /\ j.listed /\ j.at = "running"
    BY <1>6 DEF Born, NewJob, JobRec, Fits
  <1>11. /\ job' \in Seq(JobRec) /\ DOMAIN job' = DOMAIN job \cup {k} /\ job'[k] = j
         /\ \A i \in DOMAIN job \ {k} : job'[i] = job[i]
    BY <1>5, <1>9, <1>10, ReplacedJob
  <1>12. own' \in OwnRec /\ \E n \in Nat : own' = [own EXCEPT !.started = n]
    <2>1. PICK n : n = own.started + 1
      OBVIOUS
    <2>2. own' = [own EXCEPT !.started = n]
      BY <1>1, <2>1 DEF PublishJob
    <2>3. own.started \in 0 .. MaxPerRun /\ own.started < MaxPerRun
      BY <1>1, <1>5 DEF OwnRec, Budget
    <2>4. n \in 0 .. MaxPerRun /\ n \in Nat
      BY <2>1, <2>3 DEF ShellAssumption
    <2> QED BY <1>1, <2>2, <2>4 DEF OwnRec
  <1>13. Bounded'
    <2>1. Listed' = Listed \cup {k}
      BY <1>5, <1>10, <1>11 DEF Listed
    <2>2. IsFiniteSet(Listed) /\ Cardinality(Listed) \in Nat /\ Cardinality(Listed) < MaxListed
      BY <1>5, Shapes DEF Budget
    <2>3. Cardinality(Listed') = Cardinality(Listed) + 1
      BY <1>5, <2>1, <2>2, FS_AddElement
    <2>4. PICK m : m = Cardinality(Listed)
      OBVIOUS
    <2>5. m + 1 <= MaxListed
      BY <2>2, <2>4 DEF ShellAssumption
    <2> QED BY <2>3, <2>4, <2>5 DEF Bounded
  <1> QED BY <1>1, <1>2, <1>4, <1>5, <1>7, <1>8, <1>10, <1>11, <1>12, <1>13, LockedKeeps

AttemptState == {"none", "bound", "running", "ending", "ended", "closing", "over"}

LEMMA OwnerIs ==
  ASSUME ShInv
  PROVE  /\ own \in OwnRec /\ attempt \in [Attempt -> AttemptState] /\ cleaner \in [Cleaner -> CleanRec]
         /\ own.on \in BOOLEAN /\ own.closed \in BOOLEAN /\ own.life \in BOOLEAN /\ own.run \in 0 .. MaxRun /\ own.live \in BOOLEAN
         /\ own.reserved \in BOOLEAN /\ own.gen \in 0 .. MaxRun /\ own.started \in 0 .. MaxPerRun
         /\ OwnerHolds /\ CleanHolds /\ (own.run = 0 => ~Acting) /\ (~own.on => CompleteLocked /\ own.run = 0)
         /\ own.run # 0 => own.gen \in Attempt
         /\ \A n \in Attempt : n # 0
  <1>1. own \in OwnRec /\ attempt \in [Attempt -> AttemptState] /\ cleaner \in [Cleaner -> CleanRec] /\ OwnerHolds /\ CleanHolds
    BY DEF ShInv, ShellTyped, AttemptState
  <1>2. /\ own.on \in BOOLEAN /\ own.closed \in BOOLEAN /\ own.life \in BOOLEAN /\ own.run \in 0 .. MaxRun /\ own.live \in BOOLEAN
        /\ own.reserved \in BOOLEAN /\ own.gen \in 0 .. MaxRun /\ own.started \in 0 .. MaxPerRun
    BY <1>1 DEF OwnRec
  <1>3. (own.run = 0 => ~Acting) /\ (~own.on => CompleteLocked /\ own.run = 0) /\ (own.run # 0 => own.gen \in Attempt)
    BY <1>1 DEF OwnerHolds, CompleteLocked, Finished
  <1>4. \A n \in Attempt : n # 0
    BY DEF Attempt
  <1> QED BY <1>1, <1>2, <1>3, <1>4

LEMMA RunKeeps ==
  ASSUME ShInv, UNCHANGED <<call, tool>>, Evolves, own'.started = own.started \/ ~Acting,
         own' \in OwnRec, attempt' \in [Attempt -> AttemptState], cleaner' \in [Cleaner -> CleanRec],
         gate' \in Caller \cup Cleaner \cup {NoHolder}, closed' \in BOOLEAN, OwnerHolds', CleanHolds'
  PROVE  ShInv'
  <1>1. CallsHold' /\ NewHolds' /\ LockHolds'
    BY EvolveKeeps
  <1>2. job' \in Seq(JobRec) /\ JobsHold' /\ Listed' = Listed
    BY EvolvesTo
  <1>3. ShellTyped' /\ Bounded'
    BY <1>2 DEF ShInv, ShellTyped, AttemptState, Bounded
  <1> QED BY <1>1, <1>2, <1>3 DEF ShInv

\* Nobody acts and all is complete: the list may go.
LEMMA RecoverKeeps ==
  ASSUME ShellAssumption, ShInv, ~Acting, CompleteLocked, NEW S, S \subseteq Unfinished, job' = Recovered(S), UNCHANGED <<call, tool>>
  PROVE  /\ job' \in Seq(JobRec) /\ JobsHold' /\ CallsHold' /\ NewHolds' /\ LockHolds' /\ Bounded' /\ Listed' = {} /\ CompleteLocked'
  <1>1. /\ job \in Seq(JobRec) /\ Len(job) \in Nat /\ DOMAIN job = 1 .. Len(job) /\ job \in [DOMAIN job -> JobRec]
        /\ \A i \in DOMAIN job : job[i] \in JobRec /\ Fits(job[i])
    BY Shapes
  <1>2. ASSUME NEW i \in DOMAIN job
        PROVE  /\ job'[i] \in JobRec /\ Fits(job'[i]) /\ ~job'[i].listed /\ ~job'[i].held
               /\ job'[i].at = job[i].at /\ job'[i].proc = job[i].proc
    <2>1. PICK j : j = [job[i] EXCEPT !.listed = FALSE, !.facts = IF i \in S THEN job[i].facts \cup {"abandoned"} ELSE job[i].facts]
      OBVIOUS
    <2>2. job'[i] = j
      BY <2>1 DEF Recovered
    <2>3. i \in S => job[i].facts = {"intent"}
      BY DEF Unfinished
    <2>4. PICK F : F = IF i \in S THEN job[i].facts \cup {"abandoned"} ELSE job[i].facts
      OBVIOUS
    <2>5. F \in {{"intent"}, {"intent", "failed"}, {"intent", "abandoned"}, {"intent", "outcome"}}
          /\ ("failed" \in F => "failed" \in job[i].facts) /\ ("abandoned" \in F => "abandoned" \in job[i].facts \/ i \in S)
      BY <1>1, <2>3, <2>4 DEF JobRec
    <2>6. /\ j \in JobRec /\ j.proc = job[i].proc /\ j.at = job[i].at /\ ~j.listed /\ j.held = job[i].held
          /\ j.watched = job[i].watched /\ j.bad = job[i].bad /\ j.facts = F
      BY <1>1, <2>1, <2>4, <2>5 DEF JobRec
    <2>7. job[i].listed => Over(job[i])
      BY CompleteIs DEF Listed
    <2>8. ~job[i].held /\ (job[i].at \in {"new", "done"}) /\ (job[i].at # "new" => job[i].proc \in {"reaped", "stuck"})
      BY <1>1, <2>7 DEF Fits, Over, JobRec
    <2>9. Fits(j)
      BY <1>1, <2>5, <2>6, <2>8 DEF Fits
    <2> QED BY <2>2, <2>6, <2>8, <2>9
  <1>3. job' \in [1 .. Len(job) -> JobRec]
    BY <1>1, <1>2 DEF Recovered
  <1>4. job' \in Seq(JobRec) /\ DOMAIN job' = DOMAIN job
    BY <1>1, <1>3, FunctionIsSeq
  <1>5. JobsHold' /\ Listed' = {}
    BY <1>2, <1>4 DEF JobsHold, Listed
  <1>6. CompleteLocked'
    BY <1>5 DEF CompleteLocked, Finished
  <1>7. \A c \in Caller : call[c].pc = "idle"
    BY DEF Acting, Busy
  <1>8. CallsHold'
    BY <1>7 DEF CallsHold, CallHolds
  <1>9. NewHolds'
    BY <1>2, <1>4, <1>7 DEF ShInv, NewHolds
  <1>10. LockHolds'
    BY <1>2, <1>4, <1>7 DEF ShInv, LockHolds, Locking
  <1>11. Bounded'
    BY <1>5, FS_EmptySet DEF Bounded, ShellAssumption
  <1> QED BY <1>4, <1>5, <1>6, <1>8, <1>9, <1>10, <1>11

LEMMA BindKeeps ==
  ASSUME ShellAssumption, ShInv, NEW n \in Attempt, NEW changed \in BOOLEAN, NEW S,
         Bind(n, changed) \/ BindSpoilt(n, changed) \/ BindFails(n, S)
  PROVE  ShInv'
  <1>1. /\ own \in OwnRec /\ attempt \in [Attempt -> AttemptState] /\ cleaner \in [Cleaner -> CleanRec]
        /\ own.on \in BOOLEAN /\ own.closed \in BOOLEAN /\ own.life \in BOOLEAN /\ own.live \in BOOLEAN /\ own.started \in 0 .. MaxPerRun
        /\ OwnerHolds /\ CleanHolds /\ (own.run = 0 => ~Acting) /\ (~own.on => CompleteLocked)
        /\ \A m \in Attempt : m # 0
    BY OwnerIs
  <1>2. /\ attempt[n] = "none" /\ cleaner["reset"].at = "off" /\ ~closed /\ ~own.reserved /\ own.run = 0
        /\ UNCHANGED <<gate, call, tool, cleaner, closed>> /\ gate \in Caller \cup Cleaner \cup {NoHolder} /\ closed \in BOOLEAN
    BY DEF Bind, BindSpoilt, BindFails, Asks, Free, ShInv, ShellTyped
  <1>3. ~Acting /\ ~Acting' /\ ~Unclean("attempt") /\ cleaner["close"].at = "off" /\ \A m \in Attempt : attempt[m] \notin {"running", "ending"}
    BY <1>1, <1>2 DEF OwnerHolds, CleanHolds, Acting, Busy
  <1>4. n \in 0 .. MaxRun /\ 0 \in 0 .. MaxRun /\ 0 \in 0 .. MaxPerRun
    BY DEF Attempt, ShellAssumption
  <1>5. CleanHolds'
    BY <1>1, <1>2, <1>3 DEF CleanHolds, Unclean
  <1>6. ASSUME NEW s \in {"bound", "over"}, attempt' = [attempt EXCEPT ![n] = s]
        PROVE  attempt' \in [Attempt -> AttemptState] /\ \A m \in Attempt : attempt'[m] \notin {"running", "ending"}
    BY <1>1, <1>3, <1>6 DEF AttemptState
  <1>7. ASSUME CompleteLocked, NEW T, T \subseteq Unfinished, job' = Recovered(T), own' \in OwnRec, own'.run = 0, own'.on => own'.gen \in Attempt /\ own'.life /\ ~own'.closed,
               ~own'.on => own' = NoOwner, NEW s \in {"bound", "over"}, attempt' = [attempt EXCEPT ![n] = s]
        PROVE  ShInv'
    <2>1. job' \in Seq(JobRec) /\ JobsHold' /\ CallsHold' /\ NewHolds' /\ LockHolds' /\ Bounded' /\ Listed' = {}
      BY <1>2, <1>3, <1>7, RecoverKeeps
    <2>2. attempt' \in [Attempt -> AttemptState] /\ \A m \in Attempt : attempt'[m] \notin {"running", "ending"}
      BY <1>6, <1>7
    <2>3. ShellTyped'
      BY <1>2, <1>7, <2>1, <2>2 DEF ShInv, ShellTyped, AttemptState
    <2>4. own'.closed => ~own'.life
      BY <1>7 DEF NoOwner
    <2>5. OwnerHolds'
      BY <1>3, <1>7, <2>1, <2>2, <2>4 DEF OwnerHolds
    <2> QED BY <1>5, <2>1, <2>3, <2>5 DEF ShInv
  <1>8. ASSUME job' = job, own' \in OwnRec, own'.run = 0, own'.on, own'.gen \in Attempt, own'.closed \/ own'.life, own'.closed => ~own'.life,
               own'.started = own.started, NEW s \in {"bound", "over"}, attempt' = [attempt EXCEPT ![n] = s]
        PROVE  ShInv'
    <2>1. attempt' \in [Attempt -> AttemptState] /\ \A m \in Attempt : attempt'[m] \notin {"running", "ending"}
      BY <1>6, <1>8
    <2>2. OwnerHolds'
      BY <1>3, <1>8, <2>1 DEF OwnerHolds
    <2>3. Evolves
      BY <1>8, Still
    <2>4. cleaner' \in [Cleaner -> CleanRec] /\ gate' \in Caller \cup Cleaner \cup {NoHolder} /\ closed' \in BOOLEAN
      BY <1>1, <1>2
    <2> QED BY <1>2, <1>5, <1>8, <2>1, <2>2, <2>3, <2>4, RunKeeps
  <1>9. CASE Bind(n, changed)
    <2>1. attempt' = [attempt EXCEPT ![n] = "bound"]
      BY <1>9 DEF Bind
    <2>2. CASE ~own.on \/ Stale(changed)
      <3>1. PICK o : o = [NoOwner EXCEPT !.on = TRUE, !.life = TRUE, !.reserved = TRUE, !.gen = n]
        OBVIOUS
      <3>2. own' = o
        BY <1>9, <2>2, <3>1 DEF Bind
      <3>3. o \in OwnRec /\ o.run = 0 /\ o.on /\ o.gen = n /\ o.life /\ ~o.closed
        <4>1. NoOwner \in OwnRec /\ NoOwner.run = 0 /\ NoOwner.closed = FALSE
          BY <1>4 DEF NoOwner, OwnRec
        <4> QED BY <1>4, <3>1, <4>1 DEF OwnRec
      <3>4. CompleteLocked /\ job' = Recovered(Unfinished)
        BY <1>1, <1>9, <2>2 DEF Bind, Replaceable
      <3> QED BY <1>7, <2>1, <3>2, <3>3, <3>4
    <2>3. CASE own.on /\ ~Stale(changed)
      <3>1. PICK o : o = [own EXCEPT !.reserved = TRUE, !.gen = n]
        OBVIOUS
      <3>2. own' = o /\ job' = job /\ own.life /\ ~own.closed
        BY <1>1, <1>9, <2>3, <3>1 DEF Bind, Stale
      <3>3. o \in OwnRec /\ o.run = 0 /\ o.on /\ o.gen = n /\ o.life /\ ~o.closed /\ o.started = own.started
        BY <1>1, <1>2, <1>4, <2>3, <3>1, <3>2 DEF OwnRec
      <3> QED BY <1>8, <2>1, <3>2, <3>3
    <2> QED BY <2>2, <2>3
  <1>10. CASE BindSpoilt(n, changed)
    <2>1. PICK o : o = [own EXCEPT !.closed = TRUE, !.life = FALSE]
      OBVIOUS
    <2>2. own' = o /\ job' = job /\ own.on /\ attempt' = [attempt EXCEPT ![n] = "over"]
      BY <1>10, <2>1 DEF BindSpoilt, Stale
    <2>3. o \in OwnRec /\ o.run = 0 /\ o.on /\ o.gen = own.gen /\ ~o.life /\ o.closed /\ o.started = own.started
      BY <1>1, <1>2, <2>1, <2>2 DEF OwnRec
    <2>4. own.gen \in Attempt
      BY <1>1, <2>2 DEF OwnerHolds
    <2> QED BY <1>8, <2>2, <2>3, <2>4
  <1>11. CASE BindFails(n, S)
    <2>1. own' = NoOwner /\ job' = Recovered(S) /\ S \subseteq Unfinished /\ attempt' = [attempt EXCEPT ![n] = "over"]
      BY <1>11 DEF BindFails
    <2>2. CompleteLocked
      BY <1>1, <1>11 DEF BindFails, Replaceable
    <2>3. NoOwner \in OwnRec /\ NoOwner.run = 0 /\ ~NoOwner.on
      BY <1>4 DEF NoOwner, OwnRec
    <2> QED BY <1>7, <2>1, <2>2, <2>3
  <1> QED BY <1>9, <1>10, <1>11

LEMMA RunMovesKeep ==
  ASSUME ShellAssumption, ShInv, NEW n \in Attempt, NEW err \in BOOLEAN,
         OnRunStart(n) \/ CancelRun \/ OnRunEnd(n, err) \/ LeaseClose(n)
  PROVE  ShInv'
  <1>1. /\ own \in OwnRec /\ attempt \in [Attempt -> AttemptState] /\ cleaner \in [Cleaner -> CleanRec]
        /\ own.on \in BOOLEAN /\ own.closed \in BOOLEAN /\ own.life \in BOOLEAN /\ own.live \in BOOLEAN /\ own.started \in 0 .. MaxPerRun
        /\ OwnerHolds /\ CleanHolds /\ (own.run = 0 => ~Acting) /\ (~own.on => CompleteLocked)
        /\ \A m \in Attempt : m # 0
    BY OwnerIs
  <1>2. /\ UNCHANGED <<gate, call, tool, closed>> /\ gate' \in Caller \cup Cleaner \cup {NoHolder} /\ closed' \in BOOLEAN
        /\ (Acting' <=> Acting)
    BY DEF OnRunStart, CancelRun, OnRunEnd, LeaseClose, ShInv, ShellTyped, Acting, Busy
  <1>3. n \in 0 .. MaxRun /\ 0 \in 0 .. MaxRun /\ 0 \in 0 .. MaxPerRun /\ "attempt" \in Cleaner /\ "reset" \in Cleaner /\ "close" \in Cleaner
    BY DEF Attempt, ShellAssumption, Cleaner
  <1>4. ASSUME NEW s \in AttemptState, attempt' = [attempt EXCEPT ![n] = s]
        PROVE  attempt' \in [Attempt -> AttemptState] /\ attempt'[n] = s /\ \A m \in Attempt \ {n} : attempt'[m] = attempt[m]
    BY <1>1, <1>4
  <1>5. CASE OnRunStart(n) /\ Mine(n) /\ ~own.closed /\ own.life /\ own.run = 0
    <2>1. PICK o : o = [own EXCEPT !.run = n, !.live = TRUE, !.started = 0]
      OBVIOUS
    <2>2. /\ own' = o /\ attempt' = [attempt EXCEPT ![n] = "running"] /\ UNCHANGED <<job, cleaner>>
          /\ own.on /\ own.gen = n /\ own.reserved
      BY <1>5, <2>1 DEF OnRunStart, Mine
    <2>3. o \in OwnRec /\ o.on /\ o.run = n /\ o.gen = n /\ o.reserved /\ ~o.closed /\ o.life /\ o.started = 0
      BY <1>1, <1>3, <1>5, <2>1, <2>2 DEF OwnRec
    <2>4. attempt' \in [Attempt -> AttemptState] /\ attempt'[n] = "running" /\ \A m \in Attempt \ {n} : attempt'[m] \notin {"running", "ending"}
      BY <1>1, <1>4, <1>5, <2>2 DEF OwnerHolds, AttemptState
    <2>5. OwnerHolds'
      BY <1>1, <1>2, <2>2, <2>3, <2>4 DEF OwnerHolds
    <2>6. CleanHolds'
      <3>1. ~Unclean("attempt") /\ ~Unclean("reset") /\ ~closed
        BY <1>1, <1>5, <2>2 DEF CleanHolds
      <3> QED BY <1>1, <1>2, <2>2, <3>1 DEF CleanHolds, Unclean
    <2>7. Evolves /\ ~Acting
      BY <1>1, <1>5, <2>2, Still
    <2> QED BY <1>1, <1>2, <2>2, <2>3, <2>4, <2>5, <2>6, <2>7, RunKeeps
  <1>6. CASE OnRunStart(n) /\ ~(Mine(n) /\ ~own.closed /\ own.life /\ own.run = 0)
    <2>1. attempt[n] = "bound" /\ own' = own /\ attempt' = [attempt EXCEPT ![n] = "ended"] /\ UNCHANGED <<job, cleaner>>
      BY <1>6 DEF OnRunStart
    <2>2. attempt' \in [Attempt -> AttemptState] /\ attempt'[n] = "ended" /\ \A m \in Attempt \ {n} : attempt'[m] = attempt[m]
      BY <1>4, <2>1 DEF AttemptState
    <2>3. own.run # 0 => own.gen \in Attempt \ {n}
      BY <1>1, <2>1 DEF OwnerHolds
    <2>4. CompleteLocked' = CompleteLocked /\ Listed' = Listed
      BY <2>1 DEF CompleteLocked, Finished, Listed
    <2>5. OwnerHolds'
      BY <1>1, <1>2, <2>1, <2>2, <2>3, <2>4 DEF OwnerHolds
    <2>6. CleanHolds'
      BY <1>1, <1>2, <2>1, <2>2, <2>3, <2>4 DEF CleanHolds, Unclean
    <2>7. Evolves
      BY <2>1, Still
    <2> QED BY <1>1, <1>2, <2>1, <2>2, <2>5, <2>6, <2>7, RunKeeps
  <1>7. CASE CancelRun
    <2>1. PICK o : o = [own EXCEPT !.live = FALSE]
      OBVIOUS
    <2>2. own' = o /\ own.live /\ UNCHANGED <<attempt, job, cleaner>>
      BY <1>7, <2>1 DEF CancelRun
    <2>3. /\ o \in OwnRec /\ o.on = own.on /\ o.run = own.run /\ o.gen = own.gen /\ o.reserved = own.reserved
          /\ o.closed = own.closed /\ o.life = own.life /\ o.started = own.started
      BY <1>1, <2>1 DEF OwnRec
    <2>4. own.on
      BY <1>1, <2>2 DEF OwnerHolds, NoOwner
    <2>5. CompleteLocked' = CompleteLocked /\ Listed' = Listed
      BY <2>2 DEF CompleteLocked, Finished, Listed
    <2>6. OwnerHolds'
      BY <1>1, <1>2, <2>2, <2>3, <2>4, <2>5 DEF OwnerHolds
    <2>7. CleanHolds'
      BY <1>1, <1>2, <2>2, <2>3, <2>5 DEF CleanHolds, Unclean
    <2>8. Evolves
      BY <2>2, Still
    <2> QED BY <1>1, <1>2, <2>2, <2>3, <2>6, <2>7, <2>8, RunKeeps
  <1>8. CASE OnRunEnd(n, err) /\ ~err /\ own.live
    <2>1. PICK o : o = [own EXCEPT !.run = 0, !.live = FALSE]
      OBVIOUS
    <2>2. own' = o /\ attempt[n] = "running" /\ attempt' = [attempt EXCEPT ![n] = "ended"] /\ UNCHANGED <<job, cleaner>> /\ ~Acting
      BY <1>8, <2>1 DEF OnRunEnd, Acting
    <2>3. /\ o \in OwnRec /\ o.on = own.on /\ o.run = 0 /\ o.gen = own.gen /\ o.reserved = own.reserved
          /\ o.closed = own.closed /\ o.life = own.life /\ o.started = own.started
      BY <1>1, <1>3, <2>1 DEF OwnRec
    <2>4. own.on /\ own.run = n /\ own.gen = n /\ (own.life \/ own.closed) /\ own.reserved
      BY <1>1, <2>2 DEF OwnerHolds
    <2>5. attempt' \in [Attempt -> AttemptState] /\ \A m \in Attempt : attempt'[m] \notin {"running", "ending"}
      BY <1>1, <1>4, <2>2, <2>4 DEF OwnerHolds, AttemptState
    <2>6. CompleteLocked' = CompleteLocked /\ Listed' = Listed
      BY <2>2 DEF CompleteLocked, Finished, Listed
    <2>7. OwnerHolds'
      BY <1>1, <1>2, <2>2, <2>3, <2>4, <2>5, <2>6 DEF OwnerHolds
    <2>8. CleanHolds'
      <3>1. ~Unclean("attempt") /\ ~Unclean("reset")
        BY <1>1, <2>2, <2>4 DEF CleanHolds
      <3> QED BY <1>1, <1>2, <2>2, <2>3, <2>6, <3>1 DEF CleanHolds, Unclean
    <2>9. Evolves
      BY <2>2, Still
    <2> QED BY <1>1, <1>2, <2>2, <2>3, <2>5, <2>7, <2>8, <2>9, RunKeeps
  <1>9. ASSUME own.on, own.run = n, own.gen = n, own.reserved, ~Acting, ~Unclean("attempt"), NEW s \in {"ending", "closing"},
               attempt' = [attempt EXCEPT ![n] = s], own' = [own EXCEPT !.life = FALSE], BeginClean("attempt")
        PROVE  ShInv'
    <2>1. PICK o, w : o = [own EXCEPT !.life = FALSE] /\ w = [at |-> "first", jobs |-> Listed]
      OBVIOUS
    <2>2. /\ own' = o /\ cleaner' = [cleaner EXCEPT !["attempt"] = w] /\ job' = Killed(Listed)
      BY <1>9, <2>1 DEF BeginClean
    <2>3. /\ o \in OwnRec /\ o.on /\ o.run = n /\ o.gen = n /\ o.reserved
          /\ o.closed = own.closed /\ ~o.life /\ o.started = own.started
      BY <1>1, <1>9, <2>1 DEF OwnRec
    <2>4. /\ attempt' \in [Attempt -> AttemptState] /\ attempt'[n] = s /\ \A m \in Attempt \ {n} : attempt'[m] \notin {"running", "ending"}
      BY <1>1, <1>4, <1>9 DEF OwnerHolds, AttemptState
    <2>5. Listed \subseteq Nat
      BY Shapes
    <2>6. w \in CleanRec /\ w.at = "first"
      BY <2>1, <2>5 DEF CleanRec
    <2>7. /\ cleaner' \in [Cleaner -> CleanRec] /\ cleaner'["attempt"].at = "first"
          /\ cleaner'["close"] = cleaner["close"] /\ cleaner'["reset"] = cleaner["reset"]
      BY <1>1, <1>3, <2>2, <2>6
    <2>8. Evolves
      BY <2>2, KilledEvolves
    <2>9. CompleteLocked => CompleteLocked'
      BY <2>8, EvolvesTo
    <2>10. OwnerHolds'
      BY <1>1, <1>2, <1>9, <2>2, <2>3, <2>4 DEF OwnerHolds
    <2>11. CleanHolds'
      <3>1. ~Unclean("reset")
        BY <1>1, <1>9 DEF CleanHolds
      <3> QED BY <1>1, <1>2, <1>9, <2>2, <2>3, <2>4, <2>7, <2>9, <3>1 DEF CleanHolds, Unclean
    <2> QED BY <1>2, <2>2, <2>3, <2>4, <2>7, <2>8, <2>10, <2>11, RunKeeps
  <1>10. CASE OnRunEnd(n, err) /\ ~(~err /\ own.live)
    <2>1. /\ attempt[n] = "running" /\ ~Acting /\ own' = [own EXCEPT !.life = FALSE]
          /\ attempt' = [attempt EXCEPT ![n] = "ending"] /\ BeginClean("attempt")
      BY <1>10 DEF OnRunEnd, Acting
    <2>2. own.on /\ own.run = n /\ own.gen = n /\ own.reserved
      BY <1>1, <2>1 DEF OwnerHolds
    <2>3. ~Unclean("attempt")
      BY <1>1, <2>1, <2>2 DEF CleanHolds
    <2> QED BY <1>9, <2>1, <2>2, <2>3
  <1>11. CASE LeaseClose(n) /\ own.run # 0
    <2>1. /\ attempt[n] \in {"bound", "ended", "over"} /\ own.gen = n /\ own' = [own EXCEPT !.life = FALSE]
          /\ attempt' = [attempt EXCEPT ![n] = "closing"] /\ BeginClean("attempt")
      BY <1>11 DEF LeaseClose, Mine
    <2>2. own.on /\ own.run = n /\ own.reserved /\ ~Acting
      BY <1>1, <1>11, <2>1 DEF OwnerHolds
    <2>3. ~Unclean("attempt")
      BY <1>1, <2>1, <2>2 DEF CleanHolds
    <2> QED BY <1>9, <2>1, <2>2, <2>3
  <1>12. CASE LeaseClose(n) /\ own.run = 0
    <2>1. PICK o : o = [own EXCEPT !.reserved = FALSE]
      OBVIOUS
    <2>2. own' = o /\ attempt' = [attempt EXCEPT ![n] = "over"] /\ UNCHANGED <<job, cleaner>> /\ own.on /\ own.reserved
      BY <1>12, <2>1 DEF LeaseClose, Mine
    <2>3. /\ o \in OwnRec /\ o.on /\ o.run = 0 /\ o.gen = own.gen
          /\ o.closed = own.closed /\ o.life = own.life /\ o.started = own.started
      BY <1>1, <1>12, <2>1, <2>2 DEF OwnRec
    <2>4. attempt' \in [Attempt -> AttemptState] /\ \A m \in Attempt : attempt'[m] \notin {"running", "ending"}
      BY <1>1, <1>4, <1>12, <2>2 DEF OwnerHolds, AttemptState
    <2>5. CompleteLocked' = CompleteLocked /\ Listed' = Listed
      BY <2>2 DEF CompleteLocked, Finished, Listed
    <2>6. OwnerHolds'
      BY <1>1, <1>2, <1>12, <2>2, <2>3, <2>4, <2>5 DEF OwnerHolds
    <2>7. CleanHolds'
      <3>1. ~Unclean("attempt") /\ ~Unclean("reset")
        BY <1>1, <1>12, <2>2 DEF CleanHolds
      <3> QED BY <1>1, <1>2, <2>2, <2>3, <2>5, <3>1 DEF CleanHolds, Unclean
    <2>8. Evolves
      BY <2>2, Still
    <2> QED BY <1>1, <1>2, <2>2, <2>3, <2>4, <2>6, <2>7, <2>8, RunKeeps
  <1> QED BY <1>5, <1>6, <1>7, <1>8, <1>10, <1>11, <1>12

\* What CleanEnds does to the owner, the journal and the attempt.
LEMMA CleanMovesKeep ==
  ASSUME ShellAssumption, ShInv, NEW k \in Cleaner, CleanFirst(k) \/ CleanCalls(k) \/ CleanGate(k)
  PROVE  ShInv'
  <1>1. /\ own \in OwnRec /\ attempt \in [Attempt -> AttemptState] /\ cleaner \in [Cleaner -> CleanRec]
        /\ OwnerHolds /\ CleanHolds /\ cleaner[k] \in CleanRec
    BY OwnerIs
  <1>2. /\ UNCHANGED <<own, attempt, call, tool, closed>> /\ closed' \in BOOLEAN /\ (Acting' <=> Acting)
        /\ gate' \in Caller \cup Cleaner \cup {NoHolder} /\ Unclean(k)
    BY DEF CleanFirst, CleanCalls, CleanGate, ShInv, ShellTyped, Acting, Busy, Unclean
  <1>3. PICK w : /\ cleaner' = [cleaner EXCEPT ![k] = w] /\ w \in CleanRec /\ w.at \in {"calls", "gate", "second"}
                 /\ k = "close" /\ w.at \in {"gate", "second"} => ~Acting
    <2>1. CASE CleanFirst(k)
      <3>1. PICK w : w = [cleaner[k] EXCEPT !.at = "calls"]
        OBVIOUS
      <3>2. cleaner' = [cleaner EXCEPT ![k] = w] /\ w \in CleanRec /\ w.at = "calls"
        BY <1>1, <2>1, <3>1 DEF CleanFirst, Stage, CleanRec
      <3> QED BY <3>2
    <2>2. CASE CleanCalls(k)
      <3>1. PICK w : w = [cleaner[k] EXCEPT !.at = "gate"]
        OBVIOUS
      <3>2. cleaner' = [cleaner EXCEPT ![k] = w] /\ w \in CleanRec /\ w.at = "gate" /\ ~Acting
        BY <1>1, <2>2, <3>1 DEF CleanCalls, Stage, CleanRec, Acting
      <3> QED BY <3>2
    <2>3. CASE CleanGate(k)
      <3>1. PICK w : w = [at |-> "second", jobs |-> Listed]
        OBVIOUS
      <3>2. Listed \subseteq Nat
        BY Shapes
      <3>3. cleaner' = [cleaner EXCEPT ![k] = w] /\ w \in CleanRec /\ w.at = "second"
        BY <1>1, <2>3, <3>1, <3>2 DEF CleanGate, CleanRec
      <3>4. k = "close" => ~Acting
        BY <1>1, <2>3 DEF CleanGate, CleanHolds
      <3> QED BY <3>3, <3>4
    <2> QED BY <2>1, <2>2, <2>3
  <1>4. Evolves
    <2>1. job' = job \/ job' = Killed(Listed)
      BY DEF CleanFirst, CleanCalls, CleanGate
    <2> QED BY <2>1, Still, KilledEvolves
  <1>5. Listed' = Listed /\ (CompleteLocked => CompleteLocked')
    BY <1>4, EvolvesTo
  <1>6. /\ cleaner' \in [Cleaner -> CleanRec] /\ cleaner'[k] = w /\ \A m \in Cleaner \ {k} : cleaner'[m] = cleaner[m]
    BY <1>1, <1>3
  <1>7. OwnerHolds'
    BY <1>1, <1>2, <1>5 DEF OwnerHolds
  <1>8. CleanHolds'
    <2>1. CASE k = "attempt"
      <3>1. cleaner'["attempt"] = w /\ cleaner'["close"] = cleaner["close"] /\ cleaner'["reset"] = cleaner["reset"]
        BY <1>6, <2>1 DEF Cleaner
      <3> QED BY <1>1, <1>2, <1>3, <1>5, <2>1, <3>1 DEF CleanHolds, Unclean
    <2>2. CASE k = "reset"
      <3>1. cleaner'["reset"] = w /\ cleaner'["close"] = cleaner["close"] /\ cleaner'["attempt"] = cleaner["attempt"]
        BY <1>6, <2>2 DEF Cleaner
      <3> QED BY <1>1, <1>2, <1>3, <1>5, <2>2, <3>1 DEF CleanHolds, Unclean
    <2>3. CASE k = "close"
      <3>1. cleaner'["close"] = w /\ cleaner'["reset"] = cleaner["reset"] /\ cleaner'["attempt"] = cleaner["attempt"]
        BY <1>6, <2>3 DEF Cleaner
      <3> QED BY <1>1, <1>2, <1>3, <1>5, <2>3, <3>1 DEF CleanHolds, Unclean
    <2> QED BY <2>1, <2>2, <2>3 DEF Cleaner
  <1> QED BY <1>1, <1>2, <1>4, <1>6, <1>7, <1>8, RunKeeps

LEMMA CleanEndsKeep == ASSUME ShellAssumption, ShInv, NEW k \in Cleaner, CleanEnds(k) PROVE ShInv'
  <1>1. /\ own \in OwnRec /\ attempt \in [Attempt -> AttemptState] /\ cleaner \in [Cleaner -> CleanRec]
        /\ own.on \in BOOLEAN /\ own.closed \in BOOLEAN /\ own.life \in BOOLEAN /\ own.live \in BOOLEAN /\ own.reserved \in BOOLEAN
        /\ OwnerHolds /\ CleanHolds /\ cleaner[k] \in CleanRec /\ (own.run = 0 => ~Acting) /\ (own.run # 0 => own.gen \in Attempt)
        /\ own.run \in 0 .. MaxRun /\ own.started \in 0 .. MaxPerRun
    BY OwnerIs
  <1>2. /\ UNCHANGED <<call, tool, closed>> /\ closed' \in BOOLEAN /\ (Acting' <=> Acting)
        /\ gate' \in Caller \cup Cleaner \cup {NoHolder} /\ Unclean(k)
    BY GateKeeps DEF CleanEnds, ShInv, ShellTyped, Acting, Busy, Unclean
  <1>3. PICK s \in {"off", "clean"} : s = IF k = "close" /\ cleaner[k].at = "second" /\ CompleteLocked THEN "clean" ELSE "off"
    OBVIOUS
  <1>4. PICK w : w = [cleaner[k] EXCEPT !.at = s]
    OBVIOUS
  <1>5. cleaner' = [cleaner EXCEPT ![k] = w] /\ w \in CleanRec /\ w.at = s
    BY <1>1, <1>3, <1>4 DEF CleanEnds, Stage, CleanRec
  <1>6. /\ cleaner' \in [Cleaner -> CleanRec] /\ cleaner'[k] = w /\ \A m \in Cleaner \ {k} : cleaner'[m] = cleaner[m]
    BY <1>1, <1>5
  <1>7. PICK over \in BOOLEAN : over = (k = "attempt" /\ CompleteLocked)
    OBVIOUS
  <1>8. PICK freed \in BOOLEAN : freed = (over /\ attempt[own.gen] = "closing")
    OBVIOUS
  <1>9. PICK drop \in BOOLEAN : drop = (k = "reset" /\ CompleteLocked /\ Busy = {} /\ gate' = NoHolder)
    OBVIOUS
  <1>10. PICK o : o = [own EXCEPT !.run = IF over THEN 0 ELSE own.run, !.live = own.live /\ ~over, !.reserved = own.reserved /\ ~freed]
    OBVIOUS
  <1>11. /\ own' = IF drop THEN NoOwner ELSE o
         /\ job' = IF drop THEN Recovered({}) ELSE job
    BY <1>7, <1>8, <1>9, <1>10 DEF CleanEnds
  <1>12. attempt' = IF k = "attempt" THEN [attempt EXCEPT ![own.gen] = IF attempt[own.gen] = "ending" THEN "ended" ELSE "over"] ELSE attempt
    BY <1>1 DEF CleanEnds
  <1>13. 0 \in 0 .. MaxRun /\ 0 \in 0 .. MaxPerRun
    BY DEF ShellAssumption
  <1>14. /\ o \in OwnRec /\ o.on = own.on /\ o.closed = own.closed /\ o.life = own.life /\ o.gen = own.gen /\ o.started = own.started
         /\ o.run = (IF over THEN 0 ELSE own.run) /\ (o.reserved <=> own.reserved /\ ~freed)
         /\ (o.live <=> own.live /\ ~over)
    BY <1>1, <1>10, <1>13 DEF OwnRec
  <1>15. CASE k = "attempt"
    <2>1. /\ own.run # 0 /\ ~own.life /\ attempt[own.gen] \in {"ending", "closing"} /\ own.on /\ own.run = own.gen /\ own.gen \in Attempt
          /\ own.reserved
      BY <1>1, <1>2, <1>15 DEF OwnerHolds, CleanHolds
    <2>2. ~Acting /\ ~drop /\ own' = o /\ job' = job /\ (over <=> CompleteLocked)
      BY <1>1, <1>7, <1>9, <1>11, <1>15, <2>1 DEF OwnerHolds
    <2>3. PICK t \in {"ended", "over"} : t = IF attempt[own.gen] = "ending" THEN "ended" ELSE "over"
      OBVIOUS
    <2>4. attempt' = [attempt EXCEPT ![own.gen] = t]
      BY <1>12, <1>15, <2>3
    <2>5. attempt' \in [Attempt -> AttemptState] /\ attempt'[own.gen] = t /\ \A m \in Attempt : attempt'[m] \notin {"running", "ending"}
      BY <1>1, <2>1, <2>3, <2>4 DEF OwnerHolds, AttemptState
    <2>6. (CompleteLocked' <=> CompleteLocked) /\ Listed' = Listed
      BY <2>2 DEF CompleteLocked, Finished, Listed
    <2>7. OwnerHolds'
      <3>1. CASE over
        <4>1. own'.run = 0 /\ own'.on /\ own'.gen \in Attempt /\ (own'.closed => ~own'.life) /\ CompleteLocked' /\ ~Acting'
          BY <1>1, <1>2, <1>14, <2>1, <2>2, <2>6, <3>1 DEF OwnerHolds
        <4> QED BY <2>5, <4>1 DEF OwnerHolds
      <3>2. CASE ~over
        <4>1. /\ own'.run = own.run /\ own'.on /\ own'.gen = own.gen /\ ~own'.life /\ ~Acting' /\ own'.reserved
          BY <1>2, <1>8, <1>14, <2>1, <2>2, <3>2
        <4> QED BY <2>1, <2>3, <2>5, <4>1 DEF OwnerHolds
      <3> QED BY <3>1, <3>2
    <2>8. CleanHolds'
      <3>1. cleaner'["attempt"].at = "off" /\ cleaner'["close"] = cleaner["close"] /\ cleaner'["reset"] = cleaner["reset"]
        BY <1>3, <1>5, <1>6, <1>15 DEF Cleaner
      <3>2. ~Unclean("reset")
        BY <1>1, <2>1 DEF CleanHolds
      <3> QED BY <1>1, <1>2, <1>14, <2>2, <2>6, <3>1, <3>2 DEF CleanHolds, Unclean
    <2>9. Evolves
      BY <2>2, Still
    <2> QED BY <1>2, <1>6, <1>14, <2>2, <2>5, <2>7, <2>8, <2>9, RunKeeps
  <1>16. CASE k = "reset" /\ drop
    <2>1. /\ own.on /\ ~own.reserved /\ own.closed /\ own.run = 0 /\ ~Acting /\ CompleteLocked /\ ~closed /\ cleaner["close"].at = "off"
          /\ ~Unclean("attempt")
      BY <1>1, <1>2, <1>9, <1>16 DEF OwnerHolds, CleanHolds, Unclean
    <2>2. own' = NoOwner /\ job' = Recovered({}) /\ attempt' = attempt
      BY <1>11, <1>12, <1>16
    <2>3. job' \in Seq(JobRec) /\ JobsHold' /\ CallsHold' /\ NewHolds' /\ LockHolds' /\ Bounded' /\ Listed' = {}
      BY <1>2, <2>1, <2>2, RecoverKeeps
    <2>4. NoOwner \in OwnRec /\ NoOwner.run = 0 /\ ~NoOwner.on /\ ~NoOwner.life
      BY <1>13 DEF NoOwner, OwnRec
    <2>5. OwnerHolds'
      BY <1>1, <1>2, <2>1, <2>2, <2>3, <2>4 DEF OwnerHolds
    <2>6. CleanHolds'
      <3>1. cleaner'["reset"].at = "off" /\ cleaner'["close"] = cleaner["close"] /\ cleaner'["attempt"] = cleaner["attempt"]
        BY <1>3, <1>5, <1>6, <1>16 DEF Cleaner
      <3> QED BY <1>1, <1>2, <2>1, <3>1 DEF CleanHolds, Unclean
    <2>7. ShellTyped'
      BY <1>1, <1>2, <1>6, <2>2, <2>3, <2>4 DEF ShInv, ShellTyped
    <2> QED BY <2>3, <2>5, <2>6, <2>7 DEF ShInv
  <1>17. CASE k # "attempt" /\ ~(k = "reset" /\ drop)
    <2>1. ~drop /\ ~over /\ ~freed
      BY <1>7, <1>8, <1>9, <1>17
    <2>2. own' = o /\ job' = job /\ attempt' = attempt
      BY <1>11, <1>12, <1>17, <2>1
    <2>3. o = own
      <3>1. o = [own EXCEPT !.run = own.run, !.live = own.live, !.reserved = own.reserved]
        BY <1>1, <1>10, <2>1
      <3> QED BY <1>1, <3>1 DEF OwnRec
    <2>4. (CompleteLocked' <=> CompleteLocked) /\ Listed' = Listed
      BY <2>2 DEF CompleteLocked, Finished, Listed
    <2>5. OwnerHolds'
      BY <1>1, <1>2, <2>2, <2>3, <2>4 DEF OwnerHolds
    <2>6. CleanHolds'
      <3>1. CASE k = "reset"
        <4>1. cleaner'["reset"].at = "off" /\ cleaner'["close"] = cleaner["close"] /\ cleaner'["attempt"] = cleaner["attempt"]
          BY <1>3, <1>5, <1>6, <3>1 DEF Cleaner
        <4> QED BY <1>1, <1>2, <2>2, <2>3, <2>4, <4>1 DEF CleanHolds, Unclean
      <3>2. CASE k = "close"
        <4>1. cleaner'["close"].at = s /\ cleaner'["reset"] = cleaner["reset"] /\ cleaner'["attempt"] = cleaner["attempt"]
          BY <1>5, <1>6, <3>2 DEF Cleaner
        <4>2. cleaner["close"].at # "off"
          BY <1>2, <3>2 DEF Unclean
        <4>3. s = "clean" => ~Acting /\ CompleteLocked
          BY <1>1, <1>3, <3>2 DEF CleanHolds
        <4> QED BY <1>1, <1>2, <2>2, <2>3, <2>4, <4>1, <4>2, <4>3 DEF CleanHolds, Unclean
      <3> QED BY <1>17, <3>1, <3>2 DEF Cleaner
    <2>7. Evolves
      BY <2>2, Still
    <2> QED BY <1>1, <1>2, <1>6, <2>2, <2>3, <2>5, <2>6, <2>7, RunKeeps
  <1> QED BY <1>15, <1>16, <1>17

LEMMA EndingKeeps == ASSUME ShellAssumption, ShInv, Reset \/ ShellClose \/ OtherTool PROVE ShInv'
  <1>1. /\ own \in OwnRec /\ attempt \in [Attempt -> AttemptState] /\ cleaner \in [Cleaner -> CleanRec]
        /\ own.on \in BOOLEAN /\ own.closed \in BOOLEAN /\ own.life \in BOOLEAN
        /\ OwnerHolds /\ CleanHolds /\ (own.run = 0 => ~Acting) /\ (~own.on => CompleteLocked /\ own.run = 0)
        /\ gate \in Caller \cup Cleaner \cup {NoHolder} /\ closed \in BOOLEAN /\ tool \in BOOLEAN
    BY OwnerIs DEF ShInv, ShellTyped
  <1>2. UNCHANGED <<gate, attempt, call>> /\ (Acting' <=> Acting)
    BY DEF Reset, ShellClose, OtherTool, Acting, Busy
  <1>3. "attempt" \in Cleaner /\ "reset" \in Cleaner /\ "close" \in Cleaner /\ "attempt" # "reset" /\ "attempt" # "close" /\ "reset" # "close"
    BY DEF Cleaner
  <1>4. PICK o, w, z : /\ o = [own EXCEPT !.closed = TRUE, !.life = FALSE] /\ w = [at |-> "first", jobs |-> Listed]
                       /\ z = [cleaner["close"] EXCEPT !.at = "clean"]
    OBVIOUS
  <1>5. /\ o \in OwnRec /\ o.on = own.on /\ o.run = own.run /\ o.gen = own.gen /\ o.reserved = own.reserved
        /\ o.closed /\ ~o.life /\ o.started = own.started
    BY <1>1, <1>4 DEF OwnRec
  <1>6. w \in CleanRec /\ w.at = "first" /\ z \in CleanRec /\ z.at = "clean"
    <2>1. Listed \subseteq Nat
      BY Shapes
    <2> QED BY <1>1, <1>3, <1>4, <2>1 DEF CleanRec
  <1>7. ASSUME own.on, own' = o, NEW k \in {"reset", "close"}, BeginClean(k), tool' = tool, closed' \in BOOLEAN, ~closed,
               k = "reset" => ~own.reserved /\ closed' = closed, k = "close" => closed' /\ cleaner["reset"].at = "off"
        PROVE  ShInv'
    <2>1. cleaner' = [cleaner EXCEPT ![k] = w] /\ job' = Killed(Listed)
      BY <1>4, <1>7 DEF BeginClean
    <2>2. cleaner' \in [Cleaner -> CleanRec] /\ cleaner'[k] = w /\ \A m \in Cleaner \ {k} : cleaner'[m] = cleaner[m]
      BY <1>1, <1>3, <1>6, <1>7, <2>1
    <2>3. Evolves
      BY <2>1, KilledEvolves
    <2>4. OwnerHolds'
      BY <1>1, <1>2, <1>5, <1>7 DEF OwnerHolds
    <2>5. cleaner["close"].at = "off"
      BY <1>1, <1>7 DEF CleanHolds
    <2>6. CleanHolds'
      <3>1. CASE k = "reset"
        <4>1. cleaner'["reset"] = w /\ cleaner'["attempt"] = cleaner["attempt"] /\ cleaner'["close"] = cleaner["close"]
          BY <1>3, <2>2, <3>1
        <4> QED BY <1>1, <1>2, <1>5, <1>6, <1>7, <2>5, <3>1, <4>1 DEF CleanHolds, Unclean
      <3>2. CASE k = "close"
        <4>1. cleaner'["close"] = w /\ cleaner'["attempt"] = cleaner["attempt"] /\ cleaner'["reset"] = cleaner["reset"]
          BY <1>3, <2>2, <3>2
        <4> QED BY <1>1, <1>2, <1>5, <1>6, <1>7, <3>2, <4>1 DEF CleanHolds, Unclean
      <3> QED BY <1>7, <3>1, <3>2
    <2> QED BY <1>1, <1>2, <1>5, <1>7, <2>2, <2>3, <2>4, <2>6, RunKeeps
  <1>8. CASE Reset
    <2>1. own.on /\ own' = o /\ BeginClean("reset") /\ tool' = tool /\ closed' = closed /\ ~closed /\ ~own.reserved
      BY <1>4, <1>8 DEF Reset
    <2> QED BY <1>1, <1>7, <2>1
  <1>9. CASE ShellClose /\ own.on
    <2>1. own' = o /\ BeginClean("close") /\ tool' = tool /\ closed' = TRUE /\ ~closed /\ cleaner["reset"].at = "off"
      BY <1>4, <1>9 DEF ShellClose
    <2> QED BY <1>7, <1>9, <2>1
  <1>10. CASE ShellClose /\ ~own.on
    <2>1. own' = own /\ job' = job /\ tool' = tool /\ closed' = TRUE /\ cleaner["reset"].at = "off" /\ cleaner' = [cleaner EXCEPT !["close"] = z]
      BY <1>4, <1>10 DEF ShellClose, Stage
    <2>2. cleaner' \in [Cleaner -> CleanRec] /\ cleaner'["close"] = z /\ cleaner'["attempt"] = cleaner["attempt"] /\ cleaner'["reset"] = cleaner["reset"]
      BY <1>1, <1>3, <1>6, <2>1
    <2>3. CompleteLocked' /\ Listed' = Listed /\ ~Acting /\ (CompleteLocked <=> CompleteLocked')
      BY <1>1, <1>10, <2>1 DEF CompleteLocked, Finished, Listed
    <2>4. OwnerHolds'
      BY <1>1, <1>2, <2>1, <2>3 DEF OwnerHolds
    <2>5. CleanHolds'
      BY <1>1, <1>2, <1>6, <1>10, <2>1, <2>2, <2>3 DEF CleanHolds, Unclean
    <2>6. Evolves
      BY <2>1, Still
    <2> QED BY <1>1, <1>2, <2>1, <2>2, <2>4, <2>5, <2>6, RunKeeps
  <1>11. CASE OtherTool
    <2>1. UNCHANGED <<own, gate, attempt, call, job, cleaner, closed>> /\ (tool \/ LockFree) /\ tool' = ~tool
      BY <1>11 DEF OtherTool
    <2>2. ShellTyped' /\ Bounded'
      BY <1>1, <2>1 DEF ShInv, ShellTyped, Bounded, Listed
    <2>3. LockHolds'
      BY <2>1 DEF ShInv, LockHolds, LockFree, Locking
    <2>4. JobsHold' /\ NewHolds'
      BY <2>1 DEF ShInv, JobsHold, NewHolds
    <2>5. CallsHold'
      BY <2>1 DEF ShInv, CallsHold, CallHolds, Budget, Listed
    <2>6. OwnerHolds'
      BY <2>1 DEF ShInv, OwnerHolds, Acting, Busy, Listed, CompleteLocked, Finished
    <2>7. CleanHolds'
      BY <2>1 DEF ShInv, CleanHolds, Acting, Busy, Listed, CompleteLocked, Finished, Unclean
    <2> QED BY <2>2, <2>3, <2>4, <2>5, <2>6, <2>7 DEF ShInv
  <1> QED BY <1>8, <1>9, <1>10, <1>11

LEMMA CrashKeeps == ASSUME ShellAssumption, ShInv, Crash PROVE ShInv'
  <1>1. /\ job \in Seq(JobRec) /\ Len(job) \in Nat /\ DOMAIN job = 1 .. Len(job)
        /\ \A i \in DOMAIN job : job[i] \in JobRec /\ Fits(job[i])
        /\ attempt \in [Attempt -> AttemptState] /\ cleaner \in [Cleaner -> CleanRec]
    BY Shapes, OwnerIs
  <1>2. /\ own' = NoOwner /\ gate' = NoHolder /\ tool' = FALSE /\ closed' = FALSE
        /\ attempt' = [n \in Attempt |-> IF attempt[n] = "none" THEN "none" ELSE "over"]
        /\ call' = [c \in Caller |-> NoCall] /\ cleaner' = [k \in Cleaner |-> NoClean]
    BY <1>1 DEF Crash
  <1>3. ASSUME NEW i \in DOMAIN job
        PROVE  /\ job'[i] \in JobRec /\ Fits(job'[i]) /\ ~job'[i].listed /\ ~job'[i].held /\ job'[i].proc # "alive"
    <2>1. PICK j : j = [NewJob EXCEPT !.proc = IF job[i].proc = "none" THEN "none" ELSE "unknown", !.facts = job[i].facts]
      OBVIOUS
    <2>2. job'[i] = j
      BY <2>1 DEF Crash
    <2>3. /\ j \in JobRec /\ j.proc = (IF job[i].proc = "none" THEN "none" ELSE "unknown") /\ j.at = "new" /\ ~j.listed /\ ~j.held
          /\ ~j.watched /\ ~j.bad /\ j.facts = job[i].facts
      BY <1>1, <2>1 DEF NewJob, JobRec
    <2>4. "failed" \in j.facts => j.proc = "none"
      BY <1>1, <2>3 DEF Fits
    <2>5. Fits(j)
      BY <2>3, <2>4 DEF Fits
    <2> QED BY <2>2, <2>3, <2>5
  <1>4. job' \in [1 .. Len(job) -> JobRec]
    BY <1>1, <1>3 DEF Crash
  <1>5. job' \in Seq(JobRec) /\ DOMAIN job' = DOMAIN job
    BY <1>1, <1>4, FunctionIsSeq
  <1>6. NoOwner \in OwnRec /\ NoCall \in CallRec /\ NoClean \in CleanRec
    BY DEF NoOwner, OwnRec, NoCall, CallRec, Steps, NoClean, CleanRec, ShellAssumption
  <1>7. ShellTyped'
    BY <1>1, <1>2, <1>5, <1>6 DEF ShellTyped, AttemptState
  <1>8. JobsHold' /\ Listed' = {}
    BY <1>3, <1>5 DEF JobsHold, Listed
  <1>9. /\ \A c \in Caller : call'[c].pc = "idle"
        /\ \A k \in Cleaner : cleaner'[k].at = "off"
    BY <1>2 DEF NoCall, NoClean
  <1>10. CallsHold' /\ NewHolds' /\ LockHolds' /\ ~Acting'
    BY <1>2, <1>3, <1>5, <1>9 DEF CallsHold, CallHolds, NewHolds, LockHolds, Locking, Acting, Busy
  <1>11. \A n \in Attempt : attempt'[n] \notin {"running", "ending"}
    BY <1>2
  <1>12. OwnerHolds'
    BY <1>2, <1>8, <1>10, <1>11 DEF OwnerHolds, NoOwner
  <1>13. CleanHolds'
    BY <1>2, <1>9 DEF CleanHolds, Unclean, Cleaner
  <1>14. Bounded'
    BY <1>8, FS_EmptySet DEF Bounded, ShellAssumption
  <1> QED BY <1>7, <1>8, <1>10, <1>12, <1>13, <1>14 DEF ShInv

LEMMA ShellInitHolds == ASSUME ShellAssumption, ShellInit PROVE ShInv
  <1>1. NoOwner \in OwnRec /\ NoCall \in CallRec /\ NoClean \in CleanRec
    BY DEF NoOwner, OwnRec, NoCall, CallRec, Steps, NoClean, CleanRec, ShellAssumption
  <1>2. job \in Seq(JobRec) /\ DOMAIN job = {}
    BY DEF ShellInit
  <1>3. cleaner \in [Cleaner -> CleanRec] /\ call \in [Caller -> CallRec] /\ attempt \in [Attempt -> AttemptState]
    BY <1>1 DEF ShellInit, Cleaner, AttemptState
  <1>4. ShellTyped
    BY <1>1, <1>2, <1>3 DEF ShellInit, ShellTyped, AttemptState
  <1>5. /\ \A c \in Caller : call[c].pc = "idle"
        /\ \A k \in Cleaner : cleaner[k].at = "off"
    BY DEF ShellInit, NoCall, NoClean, Cleaner
  <1>6. JobsHold /\ CallsHold /\ NewHolds /\ LockHolds
    BY <1>2, <1>5 DEF ShellInit, JobsHold, CallsHold, CallHolds, NewHolds, LockHolds, Locking
  <1>7. Listed = {} /\ ~Acting
    BY <1>2, <1>5 DEF Listed, Acting, Busy
  <1>8. OwnerHolds
    BY <1>7 DEF ShellInit, OwnerHolds, NoOwner
  <1>9. CleanHolds
    BY <1>5 DEF ShellInit, CleanHolds, Unclean, Cleaner
  <1>10. Bounded
    BY <1>7, FS_EmptySet DEF Bounded, ShellAssumption
  <1> QED BY <1>4, <1>6, <1>8, <1>9, <1>10 DEF ShInv

LEMMA ShellStepHolds == ASSUME ShellAssumption, ShInv, [ShellNext]_shellVars PROVE ShInv'
  <1>1. CASE Attempts
    <2>1. ASSUME NEW n \in Attempt, NEW b \in BOOLEAN, NEW S,
                 \/ OnRunStart(n) \/ LeaseClose(n) \/ Bind(n, b) \/ BindSpoilt(n, b) \/ OnRunEnd(n, b) \/ BindFails(n, S)
          PROVE  ShInv'
      BY <2>1, BindKeeps, RunMovesKeep
    <2>2. CASE CancelRun
      <3>1. own.live /\ own.on
        BY <2>2 DEF CancelRun, ShInv, OwnerHolds, NoOwner
      <3>2. own.gen \in Attempt
        BY <3>1 DEF ShInv, OwnerHolds
      <3> QED BY <2>2, <3>2, RunMovesKeep
    <2> QED BY <1>1, <2>1, <2>2, EndingKeeps, CrashKeeps DEF Attempts
  <1>2. ASSUME NEW c \in Caller, NEW b \in BOOLEAN, NEW i,
               \/ BeginCall(c) \/ Refused(c) \/ CallMoves(c) \/ StartFails(c, TRUE) \/ PublishJob(c, TRUE)
               \/ Authorized(c, b) \/ Kill(c, i)
        PROVE  ShInv'
    <2>1. CASE CallMoves(c)
      BY <2>1, PlainCallsKeep, IntendKeeps, JobStartKeeps, PublishKeeps DEF CallMoves
    <2> QED BY <1>2, <2>1, PlainCallsKeep, JobStartKeeps, PublishKeeps
  <1>3. ASSUME NEW i \in DOMAIN job, NEW b \in BOOLEAN,
               JobMoves(i) \/ Reap(i, TRUE) \/ JobStopped(i) \/ JobEnds(i, b) \/ Record(i, TRUE, b)
        PROVE  ShInv'
    BY <1>3, JobMovesKeep DEF JobMoves
  <1>4. ASSUME NEW k \in DOMAIN cleaner, CleanerMoves(k) PROVE ShInv'
    <2>1. k \in Cleaner
      BY DEF ShInv, ShellTyped
    <2> QED BY <1>4, <2>1, CleanMovesKeep, CleanEndsKeep DEF CleanerMoves
  <1>5. CASE UNCHANGED shellVars
    <2>1. Evolves /\ UNCHANGED <<own, gate, attempt, call, tool, cleaner, closed>>
      BY <1>5, Still DEF shellVars
    <2> QED BY <2>1, JobStepKeeps
  <1> QED BY <1>1, <1>2, <1>3, <1>4, <1>5 DEF ShellNext

\* Every process is as its marks say, one call, tool or process has the global
\* lock, calls act only within the run of the bound attempt, and a cleanup that
\* is past the gate finds no call; for any callers, processes, runs and faults.
THEOREM ShellInvariant == ShellAssumption /\ ShellSpec => []ShInv
  <1> SUFFICES ASSUME ShellAssumption PROVE ShellSpec => []ShInv
    OBVIOUS
  <1>1. ShellInit => ShInv
    BY ShellInitHolds
  <1>2. ShInv /\ [ShellNext]_shellVars => ShInv'
    BY ShellStepHolds
  <1> QED BY <1>1, <1>2, PTL DEF ShellSpec

\* The set has at most one element.
LEMMA OneOrNone ==
  ASSUME NEW S, \A x, y \in S : x = y
  PROVE  IsFiniteSet(S) /\ Cardinality(S) = IF S = {} THEN 0 ELSE 1
  <1>1. CASE S = {}
    BY <1>1, FS_EmptySet
  <1>2. CASE S # {}
    <2>1. PICK x \in S : TRUE
      BY <1>2
    <2>2. S = {x}
      BY <2>1
    <2> QED BY <1>2, <2>2, FS_Singleton
  <1> QED BY <1>1, <1>2

\* The lock is had by one call, tool or process until that is reaped; the
\* journal gives a process one end; and a run that failed, or the application,
\* leaves none behind.
THEOREM ShellOwnsProcesses ==
    ShellAssumption /\ ShellSpec => [](ShellTypeOK /\ ExclusionLasts /\ FactsAreFinal /\ FailedRunIsReaped /\ ClosedIsQuiet)
  <1> SUFFICES ASSUME ShellAssumption
               PROVE  ShellSpec => [](ShellTypeOK /\ ExclusionLasts /\ FactsAreFinal /\ FailedRunIsReaped /\ ClosedIsQuiet)
    OBVIOUS
  <1>1. ASSUME ShInv PROVE ShellTypeOK /\ ExclusionLasts /\ FactsAreFinal /\ FailedRunIsReaped /\ ClosedIsQuiet
    <2>1. /\ \A i \in DOMAIN job : job[i] \in JobRec /\ Fits(job[i])
          /\ job \in Seq(JobRec) /\ cleaner \in [Cleaner -> CleanRec]
      BY <1>1, Shapes
    <2>2. ExclusionLasts
      <3>1. PICK P, L, t : /\ P = {i \in Listed : job[i].held \/ job[i].proc # "reaped"}
                           /\ L = {c \in Caller : Locking(c)} /\ t = IF tool THEN 1 ELSE 0
        OBVIOUS
      <3>2. \A i \in P : job[i].held /\ i \in DOMAIN job
        BY <2>1, <3>1 DEF Listed, Fits
      <3>3. \A i, k \in P : i = k
        BY <1>1, <3>2 DEF ShInv, LockHolds
      <3>4. \A c, d \in L : c = d
        BY <1>1, <3>1 DEF ShInv, LockHolds
      <3>5. (P # {} => L = {} /\ ~tool) /\ (L # {} => ~tool)
        BY <1>1, <3>1, <3>2 DEF ShInv, LockHolds
      <3>6. Cardinality(P) = (IF P = {} THEN 0 ELSE 1) /\ Cardinality(L) = IF L = {} THEN 0 ELSE 1
        BY <3>3, <3>4, OneOrNone
      <3>7. Cardinality(P) + Cardinality(L) + t <= 1
        <4>1. PICK p, l : p = Cardinality(P) /\ l = Cardinality(L)
          OBVIOUS
        <4>2. p \in {0, 1} /\ l \in {0, 1} /\ t \in {0, 1} /\ (p = 1 => l = 0 /\ t = 0) /\ (l = 1 => t = 0)
          BY <3>1, <3>5, <3>6, <4>1
        <4> QED BY <4>1, <4>2
      <3>8. ASSUME NEW i \in DOMAIN job, job[i].proc \in {"alive", "closing"}
            PROVE  i \in Listed \/ \E c \in Caller : call[c].job = i
        <4>1. job[i].at # "new" => job[i].listed
          BY <2>1, <3>8 DEF Fits
        <4>2. job[i].at = "new" => \E c \in Caller : call[c].job = i
          BY <1>1, <2>1, <3>8 DEF ShInv, NewHolds, Fits
        <4> QED BY <4>1, <4>2 DEF Listed
      <3> QED BY <3>1, <3>7, <3>8 DEF ExclusionLasts
    <2>3. FactsAreFinal
      <3> SUFFICES ASSUME NEW i \in DOMAIN job
                   PROVE  /\ Cardinality(job[i].facts \ {"intent"}) <= 1
                          /\ "abandoned" \in job[i].facts => job[i].at \in {"new", "done"} /\ ~job[i].listed
                          /\ "failed" \in job[i].facts => job[i].proc = "none"
        BY DEF FactsAreFinal
      <3>1. job[i].facts \in {{"intent"}, {"intent", "failed"}, {"intent", "abandoned"}, {"intent", "outcome"}}
        BY <2>1 DEF JobRec
      <3>2. PICK F : F = job[i].facts \ {"intent"}
        OBVIOUS
      <3>3. \A x, y \in F : x = y
        BY <3>1, <3>2
      <3>4. Cardinality(F) \in {0, 1}
        BY <3>3, OneOrNone
      <3>5. Cardinality(F) <= 1
        BY <3>4
      <3> QED BY <2>1, <3>2, <3>5 DEF Fits
    <2>4. ShellTypeOK
      <3>1. Cardinality(Listed) <= MaxListed
        BY <1>1 DEF ShInv, Bounded
      <3> QED BY <1>1, <2>1, <3>1 DEF ShInv, ShellTyped, ShellTypeOK, OwnRec, JobRec, AttemptState
    <2>5. FailedRunIsReaped
      <3>1. own.run = 0 => Busy = {}
        BY <1>1 DEF ShInv, OwnerHolds, Acting
      <3>2. \A n \in Attempt : n # 0
        BY DEF Attempt
      <3> QED BY <1>1, <3>1, <3>2 DEF ShInv, OwnerHolds, FailedRunIsReaped
    <2>6. ClosedIsQuiet
      BY <1>1 DEF ShInv, CleanHolds, ClosedIsQuiet, Acting
    <2> QED BY <2>2, <2>3, <2>4, <2>5, <2>6
  <1> QED BY <1>1, ShellInvariant, PTL

-----------------------------------------------------------------------------
(* The versioned channels of a graph.                                      *)

CONSTANTS Writers, Kind, Values, Absent, MaxUpdates
VARIABLES channel, holder, writer, updates, reduced, moves

Channel == INSTANCE GraphChannel WITH MaxCalls <- MaxUpdates, w <- writer, calls <- updates

WriterRec == [pc : {"idle", "update", "store"}, arg : SUBSET UNION Values, next : SUBSET UNION Values, changed : BOOLEAN]

ChannelTyped ==
    /\ channel \in [value : SUBSET UNION Values, present : BOOLEAN, version : Nat]
    /\ holder \in Writers \cup {Absent}
    /\ writer \in [Writers -> WriterRec]
    /\ moves \in Nat

\* What a writer computed outside the lock of the readers is still right when
\* it stores it: it holds updateMu.
WriterHolds(x) ==
    /\ writer[x].pc = "store" <=> holder = x
    /\ writer[x].pc = "store" =>
         /\ Kind = "aggregate" => writer[x].next = channel.value \cup writer[x].arg
         /\ writer[x].changed <=> ~channel.present \/ channel.value # writer[x].next

ValueHolds ==
    /\ ~channel.present => channel.value = {}
    /\ Kind = "aggregate" => channel.value = reduced
    /\ channel.version = moves

ChInv == ChannelTyped /\ ValueHolds /\ \A x \in Writers : WriterHolds(x)

LEMMA ChannelComputeKeeps ==
  ASSUME Channel!ChannelAssumption, ChInv, NEW x \in Writers, Channel!Compute(x)
  PROVE  ChInv'
  <1>1. PICK next : next = IF Kind = "aggregate" /\ channel.present THEN channel.value \cup writer[x].arg
                           ELSE writer[x].arg
    OBVIOUS
  <1>2. PICK r : r = [writer[x] EXCEPT !.pc = "store", !.next = next, !.changed = ~channel.present \/ channel.value # next]
    OBVIOUS
  <1>3. /\ writer[x].pc = "update" /\ holder = Absent /\ holder' = x /\ UNCHANGED <<channel, reduced, moves>>
        /\ writer' = [writer EXCEPT ![x] = r]
    BY <1>1, <1>2 DEF Channel!Compute
  <1>4. /\ writer[x] \in WriterRec /\ channel.value \in SUBSET UNION Values
        /\ writer \in [Writers -> WriterRec]
    BY DEF ChInv, ChannelTyped
  <1>5. next \in SUBSET UNION Values /\ (Kind = "aggregate" => next = channel.value \cup writer[x].arg)
    BY <1>1, <1>4 DEF WriterRec, ChInv, ValueHolds
  <1>6. /\ r \in WriterRec /\ r.pc = "store" /\ r.next = next /\ r.arg = writer[x].arg
        /\ r.changed <=> ~channel.present \/ channel.value # next
    BY <1>2, <1>4, <1>5 DEF WriterRec
  <1>7. writer' \in [Writers -> WriterRec] /\ writer'[x] = r /\ \A y \in Writers \ {x} : writer'[y] = writer[y]
    BY <1>3, <1>4, <1>6
  <1>8. ChannelTyped' /\ ValueHolds'
    BY <1>3, <1>7 DEF ChInv, ChannelTyped, ValueHolds
  <1>9. ASSUME NEW y \in Writers PROVE WriterHolds(y)'
    <2>1. CASE y = x
      BY <2>1, <1>3, <1>5, <1>6, <1>7 DEF WriterHolds
    <2>2. CASE y # x
      BY <2>2, <1>3, <1>7 DEF WriterHolds, ChInv, Channel!ChannelAssumption
    <2> QED BY <2>1, <2>2
  <1> QED BY <1>8, <1>9 DEF ChInv

LEMMA ChannelStoreKeeps ==
  ASSUME Channel!ChannelAssumption, ChInv, NEW x \in Writers, Channel!Store(x)
  PROVE  ChInv'
  <1>1. /\ writer[x].pc = "store" /\ holder' = Absent /\ reduced' = reduced \cup writer[x].arg
        /\ channel' = [value |-> writer[x].next, present |-> TRUE,
                       version |-> channel.version + IF writer[x].changed THEN 1 ELSE 0]
        /\ moves' = IF ~channel.present \/ channel.value # writer[x].next THEN moves + 1 ELSE moves
        /\ writer' = [writer EXCEPT ![x] = Channel!Rest]
    BY DEF Channel!Store
  <1>2. /\ WriterHolds(x) /\ ValueHolds /\ holder = x /\ writer[x] \in WriterRec /\ writer \in [Writers -> WriterRec]
        /\ moves \in Nat /\ channel.version \in Nat
    BY <1>1 DEF ChInv, ChannelTyped, WriterHolds
  <1>3. Channel!Rest \in WriterRec /\ Channel!Rest.pc = "idle"
    BY DEF Channel!Rest, WriterRec
  <1>4. writer' \in [Writers -> WriterRec] /\ writer'[x].pc = "idle" /\ \A y \in Writers \ {x} : writer'[y] = writer[y]
    BY <1>1, <1>2, <1>3
  <1>5. /\ channel'.value = writer[x].next /\ channel'.present
        /\ channel'.version = moves' /\ moves' \in Nat
        /\ channel' \in [value : SUBSET UNION Values, present : BOOLEAN, version : Nat]
    BY <1>1, <1>2 DEF WriterHolds, ValueHolds, WriterRec
  <1>6. Kind = "aggregate" => channel'.value = reduced'
    BY <1>1, <1>2, <1>5 DEF WriterHolds, ValueHolds
  <1>7. ChannelTyped' /\ ValueHolds'
    BY <1>1, <1>4, <1>5, <1>6 DEF ChannelTyped, ValueHolds
  <1>8. ASSUME NEW y \in Writers PROVE WriterHolds(y)'
    <2>1. writer'[y].pc # "store"
      BY <1>2, <1>4 DEF ChInv, WriterHolds
    <2> QED BY <2>1, <1>1 DEF WriterHolds, Channel!ChannelAssumption
  <1> QED BY <1>7, <1>8 DEF ChInv

LEMMA ChannelResetKeeps ==
  ASSUME Channel!ChannelAssumption, ChInv, NEW x \in Writers, Channel!Reset(x)
  PROVE  ChInv'
  <1>1. /\ Kind = "ephemeral" /\ holder = Absent /\ UNCHANGED <<holder, writer, reduced, moves>>
        /\ channel' = [channel EXCEPT !.value = {}, !.present = FALSE]
    BY DEF Channel!Reset
  <1>2. /\ channel'.value = {} /\ channel'.version = channel.version
        /\ channel' \in [value : SUBSET UNION Values, present : BOOLEAN, version : Nat]
    BY <1>1 DEF ChInv, ChannelTyped
  <1>3. ChannelTyped' /\ ValueHolds'
    BY <1>1, <1>2 DEF ChInv, ChannelTyped, ValueHolds
  <1>4. \A y \in Writers : WriterHolds(y)'
    BY <1>1 DEF ChInv, WriterHolds, Channel!ChannelAssumption
  <1> QED BY <1>3, <1>4 DEF ChInv

LEMMA ChannelCallingKeeps ==
  ASSUME Channel!ChannelAssumption, ChInv, NEW x \in Writers, NEW v \in Values, Channel!Call(x, v)
  PROVE  ChInv'
  <1>1. PICK r : r = [Channel!Rest EXCEPT !.pc = "update", !.arg = v]
    OBVIOUS
  <1>2. writer[x].pc = "idle" /\ writer' = [writer EXCEPT ![x] = r] /\ UNCHANGED <<channel, holder, reduced, moves>>
    BY <1>1 DEF Channel!Call
  <1>3. r \in WriterRec /\ r.pc = "update"
    BY <1>1 DEF Channel!Rest, WriterRec
  <1>4. writer' \in [Writers -> WriterRec] /\ writer'[x] = r /\ \A y \in Writers \ {x} : writer'[y] = writer[y]
    BY <1>2, <1>3 DEF ChInv, ChannelTyped
  <1>5. ChannelTyped' /\ ValueHolds'
    BY <1>2, <1>4 DEF ChInv, ChannelTyped, ValueHolds
  <1>6. \A y \in Writers : WriterHolds(y)'
    BY <1>2, <1>3, <1>4 DEF ChInv, WriterHolds
  <1> QED BY <1>5, <1>6 DEF ChInv

\* A writer that computed the next value of a channel holds updateMu until it
\* stored it, and value and version say what was stored; for any writers and values.
THEOREM ChannelInvariant == Channel!ChannelAssumption /\ Channel!Spec => []ChInv
  <1> SUFFICES ASSUME Channel!ChannelAssumption PROVE Channel!Spec => []ChInv
    OBVIOUS
  <1>1. Channel!Init => ChInv
    BY DEF Channel!Init, Channel!Rest, Channel!ChannelAssumption, ChInv, ChannelTyped, ValueHolds, WriterHolds, WriterRec
  <1>2. ASSUME ChInv, [Channel!Next]_Channel!vars PROVE ChInv'
    <2>1. CASE UNCHANGED Channel!vars
      BY <2>1, <1>2 DEF Channel!vars, ChInv, ChannelTyped, ValueHolds, WriterHolds
    <2>2. CASE Channel!Next
      BY <2>2, <1>2, ChannelComputeKeeps, ChannelStoreKeeps, ChannelResetKeeps, ChannelCallingKeeps DEF Channel!Next
    <2> QED BY <1>2, <2>1, <2>2
  <1> QED BY <1>1, <1>2, PTL DEF Channel!Spec

\* No update of an aggregate is overwritten by another that read the same
\* value, and the version counts exactly what a reader can notice.
THEOREM ChannelLosesNothing ==
    Channel!ChannelAssumption /\ Channel!Spec => [](Channel!AggregateKeepsAll /\ Channel!VersionCountsChanges)
  <1>1. ChInv => Channel!AggregateKeepsAll /\ Channel!VersionCountsChanges
    BY DEF ChInv, ValueHolds, Channel!AggregateKeepsAll, Channel!VersionCountsChanges
  <1> QED BY <1>1, ChannelInvariant, PTL

-----------------------------------------------------------------------------
(* The managed MCP servers of a run.                                       *)

CONSTANTS Server, MaxWorker, ServerOps
VARIABLES run, plug, mcpGate, act, srv, worker, quiet, mcpFaults

Mcp == INSTANCE ManagedMcp WITH Ops <- ServerOps, gate <- mcpGate, faults <- mcpFaults

McpWaits    == {"idle", "gate"}
CallStep == {"asking", "input", "output", "failing", "failing one", "connecting", "opening", "listing", "noting",
             "using", "unopened", "unlisted"}
StopStep == {"stopping", "closing"}
ActRec   == [pc : McpWaits \cup CallStep \cup StopStep, op : {"", "list", "search", "call"}, run : Nat,
             s : Server \cup {Nobody}, w : Nat, todo : SUBSET Server, err : BOOLEAN]
WorkerRec == [s : Server, run : Nat, proc : {"up", "going", "gone", "stuck"}, owned : BOOLEAN, unheard : BOOLEAN]
PlugRec  == [run : Nat, live : BOOLEAN, closed : BOOLEAN, spoilt : BOOLEAN, failed : BOOLEAN]
SrvRec   == [worker : Nat, failed : BOOLEAN]

McpTyped ==
    /\ run \in [n : Nat, on : BOOLEAN] /\ plug \in PlugRec
    /\ mcpGate \in Mcp!Actor \cup {Nobody}
    /\ act \in [Mcp!Actor -> ActRec]
    /\ srv \in [Server -> SrvRec]
    /\ worker \in Seq(WorkerRec)
    /\ quiet \in BOOLEAN

RunHolds ==
    /\ plug.run \in {0, run.n}
    /\ run.on => run.n # 0 /\ act["end"].pc = "idle"
    /\ act["close"].pc # "idle" => plug.closed

\* Who has the gate is past it, and the step says what it may rely on: a worker
\* that is opening is not yet the server's, one that is listed or closed still is.
\* A stopper is in error if a server it is through with still has a worker.
ActHolds(k) ==
    /\ mcpGate = k <=> act[k].pc \notin McpWaits
    /\ act[k].w \in 0 .. Len(worker)
    /\ k \in Caller => /\ act[k].pc \in McpWaits \cup CallStep
                       /\ act[k].pc # "idle" => act[k].run # 0 /\ act[k].s \in Server
                       /\ act[k].pc \in CallStep => plug.run = act[k].run
    /\ k \in Mcp!Stopper => act[k].pc \in McpWaits \cup StopStep /\ (act[k].pc = "gate" => ~act[k].err)
    /\ act[k].pc \in {"opening", "unopened"} =>
         /\ act[k].w # 0 /\ srv[act[k].s].worker = 0
         /\ LET r == worker[act[k].w] IN r.s = act[k].s /\ r.run = plug.run /\ ~r.owned
    /\ act[k].pc \in {"listing", "unlisted", "closing", "failing one"} =>
         act[k].s \in Server /\ act[k].w # 0 /\ srv[act[k].s].worker = act[k].w
    /\ act[k].pc = "stopping" => \A s \in Server \ act[k].todo : srv[s].worker # 0 => act[k].err
    /\ act[k].pc = "closing" => \A s \in Server \ (act[k].todo \cup {act[k].s}) : srv[s].worker # 0 => act[k].err

SrvHolds(s) ==
    srv[s].worker # 0 => /\ srv[s].worker \in DOMAIN worker
                         /\ worker[srv[s].worker].s = s /\ worker[srv[s].worker].owned

\* Every worker of this run is the server's, or about to be, or the server failed,
\* which is why there is no second one. While a stopper has the gate no call looks.
OpeningOf(w) == \E c \in Caller : act[c].pc \in {"opening", "unopened"} /\ act[c].w = w
WorkerHolds(w) ==
    /\ worker[w].run # 0 /\ worker[w].run <= run.n
    /\ Mcp!Left(w) => srv[worker[w].s].worker = w /\ (plug.run # 0 => worker[w].run = plug.run)
    /\ worker[w].owned /\ worker[w].unheard => srv[worker[w].s].worker = w \/ plug.spoilt
    /\ worker[w].run = plug.run /\ mcpGate \notin Mcp!Stopper =>
         srv[worker[w].s].worker = w \/ srv[worker[w].s].failed \/ OpeningOf(w)

QuietHolds ==
    quiet => /\ plug.closed /\ \A s \in Server : srv[s].worker = 0
             /\ \A c \in Caller : act[c].pc \in McpWaits
             /\ \A w \in DOMAIN worker : ~(worker[w].owned /\ worker[w].unheard)

McpInv == /\ McpTyped /\ RunHolds /\ QuietHolds /\ Mcp!NoReconnect
          /\ \A k \in Mcp!Actor : ActHolds(k)
          /\ \A s \in Server : SrvHolds(s)
          /\ \A w \in DOMAIN worker : WorkerHolds(w)
LEMMA McpFacts ==
  ASSUME McpInv
  PROVE  /\ worker \in Seq(WorkerRec) /\ Len(worker) \in Nat /\ DOMAIN worker = 1 .. Len(worker)
         /\ worker \in [1 .. Len(worker) -> WorkerRec]
         /\ \A w \in DOMAIN worker : worker[w] \in WorkerRec
         /\ \A k \in Mcp!Actor : act[k] \in ActRec
         /\ \A s \in Server : srv[s] \in SrvRec
  BY DEF McpInv, McpTyped

LEMMA ActorsAre ==
  ASSUME Mcp!McpAssumption
  PROVE  /\ "end" \in Mcp!Actor /\ "close" \in Mcp!Actor /\ "end" \in Mcp!Stopper /\ "close" \in Mcp!Stopper
         /\ \A c \in Caller : c \in Mcp!Actor /\ c \notin Mcp!Stopper
         /\ \A k \in Mcp!Actor : k # Nobody /\ (k \in Mcp!Stopper \/ k \in Caller)
         /\ \A k \in Mcp!Stopper : k \in Mcp!Actor /\ k \notin Caller
  BY DEF Mcp!McpAssumption, Mcp!Actor, Mcp!Stopper

\* Workers go on: none is born, nobody takes one over, and none says anything
\* after it has gone.
WorkersEvolve ==
    /\ worker' \in Seq(WorkerRec) /\ Len(worker') = Len(worker)
    /\ \A w \in DOMAIN worker :
         /\ worker'[w].s = worker[w].s /\ worker'[w].run = worker[w].run /\ worker'[w].owned = worker[w].owned
         /\ worker'[w].proc # "gone" => worker[w].proc # "gone"
         /\ worker'[w].unheard => worker[w].unheard \/ worker[w].proc # "gone"

LEMMA WorkersStay == ASSUME McpInv, worker' = worker PROVE WorkersEvolve
  BY McpFacts DEF WorkersEvolve

\* An actor that does nothing while workers go on and servers keep theirs.
LEMMA ActorKeeps ==
  ASSUME McpInv, NEW j \in Mcp!Actor, act'[j] = act[j], mcpGate' = j <=> mcpGate = j, plug'.run = plug.run, WorkersEvolve,
         \A s \in Server : srv'[s].worker = srv[s].worker
  PROVE  ActHolds(j)'
  <1>1. ActHolds(j)
    BY DEF McpInv
  <1>2. Len(worker') = Len(worker) /\ DOMAIN worker = 1 .. Len(worker) /\ Len(worker) \in Nat
    BY McpFacts DEF WorkersEvolve
  <1>3. CASE act[j].pc \in {"opening", "unopened"}
    <2>1. act[j].w \in DOMAIN worker /\ j \in Caller /\ act[j].s \in Server
      <3>1. act[j].w \in DOMAIN worker
        <4>1. act[j].w \in 0 .. Len(worker) /\ act[j].w # 0
          BY <1>1, <1>3 DEF ActHolds
        <4> QED BY <4>1, <1>2
      <3>2. j \notin Mcp!Stopper
        BY <1>1, <1>3 DEF ActHolds, McpWaits, StopStep
      <3>3. j \in Caller /\ act[j].pc # "idle"
        BY <3>2, <1>3 DEF Mcp!Actor
      <3> QED BY <3>1, <3>3, <1>1 DEF ActHolds
    <2>2. worker'[act[j].w].s = worker[act[j].w].s /\ worker'[act[j].w].run = worker[act[j].w].run
          /\ worker'[act[j].w].owned = worker[act[j].w].owned
      BY <2>1 DEF WorkersEvolve
    <2> QED BY <1>1, <1>2, <1>3, <2>1, <2>2 DEF ActHolds
  <1>4. CASE act[j].pc \notin {"opening", "unopened"}
    BY <1>1, <1>2, <1>4 DEF ActHolds
  <1> QED BY <1>3, <1>4

\* What one actor does that opens no worker and gives none up.
LEMMA MovesKeep ==
  ASSUME Mcp!McpAssumption, McpInv, NEW k \in Mcp!Actor, NEW r \in ActRec,
         run' \in [n : Nat, on : BOOLEAN], run'.n = run.n, run'.on => run.on, quiet' = quiet,
         plug' \in PlugRec, plug'.run = plug.run, plug.closed => plug'.closed, plug'.spoilt = plug.spoilt,
         act' = [act EXCEPT ![k] = r],
         mcpGate' = mcpGate \/ (mcpGate' = k /\ mcpGate = Nobody) \/ (mcpGate' = Nobody /\ mcpGate = k),
         mcpGate \in Mcp!Stopper => mcpGate' = mcpGate,
         srv' \in [Server -> SrvRec],
         \A s \in Server : srv'[s].worker = srv[s].worker /\ (srv[s].failed => srv'[s].failed \/ mcpGate' \in Mcp!Stopper),
         WorkersEvolve, ActHolds(k)',
         k = "end" /\ run'.on => r.pc = "idle", k = "close" /\ r.pc # "idle" => plug'.closed,
         quiet /\ k \in Caller => r.pc \in McpWaits,
         act[k].pc \in {"opening", "unopened"} =>
            (r.pc \in {"opening", "unopened"} /\ r.w = act[k].w) \/ srv'[act[k].s].failed
  PROVE  McpInv'
  <1>1. /\ act' \in [Mcp!Actor -> ActRec] /\ act'[k] = r /\ \A j \in Mcp!Actor \ {k} : act'[j] = act[j]
    BY DEF McpInv, McpTyped
  <1>2. mcpGate' \in Mcp!Actor \cup {Nobody}
    BY DEF McpInv, McpTyped
  <1>3. McpTyped'
    BY <1>1, <1>2 DEF McpInv, McpTyped, WorkersEvolve
  <1>4. RunHolds'
    BY <1>1, ActorsAre DEF McpInv, RunHolds
  <1>5. \A j \in Mcp!Actor : ActHolds(j)'
    <2> SUFFICES ASSUME NEW j \in Mcp!Actor, j # k PROVE ActHolds(j)'
      OBVIOUS
    <2>1. act'[j] = act[j] /\ j # Nobody /\ k # Nobody
      BY <1>1, ActorsAre
    <2> QED BY <2>1, ActorKeeps
  <1>6. DOMAIN worker' = DOMAIN worker /\ DOMAIN worker = 1 .. Len(worker)
    BY McpFacts DEF WorkersEvolve
  <1>7. ASSUME NEW s \in Server PROVE SrvHolds(s)'
    <2>1. SrvHolds(s) /\ srv'[s].worker = srv[s].worker
      BY DEF McpInv
    <2> QED BY <2>1, <1>6 DEF SrvHolds, WorkersEvolve
  <1>8. ASSUME NEW w \in DOMAIN worker PROVE WorkerHolds(w)'
    <2>1. /\ WorkerHolds(w) /\ worker[w] \in WorkerRec /\ worker[w].s \in Server
          /\ worker'[w].s = worker[w].s /\ worker'[w].run = worker[w].run /\ worker'[w].owned = worker[w].owned
          /\ worker'[w].proc # "gone" => worker[w].proc # "gone"
          /\ worker'[w].unheard => worker[w].unheard \/ worker[w].proc # "gone"
      BY McpFacts DEF McpInv, WorkersEvolve, WorkerRec
    <2>2. srv'[worker[w].s].worker = srv[worker[w].s].worker
      BY <2>1
    <2>3. Mcp!Left(w)' => srv'[worker'[w].s].worker = w /\ (plug'.run # 0 => worker'[w].run = plug'.run)
      BY <2>1, <2>2 DEF WorkerHolds, Mcp!Left
    <2>4. worker'[w].owned /\ worker'[w].unheard => srv'[worker'[w].s].worker = w \/ plug'.spoilt
      BY <2>1, <2>2 DEF WorkerHolds, Mcp!Left
    <2>5. ASSUME worker'[w].run = plug'.run, mcpGate' \notin Mcp!Stopper, srv'[worker'[w].s].worker # w, ~srv'[worker'[w].s].failed
          PROVE  OpeningOf(w)'
      <3>1. mcpGate \notin Mcp!Stopper /\ worker[w].run = plug.run /\ srv[worker[w].s].worker # w /\ ~srv[worker[w].s].failed
        BY <2>1, <2>2, <2>5
      <3>2. PICK c \in Caller : act[c].pc \in {"opening", "unopened"} /\ act[c].w = w
        BY <2>1, <3>1 DEF WorkerHolds, OpeningOf
      <3>3. c \in Mcp!Actor
        BY ActorsAre
      <3>4. CASE c # k
        BY <3>2, <3>3, <3>4, <1>1 DEF OpeningOf
      <3>5. CASE c = k
        <4>1. worker[w].s = act[k].s
          BY <3>2, <3>5 DEF McpInv, ActHolds
        <4>2. r.pc \in {"opening", "unopened"} /\ r.w = act[k].w
          BY <4>1, <3>2, <3>5, <2>1, <2>5
        <4> QED BY <4>2, <3>2, <3>5, <1>1 DEF OpeningOf
      <3> QED BY <3>4, <3>5
    <2>6. worker'[w].run # 0 /\ worker'[w].run <= run'.n
      BY <2>1 DEF WorkerHolds
    <2> QED BY <2>3, <2>4, <2>5, <2>6 DEF WorkerHolds
  <1>9. Mcp!NoReconnect'
    BY <1>6 DEF McpInv, Mcp!NoReconnect, WorkersEvolve
  <1>10. QuietHolds'
    <2> SUFFICES ASSUME quiet PROVE /\ plug'.closed /\ \A s \in Server : srv'[s].worker = 0
                                    /\ \A c \in Caller : act'[c].pc \in McpWaits
                                    /\ \A w \in DOMAIN worker : ~(worker'[w].owned /\ worker'[w].unheard)
      BY <1>6 DEF QuietHolds
    <2>1. /\ plug.closed /\ \A s \in Server : srv[s].worker = 0
          /\ \A c \in Caller : act[c].pc \in McpWaits
          /\ \A w \in DOMAIN worker : ~(worker[w].owned /\ worker[w].unheard)
      BY DEF McpInv, QuietHolds
    <2>2. \A c \in Caller : act'[c].pc \in McpWaits
      BY <1>1, <2>1, ActorsAre
    <2>3. ASSUME NEW w \in DOMAIN worker, worker'[w].owned, worker'[w].unheard PROVE FALSE
      <3>1. Mcp!Left(w)
        BY <2>1, <2>3 DEF WorkersEvolve, Mcp!Left
      <3>2. worker[w].s \in Server /\ srv[worker[w].s].worker = w
        BY <3>1, McpFacts DEF McpInv, WorkerHolds, WorkerRec
      <3> QED BY <3>2, <2>1, McpFacts
    <2> QED BY <2>1, <2>2, <2>3
  <1> QED BY <1>3, <1>4, <1>5, <1>6, <1>7, <1>8, <1>9, <1>10 DEF McpInv

\* Of one actor, nothing else.
LEMMA StepsKeep ==
  ASSUME Mcp!McpAssumption, McpInv, NEW k \in Mcp!Actor, NEW r \in ActRec,
         act' = [act EXCEPT ![k] = r], UNCHANGED <<run, srv, worker, quiet>>,
         plug' \in PlugRec, plug'.run = plug.run, plug'.closed = plug.closed, plug'.spoilt = plug.spoilt,
         mcpGate' = mcpGate \/ (mcpGate' = k /\ mcpGate = Nobody) \/ (mcpGate' = Nobody /\ mcpGate = k),
         mcpGate \in Mcp!Stopper => mcpGate' = mcpGate,
         ActHolds(k)', k = "end" => r.pc = "idle" \/ act[k].pc # "idle", k = "close" => r.pc = "idle" \/ act[k].pc # "idle",
         quiet /\ k \in Caller => r.pc \in McpWaits, act[k].pc \notin {"opening", "unopened"}
  PROVE  McpInv'
  <1>1. /\ run' \in [n : Nat, on : BOOLEAN] /\ srv' \in [Server -> SrvRec] /\ WorkersEvolve
    BY WorkersStay DEF McpInv, McpTyped
  <1>2. k = "end" /\ run'.on => r.pc = "idle"
    BY DEF McpInv, RunHolds
  <1>3. k = "close" /\ r.pc # "idle" => plug'.closed
    BY DEF McpInv, RunHolds
  <1> QED BY <1>1, <1>2, <1>3, MovesKeep

LEMMA SameActor ==
  ASSUME McpInv, act' = act PROVE act["end"] \in ActRec /\ act' = [act EXCEPT !["end"] = act["end"]]
  BY DEF McpInv, McpTyped, Mcp!Actor, Mcp!Stopper

\* Nobody does anything but workers, or the kernel that cancels a run.
LEMMA NoActorKeeps ==
  ASSUME Mcp!McpAssumption, McpInv, UNCHANGED <<mcpGate, act, srv, quiet>>, WorkersEvolve,
         run' \in [n : Nat, on : BOOLEAN], run'.n = run.n, run'.on => run.on,
         plug' \in PlugRec, plug'.run = plug.run, plug'.closed = plug.closed, plug'.spoilt = plug.spoilt
  PROVE  McpInv'
  <1>1. "end" \in Mcp!Actor /\ "end" \notin Caller
    BY ActorsAre
  <1>2. ActHolds("end")'
    BY <1>1, ActorKeeps
  <1>3. act["end"] \in ActRec /\ act' = [act EXCEPT !["end"] = act["end"]]
    BY SameActor
  <1>4. srv' \in [Server -> SrvRec]
    BY DEF McpInv, McpTyped
  <1>5. act["end"].pc \notin {"opening", "unopened"}
    BY <1>1, ActorsAre DEF McpInv, ActHolds, McpWaits, StopStep
  <1>6. run'.on => act["end"].pc = "idle"
    BY DEF McpInv, RunHolds
  <1> QED BY <1>1, <1>2, <1>3, <1>4, <1>5, <1>6, MovesKeep

\* What the journal does to the plugin.
LEMMA McpJournal ==
  ASSUME McpInv, Mcp!Appended \/ Mcp!AppendFails
  PROVE  plug' \in PlugRec /\ plug'.run = plug.run /\ plug'.closed = plug.closed /\ plug'.spoilt = plug.spoilt
  BY DEF McpInv, McpTyped, PlugRec, Mcp!Appended, Mcp!AppendFails

LEMMA DownWorkerEvolves ==
  ASSUME McpInv, NEW w \in Nat, worker' = Mcp!Down(w)
  PROVE  WorkersEvolve
  <1>1. /\ worker \in [1 .. Len(worker) -> WorkerRec] /\ DOMAIN worker = 1 .. Len(worker) /\ Len(worker) \in Nat
        /\ worker \in Seq(WorkerRec)
    BY McpFacts
  <1>2. CASE w \in DOMAIN worker
    <2>1. PICK q : q = [worker[w] EXCEPT !.proc = IF worker[w].proc = "up" THEN "going" ELSE worker[w].proc]
      OBVIOUS
    <2>2. worker[w] \in WorkerRec
      BY <1>1, <1>2
    <2>3. /\ q \in WorkerRec /\ q.s = worker[w].s /\ q.run = worker[w].run /\ q.owned = worker[w].owned
          /\ q.unheard = worker[w].unheard /\ (q.proc # "gone" => worker[w].proc # "gone")
      BY <2>1, <2>2 DEF WorkerRec
    <2>4. worker' = [worker EXCEPT ![w] = q]
      BY <2>1 DEF Mcp!Down
    <2>5. worker' \in Seq(WorkerRec) /\ Len(worker') = Len(worker)
      BY <2>3, <2>4, <1>1, <1>2
    <2>6. \A v \in DOMAIN worker : worker'[v] = IF v = w THEN q ELSE worker[v]
      BY <2>4, <1>1
    <2> QED BY <2>3, <2>5, <2>6 DEF WorkersEvolve
  <1>3. CASE w \notin DOMAIN worker
    <2>1. worker' = worker
      BY <1>1, <1>3 DEF Mcp!Down
    <2> QED BY <2>1, WorkersStay
  <1> QED BY <1>2, <1>3

LEMMA WorkersKeep ==
  ASSUME Mcp!McpAssumption, McpInv, NEW w \in DOMAIN worker, NEW b \in BOOLEAN, Mcp!Drop(w) \/ Mcp!Exit(w, b) \/ Mcp!Unheard(w)
  PROVE  McpInv'
  <1>1. /\ worker \in [1 .. Len(worker) -> WorkerRec] /\ DOMAIN worker = 1 .. Len(worker) /\ Len(worker) \in Nat
        /\ worker \in Seq(WorkerRec) /\ worker[w] \in WorkerRec /\ w \in Nat
        /\ run \in [n : Nat, on : BOOLEAN] /\ plug \in PlugRec
    BY McpFacts DEF McpInv, McpTyped
  <1>2. CASE Mcp!Drop(w)
    <2>1. WorkersEvolve /\ UNCHANGED <<run, plug, mcpGate, act, srv, quiet>>
      BY <1>2, <1>1, DownWorkerEvolves DEF Mcp!Drop
    <2> QED BY <2>1, <1>1, NoActorKeeps
  <1>3. CASE Mcp!Exit(w, b)
    <2>1. PICK q : q = [worker[w] EXCEPT !.proc = IF b THEN "stuck" ELSE "gone"]
      OBVIOUS
    <2>2. UNCHANGED <<run, plug, mcpGate, act, srv, quiet>> /\ worker' = [worker EXCEPT ![w] = q] /\ worker[w].proc = "going"
      BY <2>1, <1>3 DEF Mcp!Exit
    <2>3. /\ q \in WorkerRec /\ q.s = worker[w].s /\ q.run = worker[w].run /\ q.owned = worker[w].owned
          /\ q.unheard = worker[w].unheard
      BY <2>1, <1>1 DEF WorkerRec
    <2>4. worker' \in Seq(WorkerRec) /\ Len(worker') = Len(worker) /\ \A v \in DOMAIN worker : worker'[v] = IF v = w THEN q ELSE worker[v]
      BY <2>2, <2>3, <1>1
    <2>5. WorkersEvolve
      BY <2>2, <2>3, <2>4 DEF WorkersEvolve
    <2> QED BY <2>2, <2>5, <1>1, NoActorKeeps
  <1>4. CASE Mcp!Unheard(w)
    <2>1. PICK q : q = [worker[w] EXCEPT !.proc = IF worker[w].proc = "up" THEN "going" ELSE worker[w].proc, !.unheard = TRUE]
      OBVIOUS
    <2>2. UNCHANGED <<run, mcpGate, act, srv, quiet>> /\ worker[w].proc # "gone" /\ Mcp!AppendFails
      BY <1>4 DEF Mcp!Unheard
    <2>3. worker' = [worker EXCEPT ![w] = q]
      <3>1. worker' = [[worker EXCEPT ![w].proc = IF @ = "up" THEN "going" ELSE @] EXCEPT ![w].unheard = TRUE]
        BY <1>4 DEF Mcp!Unheard, Mcp!Down
      <3>2. DOMAIN worker' = DOMAIN worker /\ worker'[w] = q /\ \A v \in DOMAIN worker \ {w} : worker'[v] = worker[v]
        BY <3>1, <2>1, <1>1 DEF WorkerRec
      <3>3. worker' = [v \in DOMAIN worker |-> worker'[v]]
        BY <3>1, <1>1
      <3> QED BY <3>2, <3>3, <1>1
    <2>4. /\ q \in WorkerRec /\ q.s = worker[w].s /\ q.run = worker[w].run /\ q.owned = worker[w].owned
          /\ (q.proc # "gone" => worker[w].proc # "gone")
      BY <2>1, <1>1 DEF WorkerRec
    <2>5. worker' \in Seq(WorkerRec) /\ Len(worker') = Len(worker) /\ \A v \in DOMAIN worker : worker'[v] = IF v = w THEN q ELSE worker[v]
      BY <2>3, <2>4, <1>1
    <2>6. WorkersEvolve
      BY <2>2, <2>4, <2>5 DEF WorkersEvolve
    <2> QED BY <2>2, <2>6, <1>1, McpJournal, NoActorKeeps
  <1> QED BY <1>2, <1>3, <1>4

\* A call with the gate that is not opening, closing or listing.
PlainStep == {"asking", "input", "output", "failing", "connecting", "using", "noting"}

LEMMA PlainCallHolds ==
  ASSUME Mcp!McpAssumption, NEW c \in Caller, act'[c].pc \in PlainStep, mcpGate' = c, act'[c].w \in 0 .. Len(worker'),
         act'[c].run # 0, act'[c].s \in Server, plug'.run = act'[c].run
  PROVE  ActHolds(c)'
  BY ActorsAre DEF PlainStep, ActHolds, McpWaits, CallStep

LEMMA RestingHolds ==
  ASSUME Mcp!McpAssumption, NEW k \in Mcp!Actor, act'[k].pc \in McpWaits, mcpGate' # k, act'[k].w \in 0 .. Len(worker'),
         k \in Caller /\ act'[k].pc = "gate" => act'[k].run # 0 /\ act'[k].s \in Server,
         k \in Mcp!Stopper /\ act'[k].pc = "gate" => ~act'[k].err
  PROVE  ActHolds(k)'
  BY ActorsAre DEF ActHolds, McpWaits, CallStep

\* What is known of a call with the gate.
LEMMA HasGate ==
  ASSUME Mcp!McpAssumption, McpInv, NEW c \in Caller, act[c].pc \notin McpWaits
  PROVE  /\ mcpGate = c /\ c \in Mcp!Actor /\ c \notin Mcp!Stopper /\ act[c] \in ActRec /\ act[c].pc \in CallStep
         /\ act[c].run # 0 /\ act[c].s \in Server /\ plug.run = act[c].run
         /\ act[c].w \in 0 .. Len(worker) /\ Len(worker) \in Nat /\ plug \in PlugRec
         /\ \A j \in Mcp!Actor \ {c} : act[j].pc \in McpWaits
  <1>1. c \in Mcp!Actor /\ c \notin Mcp!Stopper /\ ActHolds(c)
    BY ActorsAre DEF McpInv
  <1>2. mcpGate = c /\ act[c].pc \in CallStep
    BY <1>1 DEF ActHolds
  <1>3. \A j \in Mcp!Actor \ {c} : act[j].pc \in McpWaits
    BY <1>2 DEF McpInv, ActHolds
  <1> QED BY <1>1, <1>2, <1>3, McpFacts DEF ActHolds, McpInv, McpTyped, CallStep, McpWaits

\* A call goes on to another place of this kind.
LEMMA GoesKeeps ==
  ASSUME Mcp!McpAssumption, McpInv, NEW c \in Caller, NEW p \in PlainStep, NEW t \in SUBSET Server,
         act[c].pc \notin McpWaits \cup {"opening", "unopened"},
         act' = [act EXCEPT ![c] = [act[c] EXCEPT !.pc = p, !.todo = t]], UNCHANGED <<run, mcpGate, srv, worker, quiet>>,
         plug' \in PlugRec, plug'.run = plug.run, plug'.closed = plug.closed, plug'.spoilt = plug.spoilt
  PROVE  McpInv'
  <1>1. PICK r : r = [act[c] EXCEPT !.pc = p, !.todo = t]
    OBVIOUS
  <1>2. /\ mcpGate = c /\ c \in Mcp!Actor /\ c \notin Mcp!Stopper /\ act[c] \in ActRec /\ act[c].run # 0 /\ act[c].s \in Server
        /\ plug.run = act[c].run /\ act[c].w \in 0 .. Len(worker)
    BY HasGate
  <1>3. r \in ActRec /\ r.pc = p /\ r.w = act[c].w /\ r.run = act[c].run /\ r.s = act[c].s
    BY <1>1, <1>2 DEF ActRec, PlainStep, CallStep
  <1>4. act' = [act EXCEPT ![c] = r] /\ act'[c] = r
    BY <1>1, <1>2 DEF McpInv, McpTyped
  <1>5. ActHolds(c)'
    BY <1>2, <1>3, <1>4, PlainCallHolds
  <1>6. ~quiet
    BY <1>2 DEF McpInv, QuietHolds
  <1>7. c # "end" /\ c # "close"
    BY ActorsAre
  <1> QED BY <1>2, <1>3, <1>4, <1>5, <1>6, <1>7, StepsKeep

\* A call returns, with the gate or without it; a stopper gives up waiting for the gate.
LEMMA LeavesKeeps ==
  ASSUME Mcp!McpAssumption, McpInv, NEW k \in Mcp!Actor, act' = [act EXCEPT ![k] = Mcp!NoAct],
         mcpGate' = IF mcpGate = k THEN Nobody ELSE mcpGate, UNCHANGED <<run, srv, worker, quiet>>,
         act[k].pc \notin {"opening", "unopened"}, k \in Mcp!Stopper => act[k].pc \in McpWaits,
         plug' \in PlugRec, plug'.run = plug.run, plug'.closed = plug.closed, plug'.spoilt = plug.spoilt
  PROVE  McpInv'
  <1>1. Mcp!NoAct \in ActRec /\ Mcp!NoAct.pc = "idle" /\ Mcp!NoAct.w = 0
    BY DEF Mcp!NoAct, ActRec, McpWaits
  <1>2. act'[k] = Mcp!NoAct /\ mcpGate' # k /\ Len(worker) \in Nat
    BY McpFacts, ActorsAre DEF McpInv, McpTyped
  <1>3. ActHolds(k)'
    BY <1>1, <1>2, RestingHolds DEF McpWaits
  <1>4. mcpGate \in Mcp!Stopper => mcpGate' = mcpGate
    BY ActorsAre DEF McpInv, ActHolds
  <1>5. mcpGate' = mcpGate \/ (mcpGate' = Nobody /\ mcpGate = k)
    OBVIOUS
  <1>6. Mcp!NoAct.pc \in McpWaits
    BY <1>1 DEF McpWaits
  <1> QED BY <1>1, <1>3, <1>4, <1>5, <1>6, StepsKeep

LEMMA TakesGateKeeps ==
  ASSUME Mcp!McpAssumption, McpInv, NEW k \in Mcp!Actor, NEW r \in ActRec, act' = [act EXCEPT ![k] = r],
         mcpGate = Nobody, mcpGate' = k, act[k].pc = "gate", UNCHANGED <<run, plug, srv, worker, quiet>>,
         ActHolds(k)', quiet => k \notin Caller
  PROVE  McpInv'
  <1>1. mcpGate \notin Mcp!Stopper /\ plug \in PlugRec
    BY ActorsAre DEF McpInv, McpTyped
  <1> QED BY <1>1, StepsKeep

LEMMA GatesKeep ==
  ASSUME Mcp!McpAssumption, McpInv, NEW c \in Caller, Mcp!TakeGate(c) \/ Mcp!GiveUp(c) \/ Mcp!Authorized(c)
  PROVE  McpInv'
  <1>0. c \in Mcp!Actor /\ c \notin Mcp!Stopper /\ plug \in PlugRec /\ act[c] \in ActRec
    BY ActorsAre, McpFacts DEF McpInv, McpTyped
  <1>1. CASE Mcp!TakeGate(c) /\ Mcp!Bound(c)
    <2>1. PICK r : r = [act[c] EXCEPT !.pc = "asking"]
      OBVIOUS
    <2>2. /\ act[c].pc = "gate" /\ mcpGate = Nobody /\ mcpGate' = c /\ act' = [act EXCEPT ![c] = r]
          /\ UNCHANGED <<run, plug, srv, worker, quiet>> /\ ~plug.closed /\ plug.run = act[c].run
      BY <1>1, <2>1 DEF Mcp!TakeGate, Mcp!Goes, Mcp!Bound
    <2>3. r \in ActRec /\ r.pc = "asking" /\ r.w = act[c].w /\ r.run = act[c].run /\ r.s = act[c].s
      BY <2>1, <1>0 DEF ActRec, CallStep
    <2>4. act'[c] = r
      BY <2>2, <1>0 DEF McpInv, McpTyped
    <2>5. act[c].w \in 0 .. Len(worker) /\ act[c].run # 0 /\ act[c].s \in Server
      BY <2>2, <1>0 DEF McpInv, ActHolds
    <2>6. ActHolds(c)'
      BY <2>2, <2>3, <2>4, <2>5, PlainCallHolds DEF PlainStep
    <2>7. ~quiet
      BY <2>2 DEF McpInv, QuietHolds
    <2> QED BY <2>2, <2>3, <2>6, <2>7, <1>0, TakesGateKeeps
  <1>2. CASE (Mcp!TakeGate(c) /\ ~Mcp!Bound(c)) \/ Mcp!GiveUp(c)
    <2>1. /\ act' = [act EXCEPT ![c] = Mcp!NoAct] /\ mcpGate' = IF mcpGate = c THEN Nobody ELSE mcpGate
          /\ UNCHANGED <<run, plug, srv, worker, quiet>> /\ act[c].pc \in {"gate", "asking"}
      BY <1>2 DEF Mcp!TakeGate, Mcp!GiveUp, Mcp!Leaves
    <2> QED BY <2>1, <1>0, LeavesKeeps
  <1>3. CASE Mcp!Authorized(c)
    <2>1. act[c].pc = "asking" /\ UNCHANGED <<run, mcpGate, srv, worker, quiet, plug>>
      BY <1>3 DEF Mcp!Authorized
    <2>2. act' = [act EXCEPT ![c] = [act[c] EXCEPT !.pc = "input", !.todo = act[c].todo]] /\ act[c].todo \in SUBSET Server
      BY <1>3, <1>0 DEF Mcp!Authorized, Mcp!Goes, ActRec, McpInv, McpTyped
    <2> QED BY <2>1, <2>2, <1>0, GoesKeeps DEF PlainStep, McpWaits
  <1> QED BY <1>1, <1>2, <1>3

LEMMA Marked ==
  ASSUME McpInv, NEW s \in Server, NEW b \in BOOLEAN, srv' = [srv EXCEPT ![s].failed = b]
  PROVE  /\ srv' \in [Server -> SrvRec] /\ srv'[s].failed = b
         /\ \A t \in Server : srv'[t].worker = srv[t].worker /\ (t # s => srv'[t] = srv[t])
  <1>1. PICK q : q = [srv[s] EXCEPT !.failed = b]
    OBVIOUS
  <1>2. srv \in [Server -> SrvRec] /\ srv[s] \in SrvRec
    BY DEF McpInv, McpTyped
  <1>3. q \in SrvRec /\ q.worker = srv[s].worker /\ q.failed = b
    BY <1>1, <1>2 DEF SrvRec
  <1>4. srv' = [srv EXCEPT ![s] = q]
    BY <1>1
  <1> QED BY <1>2, <1>3, <1>4

\* A call with the gate goes on, while workers and servers may fail.
LEMMA FailsKeeps ==
  ASSUME Mcp!McpAssumption, McpInv, NEW c \in Caller, NEW r \in ActRec, r.pc \in PlainStep,
         r.w = act[c].w, r.run = act[c].run, r.s = act[c].s,
         act[c].pc \notin McpWaits, act' = [act EXCEPT ![c] = r], UNCHANGED <<run, mcpGate, quiet>>, WorkersEvolve,
         plug' \in PlugRec, plug'.run = plug.run, plug'.closed = plug.closed, plug'.spoilt = plug.spoilt,
         srv' \in [Server -> SrvRec],
         \A s \in Server : srv'[s].worker = srv[s].worker /\ (srv[s].failed => srv'[s].failed),
         act[c].pc \in {"opening", "unopened"} => srv'[act[c].s].failed
  PROVE  McpInv'
  <1>1. /\ mcpGate = c /\ c \in Mcp!Actor /\ c \notin Mcp!Stopper /\ act[c].run # 0 /\ act[c].s \in Server
        /\ plug.run = act[c].run /\ act[c].w \in 0 .. Len(worker)
    BY HasGate
  <1>2. act'[c] = r /\ Len(worker') = Len(worker)
    BY <1>1 DEF McpInv, McpTyped, WorkersEvolve
  <1>3. ActHolds(c)'
    BY <1>1, <1>2, PlainCallHolds
  <1>4. ~quiet /\ run' \in [n : Nat, on : BOOLEAN] /\ run'.n = run.n
    BY <1>1 DEF McpInv, QuietHolds, McpTyped
  <1>5. c # "end" /\ c # "close"
    BY ActorsAre
  <1> QED BY <1>1, <1>3, <1>4, <1>5, MovesKeep

LEMMA EntersKeep ==
  ASSUME Mcp!McpAssumption, McpInv, NEW c \in Caller, Mcp!Enter(c) \/ Mcp!EnterFails(c) \/ Mcp!Failed(c) \/ Mcp!IsConnected(c)
  PROVE  McpInv'
  <1>1. act[c].pc \in {"input", "output", "failing", "connecting"} /\ act[c] \in ActRec /\ act \in [Mcp!Actor -> ActRec] /\ c \in Mcp!Actor
    BY McpFacts, ActorsAre DEF Mcp!Enter, Mcp!EnterFails, Mcp!Failed, Mcp!IsConnected, McpInv, McpTyped
  <1>2. act[c].todo \in SUBSET Server /\ c \notin Mcp!Stopper /\ plug \in PlugRec
    BY <1>1, ActorsAre DEF ActRec, McpInv, McpTyped
  <1>3. CASE Mcp!Enter(c) /\ act[c].pc = "input"
    <2>1. PICK p \in {"output", "connecting"} : act' = [act EXCEPT ![c].pc = p]
      BY <1>3 DEF Mcp!Enter, Mcp!Goes
    <2>2. act' = [act EXCEPT ![c] = [act[c] EXCEPT !.pc = p, !.todo = act[c].todo]]
      BY <2>1, <1>1 DEF ActRec
    <2>3. UNCHANGED <<run, mcpGate, srv, worker, quiet>> /\ Mcp!Appended
      BY <1>3 DEF Mcp!Enter
    <2> QED BY <2>2, <2>3, <1>1, <1>2, <1>3, McpJournal, GoesKeeps DEF PlainStep, McpWaits
  <1>4. CASE (Mcp!Enter(c) /\ act[c].pc = "output") \/ Mcp!Failed(c)
    <2>1. /\ act' = [act EXCEPT ![c] = Mcp!NoAct] /\ mcpGate' = IF mcpGate = c THEN Nobody ELSE mcpGate
          /\ UNCHANGED <<run, srv, worker, quiet>> /\ (Mcp!Appended \/ plug' = plug)
      BY <1>4 DEF Mcp!Enter, Mcp!Failed, Mcp!Leaves
    <2>2. plug' \in PlugRec /\ plug'.run = plug.run /\ plug'.closed = plug.closed /\ plug'.spoilt = plug.spoilt
      BY <2>1, <1>2, McpJournal
    <2> QED BY <2>1, <2>2, <1>1, <1>2, LeavesKeeps
  <1>5. CASE Mcp!EnterFails(c)
    <2>1. act' = [act EXCEPT ![c] = [act[c] EXCEPT !.pc = "failing", !.todo = Server]]
      BY <1>5, <1>1 DEF Mcp!EnterFails, ActRec
    <2>2. UNCHANGED <<run, mcpGate, srv, worker, quiet>> /\ Mcp!AppendFails
      BY <1>5 DEF Mcp!EnterFails
    <2> QED BY <2>1, <2>2, <1>1, McpJournal, GoesKeeps DEF PlainStep, McpWaits
  <1>6. CASE Mcp!IsConnected(c)
    <2>1. act' = [act EXCEPT ![c] = [act[c] EXCEPT !.pc = "using", !.todo = act[c].todo]]
      BY <1>6, <1>1 DEF Mcp!IsConnected, Mcp!Goes, ActRec
    <2>2. UNCHANGED <<run, mcpGate, srv, worker, quiet, plug>>
      BY <1>6 DEF Mcp!IsConnected
    <2> QED BY <2>1, <2>2, <1>1, <1>2, GoesKeeps DEF PlainStep, McpWaits
  <1> QED BY <1>1, <1>3, <1>4, <1>5, <1>6 DEF Mcp!Enter

LEMMA RefusalsKeep ==
  ASSUME Mcp!McpAssumption, McpInv, NEW c \in Caller, NEW s \in Server, Mcp!FailIdle(c, s) \/ Mcp!Refused(c) \/ Mcp!Unopened(c)
  PROVE  McpInv'
  <1>1. act[c].pc \in {"failing", "connecting", "unopened"} /\ c \in Mcp!Actor /\ act[c] \in ActRec /\ act \in [Mcp!Actor -> ActRec]
    BY McpFacts, ActorsAre DEF Mcp!FailIdle, Mcp!Refused, Mcp!Unopened, McpInv, McpTyped
  <1>2. act[c].s \in Server /\ plug \in PlugRec /\ act[c].todo \in SUBSET Server
    BY <1>1, HasGate DEF McpWaits, ActRec
  <1>3. PICK p \in {"failing", "output", "noting"}, t \in SUBSET Server, s1 \in Server :
          /\ act' = [act EXCEPT ![c] = [act[c] EXCEPT !.pc = p, !.todo = t]] /\ srv' = [srv EXCEPT ![s1].failed = TRUE]
          /\ act[c].pc = "unopened" => s1 = act[c].s
    <2>1. CASE Mcp!FailIdle(c, s)
      <3>1. act' = [act EXCEPT ![c] = [act[c] EXCEPT !.pc = "failing", !.todo = act[c].todo \ {s}]]
        BY <2>1, <1>1 DEF Mcp!FailIdle, ActRec
      <3> QED BY <3>1, <2>1, <1>2 DEF Mcp!FailIdle
    <2>2. CASE Mcp!Refused(c)
      <3>1. act' = [act EXCEPT ![c] = [act[c] EXCEPT !.pc = "output", !.todo = act[c].todo]]
        BY <2>2, <1>1 DEF Mcp!Refused, Mcp!Goes, ActRec
      <3> QED BY <3>1, <2>2, <1>2 DEF Mcp!Refused
    <2>3. CASE Mcp!Unopened(c)
      <3>1. act' = [act EXCEPT ![c] = [act[c] EXCEPT !.pc = "noting", !.todo = act[c].todo]]
        BY <2>3, <1>1 DEF Mcp!Unopened, Mcp!Goes, ActRec
      <3> QED BY <3>1, <2>3, <1>2 DEF Mcp!Unopened
    <2> QED BY <2>1, <2>2, <2>3
  <1>4. UNCHANGED <<run, plug, mcpGate, worker, quiet>>
    BY DEF Mcp!FailIdle, Mcp!Refused, Mcp!Unopened
  <1>5. PICK r : r = [act[c] EXCEPT !.pc = p, !.todo = t]
    OBVIOUS
  <1>6. r \in ActRec /\ r.pc = p /\ r.w = act[c].w /\ r.run = act[c].run /\ r.s = act[c].s
    BY <1>5, <1>1 DEF ActRec, CallStep
  <1>7. /\ srv' \in [Server -> SrvRec] /\ srv'[s1].failed
        /\ \A x \in Server : srv'[x].worker = srv[x].worker /\ (srv[x].failed => srv'[x].failed)
    BY <1>3, Marked
  <1>8. act[c].pc \notin McpWaits /\ act[c].pc # "opening" /\ r.pc \in PlainStep /\ WorkersEvolve
    BY <1>1, <1>4, <1>6, WorkersStay DEF McpWaits, PlainStep
  <1> QED BY <1>2, <1>3, <1>4, <1>5, <1>6, <1>7, <1>8, FailsKeeps

LEMMA UsesKeep ==
  ASSUME Mcp!McpAssumption, McpInv, NEW c \in Caller, NEW b \in BOOLEAN, Mcp!Noted(c, b) \/ Mcp!Use(c, b) \/ Mcp!Listed(c)
  PROVE  McpInv'
  <1>1. act[c].pc \in {"noting", "using", "listing"} /\ c \in Mcp!Actor /\ act[c] \in ActRec /\ act \in [Mcp!Actor -> ActRec]
    BY McpFacts, ActorsAre DEF Mcp!Noted, Mcp!Use, Mcp!Listed, McpInv, McpTyped
  <1>2. act[c].s \in Server /\ plug \in PlugRec /\ act[c].todo \in SUBSET Server /\ srv \in [Server -> SrvRec]
    BY <1>1, HasGate DEF McpWaits, ActRec, McpInv, McpTyped
  <1>3. PICK p \in {"output", "using", "noting"} : act' = [act EXCEPT ![c].pc = p]
    BY DEF Mcp!Noted, Mcp!Use, Mcp!Listed, Mcp!Goes
  <1>4. PICK r : r = [act[c] EXCEPT !.pc = p]
    OBVIOUS
  <1>5. r \in ActRec /\ r.pc = p /\ r.w = act[c].w /\ r.run = act[c].run /\ r.s = act[c].s /\ act' = [act EXCEPT ![c] = r]
    BY <1>1, <1>3, <1>4 DEF ActRec, CallStep
  <1>6. UNCHANGED <<run, mcpGate, quiet>> /\ (plug' = plug \/ Mcp!Appended \/ Mcp!AppendFails)
    BY DEF Mcp!Noted, Mcp!Use, Mcp!Listed
  <1>7. plug' \in PlugRec /\ plug'.run = plug.run /\ plug'.closed = plug.closed /\ plug'.spoilt = plug.spoilt
    BY <1>2, <1>6, McpJournal
  <1>8. WorkersEvolve /\ srv' \in [Server -> SrvRec]
        /\ \A s \in Server : srv'[s].worker = srv[s].worker /\ (srv[s].failed => srv'[s].failed)
    <2>1. CASE UNCHANGED <<srv, worker>>
      BY <2>1, <1>2, WorkersStay
    <2>2. CASE Mcp!Use(c, b) /\ b
      <3>1. srv' = [srv EXCEPT ![act[c].s].failed = TRUE] /\ worker' = Mcp!Down(srv[act[c].s].worker)
        BY <2>2 DEF Mcp!Use
      <3>2. srv[act[c].s].worker \in Nat
        BY <1>2 DEF SrvRec
      <3> QED BY <3>1, <3>2, <1>2, Marked, DownWorkerEvolves
    <2> QED BY <2>1, <2>2 DEF Mcp!Noted, Mcp!Use, Mcp!Listed
  <1>9. act[c].pc \notin McpWaits \cup {"opening", "unopened"} /\ r.pc \in PlainStep
    BY <1>1, <1>5 DEF McpWaits, PlainStep
  <1> QED BY <1>5, <1>6, <1>7, <1>8, <1>9, FailsKeeps

LEMMA OpenFailsKeeps ==
  ASSUME Mcp!McpAssumption, McpInv, NEW c \in Caller, Mcp!OpenFails(c)
  PROVE  McpInv'
  <1>1. /\ act[c].pc \in {"opening", "listing"} /\ act[c] \in ActRec /\ c \in Mcp!Actor /\ c \notin Mcp!Stopper /\ mcpGate = c
        /\ act[c].w \in 0 .. Len(worker) /\ Len(worker) \in Nat /\ plug \in PlugRec /\ srv \in [Server -> SrvRec]
    BY HasGate, McpFacts DEF Mcp!OpenFails, McpWaits, McpInv, McpTyped
  <1>2. PICK p : p = IF act[c].pc = "opening" THEN "unopened" ELSE "unlisted"
    OBVIOUS
  <1>3. PICK r : r = [act[c] EXCEPT !.pc = p]
    OBVIOUS
  <1>4. /\ act' = [act EXCEPT ![c] = r] /\ UNCHANGED <<run, plug, mcpGate, srv, quiet>> /\ worker' = Mcp!Down(act[c].w)
    BY <1>2, <1>3 DEF Mcp!OpenFails, Mcp!Goes
  <1>5. r \in ActRec /\ r.pc = p /\ r.w = act[c].w /\ r.run = act[c].run /\ r.s = act[c].s
    BY <1>1, <1>2, <1>3 DEF ActRec, CallStep
  <1>6. WorkersEvolve /\ act'[c] = r
    BY <1>1, <1>4, DownWorkerEvolves DEF McpInv, McpTyped
  <1>7. ActHolds(c)'
    <2>1. ActHolds(c) /\ Len(worker') = Len(worker) /\ DOMAIN worker = 1 .. Len(worker)
      BY <1>1, <1>6, McpFacts DEF McpInv, WorkersEvolve
    <2>2. CASE act[c].pc = "opening"
      <3>1. act[c].w # 0
        BY <2>1, <2>2 DEF ActHolds
      <3>2. act[c].w \in DOMAIN worker
        BY <3>1, <2>1, <1>1
      <3>3. /\ worker'[act[c].w].s = worker[act[c].w].s /\ worker'[act[c].w].run = worker[act[c].w].run
            /\ worker'[act[c].w].owned = worker[act[c].w].owned
        BY <3>2, <1>6 DEF WorkersEvolve
      <3> QED BY <2>1, <2>2, <3>1, <3>3, <1>1, <1>2, <1>4, <1>5, <1>6 DEF ActHolds, McpWaits, CallStep
    <2>3. CASE act[c].pc = "listing"
      BY <2>1, <2>3, <1>1, <1>2, <1>4, <1>5, <1>6 DEF ActHolds, McpWaits, CallStep
    <2> QED BY <2>2, <2>3, <1>1
  <1>8. /\ c # "end" /\ c # "close" /\ run' \in [n : Nat, on : BOOLEAN] /\ run'.n = run.n
        /\ quiet => act[c].pc \in McpWaits
    BY <1>4, ActorsAre DEF McpInv, McpTyped, QuietHolds
  <1>9. ~quiet
    BY <1>1, <1>8 DEF McpWaits
  <1>10. act[c].pc \in {"opening", "unopened"} => r.pc \in {"opening", "unopened"} /\ r.w = act[c].w
    BY <1>1, <1>2, <1>5
  <1> QED BY <1>1, <1>4, <1>5, <1>6, <1>7, <1>8, <1>9, <1>10, MovesKeep

\* A call begins before the gate.
LEMMA ServerCallKeeps ==
  ASSUME Mcp!McpAssumption, McpInv, NEW c \in Caller, NEW op \in {"list", "search", "call"}, NEW s \in Server, Mcp!Call(c, op, s)
  PROVE  McpInv'
  <1>1. PICK r : r = [Mcp!NoAct EXCEPT !.pc = "gate", !.op = op, !.run = run.n, !.s = s]
    OBVIOUS
  <1>2. /\ act' = [act EXCEPT ![c] = r] /\ act[c].pc = "idle" /\ run.on /\ ~plug.closed
        /\ UNCHANGED <<run, plug, mcpGate, srv, worker, quiet>>
    BY <1>1 DEF Mcp!Call
  <1>3. c \in Mcp!Actor /\ c \notin Mcp!Stopper /\ c # "end" /\ c # "close" /\ plug \in PlugRec /\ run.n \in Nat /\ Len(worker) \in Nat
        /\ act \in [Mcp!Actor -> ActRec]
    BY ActorsAre, McpFacts DEF McpInv, McpTyped
  <1>4. r \in ActRec /\ r.pc = "gate" /\ r.run = run.n /\ r.s = s /\ r.w = 0
    BY <1>1, <1>3 DEF ActRec, Mcp!NoAct, McpWaits
  <1>5. act'[c] = r /\ run.n # 0 /\ mcpGate # c
    BY <1>2, <1>3 DEF McpInv, RunHolds, ActHolds, McpWaits
  <1>6. ActHolds(c)'
    BY <1>2, <1>3, <1>4, <1>5, RestingHolds DEF McpWaits
  <1> QED BY <1>2, <1>3, <1>4, <1>6, StepsKeep DEF McpWaits

LEMMA StopperIs ==
  ASSUME Mcp!McpAssumption, McpInv, NEW k \in Mcp!Stopper, act[k].pc \notin McpWaits
  PROVE  /\ mcpGate = k /\ k \in Mcp!Actor /\ k \notin Caller /\ act[k] \in ActRec /\ act \in [Mcp!Actor -> ActRec]
         /\ act[k].pc \in StopStep /\ act[k].w \in 0 .. Len(worker) /\ Len(worker) \in Nat /\ plug \in PlugRec
         /\ srv \in [Server -> SrvRec] /\ act[k].todo \in SUBSET Server
         /\ \A j \in Mcp!Actor \ {k} : act[j].pc \in McpWaits
  <1>1. k \in Mcp!Actor /\ k \notin Caller /\ ActHolds(k)
    BY ActorsAre DEF McpInv
  <1>2. mcpGate = k /\ act[k].pc \in StopStep
    BY <1>1 DEF ActHolds
  <1>3. \A j \in Mcp!Actor \ {k} : act[j].pc \in McpWaits
    BY <1>2 DEF McpInv, ActHolds
  <1> QED BY <1>1, <1>2, <1>3, McpFacts DEF ActHolds, McpInv, McpTyped, ActRec

\* A stopper with the gate goes on.
LEMMA StopperKeeps ==
  ASSUME Mcp!McpAssumption, McpInv, NEW k \in Mcp!Stopper, NEW r \in ActRec, act[k].pc \notin McpWaits,
         act' = [act EXCEPT ![k] = r], UNCHANGED <<run, plug, mcpGate, quiet>>, WorkersEvolve,
         srv' \in [Server -> SrvRec], \A s \in Server : srv'[s].worker = srv[s].worker, ActHolds(k)'
  PROVE  McpInv'
  <1>1. mcpGate = k /\ k \in Mcp!Actor /\ k \notin Caller /\ plug \in PlugRec /\ act[k].pc \notin {"opening", "unopened"}
    BY StopperIs DEF StopStep
  <1>2. k = "end" => ~run.on
    BY DEF McpInv, RunHolds, McpWaits
  <1>3. k = "close" => plug.closed
    BY DEF McpInv, RunHolds, McpWaits
  <1>4. run' \in [n : Nat, on : BOOLEAN] /\ run'.n = run.n
    BY DEF McpInv, McpTyped
  <1> QED BY <1>1, <1>2, <1>3, <1>4, MovesKeep

LEMMA StopTakesGateKeeps ==
  ASSUME Mcp!McpAssumption, McpInv, NEW k \in Mcp!Actor, Mcp!StopTakesGate(k)
  PROVE  McpInv'
  <1>1. /\ k \in Mcp!Stopper /\ k \notin Caller /\ act[k].pc = "gate" /\ mcpGate = Nobody /\ plug \in PlugRec
        /\ UNCHANGED <<run, plug, srv, worker, quiet>>
        /\ act[k] \in ActRec /\ act \in [Mcp!Actor -> ActRec] /\ Len(worker) \in Nat /\ ActHolds(k)
    BY ActorsAre, McpFacts DEF Mcp!StopTakesGate, McpInv, McpTyped
  <1>2. CASE Mcp!Leaves(k)
    <2>1. act' = [act EXCEPT ![k] = Mcp!NoAct] /\ mcpGate' = IF mcpGate = k THEN Nobody ELSE mcpGate
      BY <1>2 DEF Mcp!Leaves
    <2> QED BY <2>1, <1>1, LeavesKeeps DEF McpWaits
  <1>3. CASE mcpGate' = k /\ act' = [act EXCEPT ![k].pc = "stopping", ![k].todo = Server]
    <2>1. PICK r : r = [act[k] EXCEPT !.pc = "stopping", !.todo = Server]
      OBVIOUS
    <2>2. r \in ActRec /\ r.pc = "stopping" /\ r.todo = Server /\ r.w = act[k].w
      BY <2>1, <1>1 DEF ActRec, StopStep
    <2>3. act' = [act EXCEPT ![k] = r]
      <3>1. act' = [act EXCEPT ![k] = [act[k] EXCEPT !.pc = "stopping", !.todo = Server]]
        BY <1>3, <1>1 DEF ActRec
      <3> QED BY <3>1, <2>1
    <2>4. act'[k] = r
      BY <2>3, <1>1
    <2>5. ActHolds(k)'
      BY <2>2, <2>4, <1>1, <1>3 DEF ActHolds, McpWaits, StopStep
    <2> QED BY <2>2, <2>3, <2>5, <1>1, <1>3, TakesGateKeeps
  <1> QED BY <1>2, <1>3 DEF Mcp!StopTakesGate

LEMMA NothingToStopKeeps ==
  ASSUME Mcp!McpAssumption, McpInv, NEW k \in Mcp!Actor, NEW s \in Server, Mcp!NothingToStop(k, s)
  PROVE  McpInv'
  <1>1. k \in Mcp!Stopper /\ act[k].pc = "stopping" /\ act[k].pc \notin McpWaits /\ s \in act[k].todo /\ srv[s].worker = 0
    BY DEF Mcp!NothingToStop, McpWaits
  <1>2. PICK r : r = [act[k] EXCEPT !.todo = act[k].todo \ {s}]
    OBVIOUS
  <1>3. /\ act' = [act EXCEPT ![k] = r] /\ UNCHANGED <<run, plug, mcpGate, worker, quiet>>
        /\ srv' = [srv EXCEPT ![s].failed = FALSE]
    BY <1>2 DEF Mcp!NothingToStop
  <1>4. /\ act[k] \in ActRec /\ act \in [Mcp!Actor -> ActRec] /\ k \in Mcp!Actor /\ k \notin Caller /\ mcpGate = k
        /\ act[k].w \in 0 .. Len(worker)
    BY <1>1, StopperIs
  <1>5. r \in ActRec /\ r.pc = "stopping" /\ r.todo = act[k].todo \ {s} /\ r.w = act[k].w /\ r.err = act[k].err
    BY <1>1, <1>2, <1>4 DEF ActRec
  <1>6. srv' \in [Server -> SrvRec] /\ \A x \in Server : srv'[x].worker = srv[x].worker
    BY <1>3, Marked
  <1>7. act'[k] = r /\ WorkersEvolve
    BY <1>3, <1>4, WorkersStay
  <1>8. \A x \in Server \ act[k].todo : srv[x].worker # 0 => act[k].err
    BY <1>1 DEF McpInv, ActHolds
  <1>9. \A x \in Server \ r.todo : srv'[x].worker # 0 => r.err
    BY <1>1, <1>5, <1>6, <1>8
  <1>10. ActHolds(k)'
    BY <1>1, <1>3, <1>4, <1>5, <1>7, <1>9 DEF ActHolds, McpWaits, StopStep
  <1> QED BY <1>1, <1>3, <1>5, <1>6, <1>7, <1>10, StopperKeeps

LEMMA CloseOneKeeps ==
  ASSUME Mcp!McpAssumption, McpInv, NEW k \in Mcp!Actor, NEW s \in Server, Mcp!CloseOne(k, s)
  PROVE  McpInv'
  <1>1. /\ act[k].pc \in {"stopping", "failing"} /\ s \in act[k].todo /\ srv[s].worker # 0 /\ worker' = Mcp!Down(srv[s].worker)
        /\ UNCHANGED <<run, plug, mcpGate, srv, quiet>> /\ act[k].pc \notin McpWaits
    BY DEF Mcp!CloseOne, McpWaits
  <1>2. PICK r : r = [act[k] EXCEPT !.pc = IF k \in Mcp!Stopper THEN "closing" ELSE "failing one",
                                    !.s = s, !.w = srv[s].worker, !.todo = act[k].todo \ {s}]
    OBVIOUS
  <1>3. act' = [act EXCEPT ![k] = r]
    <2>1. act[k] \in ActRec /\ act \in [Mcp!Actor -> ActRec]
      BY McpFacts DEF McpInv, McpTyped
    <2> QED BY <2>1, <1>2 DEF Mcp!CloseOne, ActRec
  <1>4. /\ act[k] \in ActRec /\ act \in [Mcp!Actor -> ActRec] /\ plug \in PlugRec /\ srv \in [Server -> SrvRec]
        /\ Len(worker) \in Nat /\ DOMAIN worker = 1 .. Len(worker) /\ ActHolds(k)
    BY McpFacts DEF McpInv, McpTyped
  <1>5. srv[s].worker \in Nat /\ srv[s].worker \in DOMAIN worker
    BY <1>1, <1>4 DEF McpInv, SrvHolds, SrvRec
  <1>6. /\ r \in ActRec /\ r.s = s /\ r.w = srv[s].worker /\ r.run = act[k].run /\ r.todo = act[k].todo \ {s} /\ r.err = act[k].err
        /\ r.pc = IF k \in Mcp!Stopper THEN "closing" ELSE "failing one"
    BY <1>2, <1>4, <1>5 DEF ActRec, CallStep, StopStep
  <1>7. WorkersEvolve /\ act'[k] = r
    BY <1>1, <1>3, <1>4, <1>5, DownWorkerEvolves
  <1>8. mcpGate = k /\ Len(worker') = Len(worker) /\ r.w \in 0 .. Len(worker')
    <2>1. mcpGate = k
      BY <1>1, <1>4 DEF ActHolds
    <2>2. Len(worker') = Len(worker)
      BY <1>7 DEF WorkersEvolve
    <2>3. r.w \in 1 .. Len(worker)
      BY <1>4, <1>5, <1>6
    <2> QED BY <2>1, <2>2, <2>3, <1>4
  <1>9. CASE k \in Mcp!Stopper
    <2>1. k \notin Caller /\ act[k].pc = "stopping"
      BY <1>1, <1>4, <1>9, ActorsAre DEF ActHolds, McpWaits, StopStep
    <2>2. \A x \in Server \ act[k].todo : srv[x].worker # 0 => act[k].err
      BY <2>1, <1>4 DEF ActHolds
    <2>3. \A x \in Server \ (r.todo \cup {r.s}) : srv'[x].worker # 0 => r.err
      BY <2>2, <1>1, <1>6
    <2>4. ActHolds(k)'
      BY <2>1, <2>3, <1>1, <1>6, <1>7, <1>8, <1>9 DEF ActHolds, McpWaits, StopStep
    <2> QED BY <2>4, <1>1, <1>3, <1>4, <1>6, <1>7, <1>9, StopperKeeps
  <1>10. CASE k \notin Mcp!Stopper
    <2>1. k \in Caller /\ act[k].pc = "failing" /\ act[k].run # 0 /\ plug.run = act[k].run
      BY <1>1, <1>4, <1>10, ActorsAre DEF ActHolds, McpWaits, CallStep
    <2>2. ActHolds(k)'
      BY <2>1, <1>1, <1>5, <1>6, <1>7, <1>8, <1>10 DEF ActHolds, McpWaits, CallStep
    <2>3. ~quiet /\ k # "end" /\ k # "close" /\ run' \in [n : Nat, on : BOOLEAN] /\ run'.n = run.n /\ mcpGate \notin Mcp!Stopper
      BY <2>1, <1>1, <1>8, <1>10, ActorsAre DEF McpInv, QuietHolds, McpTyped
    <2> QED BY <2>1, <2>2, <2>3, <1>1, <1>3, <1>4, <1>6, <1>7, MovesKeep
  <1> QED BY <1>9, <1>10

LEMMA NotClosedKeeps ==
  ASSUME Mcp!McpAssumption, McpInv, NEW k \in Mcp!Actor, Mcp!NotClosed(k)
  PROVE  McpInv'
  <1>1. /\ act[k].pc \in Mcp!Closing /\ act[k].pc \notin McpWaits /\ srv' = [srv EXCEPT ![act[k].s].failed = TRUE]
        /\ UNCHANGED <<run, plug, mcpGate, worker, quiet>>
    BY DEF Mcp!NotClosed, Mcp!Closing, McpWaits
  <1>2. PICK p : p = CASE act[k].pc = "closing" -> "stopping" [] act[k].pc = "failing one" -> "failing" [] OTHER -> "noting"
    OBVIOUS
  <1>3. PICK r : r = [act[k] EXCEPT !.err = TRUE, !.pc = p]
    OBVIOUS
  <1>4. act[k] \in ActRec /\ act \in [Mcp!Actor -> ActRec] /\ plug \in PlugRec /\ ActHolds(k)
    BY McpFacts DEF McpInv, McpTyped
  <1>5. act' = [act EXCEPT ![k] = r]
    BY <1>2, <1>3, <1>4 DEF Mcp!NotClosed, Mcp!Then, ActRec
  <1>6. /\ r \in ActRec /\ r.pc = p /\ r.err /\ r.w = act[k].w /\ r.run = act[k].run /\ r.s = act[k].s /\ p \in CallStep \cup StopStep
        /\ act[k].s \in Server
    BY <1>1, <1>2, <1>3, <1>4 DEF ActRec, CallStep, StopStep, Mcp!Closing, ActHolds
  <1>7. /\ srv' \in [Server -> SrvRec]
        /\ \A x \in Server : srv'[x].worker = srv[x].worker /\ (srv[x].failed => srv'[x].failed)
    BY <1>1, <1>6, Marked
  <1>8. WorkersEvolve /\ act'[k] = r
    BY <1>1, <1>4, <1>5, WorkersStay
  <1>9. CASE k \in Mcp!Stopper
    <2>1. k \notin Caller /\ act[k].pc = "closing" /\ p = "stopping"
      BY <1>1, <1>2, <1>4, <1>9, ActorsAre DEF ActHolds, McpWaits, StopStep, Mcp!Closing
    <2>2. ActHolds(k)'
      BY <2>1, <1>1, <1>4, <1>6, <1>7, <1>8, <1>9 DEF ActHolds, McpWaits, StopStep
    <2> QED BY <2>2, <1>1, <1>5, <1>6, <1>7, <1>8, <1>9, StopperKeeps
  <1>10. CASE k \notin Mcp!Stopper
    <2>1. k \in Caller /\ act[k].pc # "closing" /\ p \in PlainStep
      BY <1>1, <1>2, <1>4, <1>10, ActorsAre DEF ActHolds, McpWaits, CallStep, Mcp!Closing, PlainStep
    <2>2. act[k].pc \notin {"opening", "unopened"}
      BY <1>1 DEF Mcp!Closing
    <2> QED BY <2>1, <2>2, <1>1, <1>4, <1>5, <1>6, <1>7, <1>8, FailsKeeps
  <1> QED BY <1>9, <1>10

LEMMA LateKeeps ==
  ASSUME Mcp!McpAssumption, McpInv, NEW k \in Mcp!Actor, Mcp!Late(k)
  PROVE  McpInv'
  <1>1. /\ act' = [act EXCEPT ![k] = Mcp!NoAct] /\ act[k].pc = "gate"
        /\ mcpGate' = IF mcpGate = k THEN Nobody ELSE mcpGate
        /\ UNCHANGED <<run, plug, srv, worker, quiet>>
    BY DEF Mcp!Late, Mcp!Leaves
  <1>2. plug \in PlugRec
    BY DEF McpInv, McpTyped
  <1> QED BY <1>1, <1>2, LeavesKeeps DEF McpWaits

LEMMA RunEndsKeeps ==
  ASSUME Mcp!McpAssumption, McpInv, Mcp!OnRunEnd \/ Mcp!CancelRun
  PROVE  McpInv'
  <1>1. run \in [n : Nat, on : BOOLEAN] /\ plug \in PlugRec /\ act \in [Mcp!Actor -> ActRec] /\ srv \in [Server -> SrvRec]
        /\ "end" \in Mcp!Actor /\ "end" \in Mcp!Stopper /\ "end" \notin Caller /\ Len(worker) \in Nat
    BY ActorsAre, McpFacts DEF McpInv, McpTyped
  <1>2. CASE Mcp!CancelRun
    <2>1. plug' = [plug EXCEPT !.live = FALSE] /\ UNCHANGED <<run, mcpGate, act, srv, worker, quiet>>
      BY <1>2 DEF Mcp!CancelRun
    <2>2. plug' \in PlugRec /\ plug'.run = plug.run /\ plug'.closed = plug.closed /\ plug'.spoilt = plug.spoilt
      BY <2>1, <1>1 DEF PlugRec
    <2> QED BY <2>1, <2>2, <1>1, WorkersStay, NoActorKeeps
  <1>3. CASE Mcp!OnRunEnd
    <2>1. /\ run.on /\ run' = [run EXCEPT !.on = FALSE] /\ UNCHANGED <<mcpGate, srv, worker, quiet>> /\ WorkersEvolve
          /\ act["end"].pc = "idle"
      BY <1>3, WorkersStay DEF Mcp!OnRunEnd, McpInv, RunHolds
    <2>2. run' \in [n : Nat, on : BOOLEAN] /\ run'.n = run.n /\ ~run'.on
      BY <2>1, <1>1
    <2>3. CASE UNCHANGED <<plug, act>>
      BY <2>1, <2>2, <2>3, <1>1, NoActorKeeps
    <2>4. CASE plug.run = run.n /\ plug' = [plug EXCEPT !.live = FALSE]
               /\ act' = [act EXCEPT !["end"] = [Mcp!NoAct EXCEPT !.pc = "gate", !.run = run.n]]
      <3>1. PICK r : r = [Mcp!NoAct EXCEPT !.pc = "gate", !.run = run.n]
        OBVIOUS
      <3>2. r \in ActRec /\ r.pc = "gate" /\ r.w = 0 /\ ~r.err
        BY <3>1, <1>1 DEF ActRec, Mcp!NoAct, McpWaits
      <3>3. act' = [act EXCEPT !["end"] = r] /\ act'["end"] = r
        BY <2>4, <3>1, <1>1
      <3>4. plug' \in PlugRec /\ plug'.run = plug.run /\ plug'.closed = plug.closed /\ plug'.spoilt = plug.spoilt
        BY <2>4, <1>1 DEF PlugRec
      <3>5. mcpGate # "end"
        BY <2>1, <1>1 DEF McpInv, ActHolds, McpWaits
      <3>6. ActHolds("end")'
        BY <3>2, <3>3, <3>5, <2>1, <1>1, RestingHolds DEF McpWaits
      <3> QED BY <3>2, <3>3, <3>4, <3>6, <2>1, <2>2, <1>1, MovesKeep
    <2> QED BY <1>3, <2>3, <2>4 DEF Mcp!OnRunEnd
  <1> QED BY <1>2, <1>3

LEMMA PluginCloseKeeps ==
  ASSUME Mcp!McpAssumption, McpInv, Mcp!Close
  PROVE  McpInv'
  <1>1. run \in [n : Nat, on : BOOLEAN] /\ plug \in PlugRec /\ act \in [Mcp!Actor -> ActRec] /\ srv \in [Server -> SrvRec]
        /\ "close" \in Mcp!Actor /\ "close" \in Mcp!Stopper /\ "close" \notin Caller /\ Len(worker) \in Nat
    BY ActorsAre, McpFacts DEF McpInv, McpTyped
  <1>2. PICK r : r = [Mcp!NoAct EXCEPT !.pc = "gate"]
    OBVIOUS
  <1>3. /\ act["close"].pc = "idle" /\ plug' = [plug EXCEPT !.closed = TRUE, !.live = FALSE]
        /\ act' = [act EXCEPT !["close"] = r] /\ UNCHANGED <<run, mcpGate, srv, worker, quiet>> /\ WorkersEvolve
    BY <1>2, WorkersStay DEF Mcp!Close
  <1>4. r \in ActRec /\ r.pc = "gate" /\ r.w = 0 /\ ~r.err
    BY <1>2 DEF ActRec, Mcp!NoAct, McpWaits
  <1>5. plug' \in PlugRec /\ plug'.run = plug.run /\ plug'.closed /\ plug'.spoilt = plug.spoilt
    BY <1>3, <1>1 DEF PlugRec
  <1>6. act'["close"] = r /\ mcpGate # "close"
    BY <1>3, <1>1 DEF McpInv, ActHolds, McpWaits
  <1>7. ActHolds("close")'
    BY <1>3, <1>4, <1>6, <1>1, RestingHolds DEF McpWaits
  <1> QED BY <1>1, <1>3, <1>4, <1>5, <1>7, MovesKeep

\* A run starts when no worker is left.
LEMMA RunStartsKeeps ==
  ASSUME Mcp!McpAssumption, McpInv, Mcp!OnRunStart
  PROVE  McpInv'
  <1>1. /\ ~run.on /\ act["end"].pc = "idle" /\ mcpGate = Nobody /\ ~plug.closed /\ plug.run = 0 /\ ~plug.spoilt /\ ~plug.failed
        /\ \A s \in Server : srv[s].worker = 0
        /\ run' = [n |-> run.n + 1, on |-> TRUE] /\ plug' = [plug EXCEPT !.run = run.n + 1, !.live = TRUE]
        /\ UNCHANGED <<mcpGate, act, srv, worker, quiet>>
    BY DEF Mcp!OnRunStart
  <1>2. run.n \in Nat /\ plug \in PlugRec
    BY DEF McpInv, McpTyped
  <1>3. /\ plug' \in PlugRec /\ plug'.run = run.n + 1 /\ plug'.closed = plug.closed /\ run'.n = run.n + 1 /\ run'.on
        /\ run' \in [n : Nat, on : BOOLEAN]
    <2>1. run.n + 1 \in Nat
      BY <1>2
    <2>2. plug' \in PlugRec /\ plug'.run = run.n + 1 /\ plug'.closed = plug.closed
      BY <2>1, <1>1, <1>2 DEF PlugRec
    <2> QED BY <2>1, <2>2, <1>1
  <1>4. McpTyped'
    BY <1>1, <1>3 DEF McpInv, McpTyped
  <1>5. RunHolds'
    BY <1>1, <1>2, <1>3 DEF McpInv, RunHolds
  <1>6. QuietHolds' /\ Mcp!NoReconnect'
    BY <1>1, <1>3 DEF McpInv, QuietHolds, Mcp!NoReconnect
  <1>7. ASSUME NEW k \in Mcp!Actor PROVE ActHolds(k)'
    <2>1. ActHolds(k) /\ act[k].pc \in McpWaits
      BY <1>1, ActorsAre DEF McpInv, ActHolds
    <2>2. act[k].pc \notin CallStep
      BY <2>1 DEF McpWaits, CallStep
    <2>3. act[k].pc \notin {"opening", "unopened", "listing", "unlisted", "closing", "failing one", "stopping"}
      BY <2>1 DEF McpWaits
    <2> QED BY <2>1, <2>2, <2>3, <1>1 DEF ActHolds
  <1>8. \A s \in Server : SrvHolds(s)'
    BY <1>1 DEF SrvHolds
  <1>9. ASSUME NEW w \in DOMAIN worker PROVE WorkerHolds(w)'
    <2>1. WorkerHolds(w) /\ worker[w] \in WorkerRec /\ w # 0
      BY McpFacts DEF McpInv
    <2>2. worker[w].run \in Nat /\ worker[w].run # run.n + 1 /\ worker[w].run <= run.n + 1 /\ worker[w].run # 0
      BY <2>1, <1>2 DEF WorkerHolds, WorkerRec
    <2>3. srv[worker[w].s].worker # w
      BY <2>1, <1>1 DEF WorkerRec
    <2>4. ~Mcp!Left(w) /\ ~(worker[w].owned /\ worker[w].unheard)
      BY <2>1, <2>3, <1>1 DEF WorkerHolds
    <2> QED BY <2>2, <2>4, <1>1, <1>3 DEF WorkerHolds, Mcp!Left
  <1>10. \A w \in DOMAIN worker' : WorkerHolds(w)'
    BY <1>9, <1>1
  <1> QED BY <1>4, <1>5, <1>6, <1>7, <1>8, <1>10 DEF McpInv

\* A stopper is through with the servers: those it could not close it has told about.
LEMMA StopEndsKeeps ==
  ASSUME Mcp!McpAssumption, McpInv, NEW k \in Mcp!Actor, Mcp!StopEnds(k)
  PROVE  McpInv'
  <1>1. /\ k \in Mcp!Stopper /\ act[k].pc = "stopping" /\ act[k].pc \notin McpWaits /\ act[k].todo = {}
        /\ plug' = [plug EXCEPT !.run = 0, !.live = FALSE]
        /\ act' = [act EXCEPT ![k] = Mcp!NoAct] /\ mcpGate' = IF mcpGate = k THEN Nobody ELSE mcpGate
    BY DEF Mcp!StopEnds, Mcp!Leaves, McpWaits
  <1>2. quiet' = (quiet \/ (k = "close" /\ ~act[k].err /\ ~plug.spoilt)) /\ UNCHANGED <<run, srv, worker>>
    BY DEF Mcp!StopEnds
  <1>3. /\ mcpGate = k /\ k \notin Caller /\ act \in [Mcp!Actor -> ActRec] /\ plug \in PlugRec /\ ActHolds(k) /\ Len(worker) \in Nat
        /\ \A j \in Mcp!Actor \ {k} : act[j].pc \in McpWaits
    BY <1>1, StopperIs DEF McpInv
  <1>4. /\ plug' \in PlugRec /\ plug'.run = 0 /\ plug'.closed = plug.closed /\ plug'.spoilt = plug.spoilt /\ mcpGate' = Nobody
        /\ run.n \in Nat
    BY <1>1, <1>3 DEF PlugRec, McpInv, McpTyped
  <1>5. /\ Mcp!NoAct \in ActRec /\ Mcp!NoAct.pc = "idle" /\ Mcp!NoAct.w = 0 /\ act'[k] = Mcp!NoAct
        /\ \A j \in Mcp!Actor \ {k} : act'[j] = act[j]
    BY <1>1, <1>3 DEF Mcp!NoAct, ActRec, McpWaits
  <1>6. McpTyped'
    BY <1>1, <1>2, <1>3, <1>4, <1>5 DEF McpInv, McpTyped
  <1>7. RunHolds'
    BY <1>2, <1>4, <1>5, ActorsAre DEF McpInv, RunHolds
  <1>8. ASSUME NEW j \in Mcp!Actor PROVE ActHolds(j)'
    <2>1. CASE j = k
      BY <2>1, <1>2, <1>3, <1>4, <1>5, ActorsAre, RestingHolds DEF McpWaits
    <2>2. CASE j # k
      <3>1. ActHolds(j) /\ act'[j] = act[j] /\ act[j].pc \in McpWaits /\ mcpGate' # j
        BY <2>2, <1>3, <1>4, <1>5, ActorsAre DEF McpInv
      <3>2. act[j].w \in 0 .. Len(worker) /\ (j \in Caller /\ act[j].pc = "gate" => act[j].run # 0 /\ act[j].s \in Server)
            /\ (j \in Mcp!Stopper /\ act[j].pc = "gate" => ~act[j].err)
        BY <3>1 DEF ActHolds
      <3> QED BY <3>1, <3>2, <1>2, RestingHolds
    <2> QED BY <2>1, <2>2
  <1>9. \A s \in Server : SrvHolds(s)'
    BY <1>2 DEF McpInv, SrvHolds
  <1>10. ASSUME NEW w \in DOMAIN worker PROVE WorkerHolds(w)'
    <2>1. WorkerHolds(w)
      BY DEF McpInv
    <2> QED BY <2>1, <1>2, <1>4 DEF WorkerHolds, Mcp!Left
  <1>11. Mcp!NoReconnect'
    BY <1>2 DEF McpInv, Mcp!NoReconnect
  <1>12. QuietHolds'
    <2>1. ASSUME quiet PROVE QuietHolds'
      BY <2>1, <1>2, <1>3, <1>4, <1>5, ActorsAre DEF McpInv, QuietHolds
    <2>2. ASSUME k = "close", ~act[k].err, ~plug.spoilt PROVE QuietHolds'
      <3>1. plug.closed
        BY <2>2, <1>1 DEF McpInv, RunHolds
      <3>2. \A s \in Server : srv[s].worker = 0
        BY <2>2, <1>1, <1>3 DEF ActHolds
      <3>3. \A c \in Caller : act'[c].pc \in McpWaits
        BY <1>3, <1>5, ActorsAre
      <3>4. ASSUME NEW w \in DOMAIN worker PROVE ~(worker[w].owned /\ worker[w].unheard)
        <4>1. WorkerHolds(w) /\ worker[w] \in WorkerRec /\ w # 0
          BY McpFacts DEF McpInv
        <4>2. srv[worker[w].s].worker # w
          BY <4>1, <3>2 DEF WorkerRec
        <4> QED BY <4>1, <4>2, <2>2 DEF WorkerHolds
      <3> QED BY <3>1, <3>2, <3>3, <3>4, <1>2, <1>4 DEF QuietHolds
    <2>3. ASSUME ~quiet' PROVE QuietHolds'
      BY <2>3 DEF QuietHolds
    <2> QED BY <2>1, <2>2, <2>3, <1>2
  <1>13. \A w \in DOMAIN worker' : WorkerHolds(w)'
    BY <1>10, <1>2
  <1> QED BY <1>6, <1>7, <1>8, <1>9, <1>11, <1>12, <1>13 DEF McpInv

\* connect opens the one worker of the server in this run.
LEMMA OpenKeeps ==
  ASSUME Mcp!McpAssumption, McpInv, NEW c \in Caller, Mcp!Open(c)
  PROVE  McpInv'
  <1>1. PICK s, n : s = act[c].s /\ n = Len(worker) + 1
    OBVIOUS
  <1>2. PICK q : q = [s |-> s, run |-> plug.run, proc |-> "up", owned |-> FALSE, unheard |-> FALSE]
    OBVIOUS
  <1>3. PICK r : r = [act[c] EXCEPT !.pc = "opening", !.w = n]
    OBVIOUS
  <1>4. /\ act[c].pc = "connecting" /\ act[c].pc \notin McpWaits /\ ~srv[s].failed /\ srv[s].worker = 0
        /\ UNCHANGED <<run, plug, mcpGate, srv, quiet>> /\ worker' = Append(worker, q)
    BY <1>1, <1>2 DEF Mcp!Open, Mcp!Refuses, McpWaits
  <1>5. /\ mcpGate = c /\ c \in Mcp!Actor /\ c \notin Mcp!Stopper /\ act[c] \in ActRec /\ act \in [Mcp!Actor -> ActRec]
        /\ plug.run # 0 /\ plug.run = act[c].run /\ s \in Server /\ plug \in PlugRec
        /\ \A j \in Mcp!Actor \ {c} : act[j].pc \in McpWaits
    BY <1>1, <1>4, HasGate DEF McpInv, McpTyped
  <1>6. act' = [act EXCEPT ![c] = r]
    BY <1>1, <1>3, <1>5 DEF Mcp!Open, ActRec
  <1>7. /\ worker \in Seq(WorkerRec) /\ DOMAIN worker = 1 .. Len(worker) /\ Len(worker) \in Nat /\ q \in WorkerRec
        /\ n \in Nat /\ n # 0 /\ n \notin DOMAIN worker
    BY <1>1, <1>2, <1>5, McpFacts DEF WorkerRec, PlugRec
  <1>8. /\ worker' \in Seq(WorkerRec) /\ Len(worker') = n /\ worker'[n] = q
        /\ \A w \in DOMAIN worker : worker'[w] = worker[w]
    BY <1>1, <1>4, <1>7
  <1>9. DOMAIN worker' = DOMAIN worker \cup {n} /\ n \in DOMAIN worker'
    <2>1. DOMAIN worker' = 1 .. n
      BY <1>8, <1>7
    <2> QED BY <2>1, <1>1, <1>7
  <1>10. /\ r \in ActRec /\ r.pc = "opening" /\ r.w = n /\ r.run = act[c].run /\ r.s = s
         /\ act'[c] = r /\ \A j \in Mcp!Actor \ {c} : act'[j] = act[j]
    BY <1>1, <1>3, <1>5, <1>6, <1>7 DEF ActRec, CallStep
  <1>11. \A w : ~OpeningOf(w)
    <2> SUFFICES ASSUME NEW d \in Caller, act[d].pc \in {"opening", "unopened"} PROVE FALSE
      BY DEF OpeningOf
    <2>1. d \in Mcp!Actor /\ d # c
      BY <1>4, ActorsAre
    <2> QED BY <2>1, <1>5 DEF McpWaits
  <1>12. ASSUME NEW w \in DOMAIN worker PROVE ~(worker[w].s = s /\ worker[w].run = plug.run)
    <2>1. WorkerHolds(w) /\ w # 0
      BY <1>7 DEF McpInv
    <2> QED BY <2>1, <1>4, <1>5, <1>11 DEF WorkerHolds
  <1>13. McpTyped'
    BY <1>4, <1>8, <1>10, <1>5, <1>6 DEF McpInv, McpTyped
  <1>14. RunHolds'
    BY <1>4, <1>10, ActorsAre DEF McpInv, RunHolds
  <1>15. Mcp!NoReconnect'
    <2> SUFFICES ASSUME NEW v \in DOMAIN worker', NEW w \in DOMAIN worker',
                        worker'[v].s = worker'[w].s, worker'[v].run = worker'[w].run, v # w
                 PROVE  FALSE
      BY DEF Mcp!NoReconnect
    <2>1. CASE v \in DOMAIN worker /\ w \in DOMAIN worker
      BY <2>1, <1>8 DEF McpInv, Mcp!NoReconnect
    <2>2. CASE v = n /\ w \in DOMAIN worker
      BY <2>2, <1>2, <1>8, <1>12
    <2>3. CASE w = n /\ v \in DOMAIN worker
      BY <2>3, <1>2, <1>8, <1>12
    <2> QED BY <2>1, <2>2, <2>3, <1>9
  <1>16. ASSUME NEW j \in Mcp!Actor PROVE ActHolds(j)'
    <2>1. CASE j = c
      <3>1. r.w \in 0 .. Len(worker')
        BY <1>7, <1>8, <1>10
      <3>2. worker'[r.w].s = s /\ worker'[r.w].run = plug.run /\ ~worker'[r.w].owned
        BY <1>2, <1>8, <1>10
      <3>3. r.run # 0 /\ plug'.run = r.run /\ srv'[r.s].worker = 0 /\ r.w # 0 /\ mcpGate' = c /\ act'[c] = r
        BY <1>4, <1>5, <1>7, <1>10
      <3> QED BY <2>1, <3>1, <3>2, <3>3, <1>4, <1>5, <1>10, ActorsAre DEF ActHolds, McpWaits, CallStep
    <2>2. CASE j # c
      <3>1. ActHolds(j) /\ act'[j] = act[j] /\ act[j].pc \in McpWaits /\ mcpGate' # j
        BY <2>2, <1>4, <1>5, <1>10 DEF McpInv
      <3>2. act[j].w \in 0 .. Len(worker')
        <4>1. act[j].w \in 0 .. Len(worker)
          BY <3>1 DEF ActHolds
        <4> QED BY <4>1, <1>1, <1>7, <1>8
      <3>3. (j \in Caller /\ act[j].pc = "gate" => act[j].run # 0 /\ act[j].s \in Server)
            /\ (j \in Mcp!Stopper /\ act[j].pc = "gate" => ~act[j].err)
        BY <3>1 DEF ActHolds
      <3> QED BY <3>1, <3>2, <3>3, RestingHolds
    <2> QED BY <2>1, <2>2
  <1>17. ASSUME NEW t \in Server PROVE SrvHolds(t)'
    <2>1. SrvHolds(t) /\ srv' = srv
      BY <1>4 DEF McpInv
    <2> QED BY <2>1, <1>8, <1>9 DEF SrvHolds
  <1>18. ASSUME NEW w \in DOMAIN worker' PROVE WorkerHolds(w)'
    <2>1. CASE w \in DOMAIN worker
      <3>1. WorkerHolds(w) /\ worker'[w] = worker[w]
        BY <2>1, <1>8 DEF McpInv
      <3> QED BY <3>1, <1>4, <1>11 DEF WorkerHolds, Mcp!Left
    <2>2. CASE w = n
      <3>1. worker'[w].run = plug.run /\ ~worker'[w].owned
        BY <2>2, <1>2, <1>8
      <3>2. plug.run # 0 /\ plug.run <= run.n
        BY <1>5 DEF McpInv, RunHolds, PlugRec
      <3>3. OpeningOf(w)'
        BY <2>2, <1>10 DEF OpeningOf
      <3> QED BY <3>1, <3>2, <3>3, <1>4 DEF WorkerHolds, Mcp!Left
    <2> QED BY <2>1, <2>2, <1>9
  <1>19. QuietHolds'
    BY <1>4, <1>5 DEF McpInv, QuietHolds
  <1> QED BY <1>13, <1>14, <1>15, <1>16, <1>17, <1>18, <1>19 DEF McpInv

\* Open returned: from now on the server has the worker.
LEMMA OpenedKeeps ==
  ASSUME Mcp!McpAssumption, McpInv, NEW c \in Caller, Mcp!Opened(c)
  PROVE  McpInv'
  <1>1. PICK s, w : s = act[c].s /\ w = act[c].w
    OBVIOUS
  <1>2. PICK q, e, r : /\ q = [worker[w] EXCEPT !.owned = TRUE] /\ e = [srv[s] EXCEPT !.worker = w]
                       /\ r = [act[c] EXCEPT !.pc = "listing"]
    OBVIOUS
  <1>3. /\ act[c].pc = "opening" /\ act[c].pc \notin McpWaits /\ worker' = [worker EXCEPT ![w] = q]
        /\ srv' = [srv EXCEPT ![s] = e] /\ act' = [act EXCEPT ![c] = r] /\ UNCHANGED <<run, plug, mcpGate, quiet>>
    BY <1>1, <1>2 DEF Mcp!Opened, Mcp!Goes, McpWaits
  <1>4. /\ mcpGate = c /\ c \in Mcp!Actor /\ c \notin Mcp!Stopper /\ act[c] \in ActRec /\ act \in [Mcp!Actor -> ActRec]
        /\ plug.run # 0 /\ plug.run = act[c].run /\ s \in Server /\ ActHolds(c) /\ w \in 0 .. Len(worker)
        /\ \A j \in Mcp!Actor \ {c} : act[j].pc \in McpWaits
    BY <1>1, <1>3, HasGate DEF McpInv, McpTyped
  <1>5. /\ srv[s].worker = 0 /\ w # 0 /\ worker[w].s = s /\ worker[w].run = plug.run /\ ~worker[w].owned
    BY <1>1, <1>3, <1>4 DEF ActHolds
  <1>6. /\ worker \in Seq(WorkerRec) /\ DOMAIN worker = 1 .. Len(worker) /\ Len(worker) \in Nat
        /\ srv \in [Server -> SrvRec]
    BY McpFacts DEF McpInv, McpTyped
  <1>7. w \in DOMAIN worker /\ w \in Nat
    BY <1>4, <1>5, <1>6
  <1>8. /\ q \in WorkerRec /\ q.s = s /\ q.run = plug.run /\ q.proc = worker[w].proc /\ q.unheard = worker[w].unheard /\ q.owned
    <2>1. worker[w] \in WorkerRec
      BY <1>7, McpFacts
    <2> QED BY <2>1, <1>2, <1>5 DEF WorkerRec
  <1>9. /\ worker' \in Seq(WorkerRec) /\ Len(worker') = Len(worker) /\ DOMAIN worker' = DOMAIN worker
        /\ worker'[w] = q /\ \A v \in DOMAIN worker \ {w} : worker'[v] = worker[v]
    BY <1>3, <1>6, <1>7, <1>8
  <1>10. /\ srv' \in [Server -> SrvRec] /\ srv'[s].worker = w /\ \A t \in Server \ {s} : srv'[t] = srv[t]
    BY <1>2, <1>3, <1>4, <1>6, <1>7 DEF SrvRec
  <1>11. /\ r \in ActRec /\ r.pc = "listing" /\ r.w = w /\ r.run = act[c].run /\ r.s = s
         /\ act'[c] = r /\ \A j \in Mcp!Actor \ {c} : act'[j] = act[j]
    BY <1>1, <1>2, <1>3, <1>4 DEF ActRec, CallStep
  <1>12. McpTyped'
    BY <1>3, <1>4, <1>9, <1>10, <1>11 DEF McpInv, McpTyped
  <1>13. RunHolds'
    BY <1>3, <1>11, ActorsAre DEF McpInv, RunHolds
  <1>14. \A v \in DOMAIN worker : worker'[v].s = worker[v].s /\ worker'[v].run = worker[v].run
    BY <1>5, <1>8, <1>9
  <1>15. Mcp!NoReconnect'
    BY <1>9, <1>14 DEF McpInv, Mcp!NoReconnect
  <1>16. ASSUME NEW j \in Mcp!Actor PROVE ActHolds(j)'
    <2>1. CASE j = c
      BY <2>1, <1>3, <1>4, <1>5, <1>9, <1>10, <1>11, ActorsAre DEF ActHolds, McpWaits, CallStep
    <2>2. CASE j # c
      <3>1. ActHolds(j) /\ act'[j] = act[j] /\ act[j].pc \in McpWaits /\ mcpGate' # j
        BY <2>2, <1>3, <1>4, <1>11 DEF McpInv
      <3>2. act[j].w \in 0 .. Len(worker')
        BY <3>1, <1>9 DEF ActHolds
      <3>3. (j \in Caller /\ act[j].pc = "gate" => act[j].run # 0 /\ act[j].s \in Server)
            /\ (j \in Mcp!Stopper /\ act[j].pc = "gate" => ~act[j].err)
        BY <3>1 DEF ActHolds
      <3> QED BY <3>1, <3>2, <3>3, RestingHolds
    <2> QED BY <2>1, <2>2
  <1>17. ASSUME NEW t \in Server PROVE SrvHolds(t)'
    <2>1. CASE t = s
      BY <2>1, <1>7, <1>8, <1>9, <1>10 DEF SrvHolds
    <2>2. CASE t # s
      <3>1. SrvHolds(t) /\ srv'[t] = srv[t]
        BY <2>2, <1>10 DEF McpInv
      <3>2. srv[t].worker # 0 => srv[t].worker # w
        BY <3>1, <2>2, <1>5 DEF SrvHolds
      <3> QED BY <3>1, <3>2, <1>9 DEF SrvHolds
    <2> QED BY <2>1, <2>2
  <1>18. ASSUME NEW v \in DOMAIN worker' PROVE WorkerHolds(v)'
    <2>1. WorkerHolds(v) /\ v \in DOMAIN worker /\ v # 0 /\ worker[v].s \in Server
      BY <1>6, <1>9, McpFacts DEF McpInv, WorkerRec
    <2>2. CASE v = w
      <3>1. worker'[v].run # 0 /\ worker'[v].run <= run.n
        BY <2>1, <2>2, <1>14 DEF WorkerHolds
      <3> QED BY <3>1, <2>2, <1>3, <1>8, <1>9, <1>10 DEF WorkerHolds, Mcp!Left
    <2>3. CASE v # w
      <3>1. worker'[v] = worker[v]
        BY <2>1, <2>3, <1>9
      <3>2. CASE worker[v].s = s
        <4>1. worker[v].run # plug.run
          BY <3>2, <2>1, <2>3, <1>5, <1>7 DEF McpInv, Mcp!NoReconnect
        <4>2. ~Mcp!Left(v) /\ (worker[v].owned /\ worker[v].unheard => plug.spoilt)
          BY <3>2, <2>1, <1>5 DEF WorkerHolds
        <4> QED BY <4>1, <4>2, <3>1, <2>1, <1>3 DEF WorkerHolds, Mcp!Left
      <3>3. CASE worker[v].s # s
        <4>1. srv'[worker[v].s] = srv[worker[v].s]
          BY <3>3, <2>1, <1>10
        <4>2. ~OpeningOf(v)
          <5> SUFFICES ASSUME NEW d \in Caller, act[d].pc \in {"opening", "unopened"}, act[d].w = v PROVE FALSE
            BY DEF OpeningOf
          <5>1. d \in Mcp!Actor /\ d # c
            BY <2>3, <1>1, ActorsAre
          <5> QED BY <5>1, <1>4 DEF McpWaits
        <4> QED BY <4>1, <4>2, <3>1, <2>1, <1>3 DEF WorkerHolds, Mcp!Left
      <3> QED BY <3>2, <3>3
    <2> QED BY <2>2, <2>3
  <1>19. QuietHolds'
    BY <1>3, <1>4 DEF McpInv, QuietHolds
  <1> QED BY <1>12, <1>13, <1>15, <1>16, <1>17, <1>18, <1>19, <1>9 DEF McpInv

\* A worker is let go: it is gone, and what the journal missed of it is known.
LEMMA LetsGoKeeps ==
  ASSUME Mcp!McpAssumption, McpInv, NEW k \in Mcp!Actor, NEW err \in BOOLEAN, NEW s, NEW w, s = act[k].s, w = act[k].w,
         act[k].pc \in Mcp!Closing, Mcp!IsClean(w), err \/ ~worker[w].unheard, Mcp!Then(k, err),
         srv' = [srv EXCEPT ![s] = [worker |-> 0, failed |-> k \notin Mcp!Stopper]],
         plug' \in PlugRec, plug'.run = plug.run, plug'.closed = plug.closed, plug'.spoilt = (plug.spoilt \/ err),
         UNCHANGED <<run, mcpGate, worker, quiet>>
  PROVE  McpInv'
  <1>1. /\ ActHolds(k) /\ act[k] \in ActRec /\ act \in [Mcp!Actor -> ActRec] /\ act[k].pc \notin McpWaits
        /\ Len(worker) \in Nat /\ DOMAIN worker = 1 .. Len(worker) /\ srv \in [Server -> SrvRec]
    BY McpFacts DEF McpInv, McpTyped, Mcp!Closing, McpWaits
  <1>2. mcpGate = k /\ s \in Server /\ w # 0 /\ srv[s].worker = w
    BY <1>1 DEF ActHolds, Mcp!Closing
  <1>3. PICK p : p = CASE act[k].pc = "closing" -> "stopping" [] act[k].pc = "failing one" -> "failing" [] OTHER -> "noting"
    OBVIOUS
  <1>4. PICK r : r = [act[k] EXCEPT !.err = act[k].err \/ err, !.pc = p]
    OBVIOUS
  <1>5. act' = [act EXCEPT ![k] = r]
    BY <1>1, <1>3, <1>4 DEF Mcp!Then, ActRec
  <1>6. /\ r \in ActRec /\ r.pc = p /\ r.w = w /\ r.run = act[k].run /\ r.s = s /\ r.todo = act[k].todo
        /\ r.err = (act[k].err \/ err) /\ p \in CallStep \cup StopStep
    BY <1>1, <1>3, <1>4 DEF ActRec, CallStep, StopStep, Mcp!Closing
  <1>7. act'[k] = r /\ \A j \in Mcp!Actor \ {k} : act'[j] = act[j]
    BY <1>1, <1>5
  <1>8. /\ srv' \in [Server -> SrvRec] /\ srv'[s].worker = 0 /\ (srv'[s].failed <=> k \notin Mcp!Stopper)
        /\ \A t \in Server \ {s} : srv'[t] = srv[t]
    BY <1>1, <1>2 DEF SrvRec
  <1>9. McpTyped'
    BY <1>5, <1>6, <1>7, <1>1, <1>8 DEF McpInv, McpTyped
  <1>10. RunHolds'
    <2>1. k = "end" => ~run.on
      BY <1>1 DEF McpInv, RunHolds, McpWaits
    <2>2. k = "close" => plug.closed
      BY <1>1 DEF McpInv, RunHolds, McpWaits
    <2> QED BY <2>1, <2>2, <1>7, ActorsAre DEF McpInv, RunHolds
  <1>11. ASSUME NEW j \in Mcp!Actor PROVE ActHolds(j)'
    <2>1. CASE j # k
      <3>1. ActHolds(j) /\ act'[j] = act[j] /\ act[j].pc \in McpWaits /\ mcpGate' # j
        BY <2>1, <1>2, <1>7 DEF McpInv, ActHolds
      <3>2. act[j].w \in 0 .. Len(worker') /\ (j \in Caller /\ act[j].pc = "gate" => act[j].run # 0 /\ act[j].s \in Server)
            /\ (j \in Mcp!Stopper /\ act[j].pc = "gate" => ~act[j].err)
        BY <3>1 DEF ActHolds
      <3> QED BY <3>1, <3>2, RestingHolds
    <2>2. CASE j = k /\ k \in Mcp!Stopper
      <3>1. k \notin Caller /\ act[k].pc = "closing" /\ p = "stopping"
        BY <2>2, <1>1, <1>3, ActorsAre DEF ActHolds, McpWaits, StopStep, Mcp!Closing
      <3>2. \A x \in Server \ (act[k].todo \cup {s}) : srv[x].worker # 0 => act[k].err
        BY <3>1, <1>1 DEF ActHolds
      <3>3. \A x \in Server \ r.todo : srv'[x].worker # 0 => r.err
        BY <3>2, <1>6, <1>8
      <3> QED BY <2>2, <3>1, <3>3, <1>1, <1>2, <1>6, <1>7 DEF ActHolds, McpWaits, StopStep
    <2>3. CASE j = k /\ k \notin Mcp!Stopper
      <3>1. k \in Caller /\ p \in PlainStep /\ act[k].run # 0 /\ plug.run = act[k].run
        BY <2>3, <1>1, <1>3, ActorsAre DEF ActHolds, McpWaits, CallStep, Mcp!Closing, PlainStep
      <3>2. r.w \in 0 .. Len(worker)
        BY <1>1, <1>6 DEF ActHolds
      <3> QED BY <2>3, <3>1, <3>2, <1>2, <1>6, <1>7, PlainCallHolds
    <2> QED BY <2>1, <2>2, <2>3
  <1>12. ASSUME NEW t \in Server PROVE SrvHolds(t)'
    <2>1. SrvHolds(t)
      BY DEF McpInv
    <2> QED BY <2>1, <1>8 DEF SrvHolds
  <1>13. ASSUME NEW v \in DOMAIN worker' PROVE WorkerHolds(v)'
    <2>1. WorkerHolds(v) /\ worker[v].s \in Server
      BY McpFacts DEF McpInv, WorkerRec
    <2>2. CASE worker[v].s = s
      <3>1. ~Mcp!Left(v)
        BY <2>1, <2>2, <1>2 DEF WorkerHolds, Mcp!Left, Mcp!IsClean
      <3>2. worker[v].owned /\ worker[v].unheard => plug'.spoilt
        BY <2>1, <2>2, <1>2 DEF WorkerHolds
      <3>3. mcpGate \notin Mcp!Stopper => srv'[s].failed
        BY <1>2, <1>8
      <3> QED BY <2>1, <2>2, <3>1, <3>2, <3>3 DEF WorkerHolds, Mcp!Left
    <2>3. CASE worker[v].s # s
      <3>1. srv'[worker[v].s] = srv[worker[v].s]
        BY <2>1, <2>3, <1>8
      <3>2. OpeningOf(v) => OpeningOf(v)'
        <4> SUFFICES ASSUME NEW d \in Caller, act[d].pc \in {"opening", "unopened"}, act[d].w = v PROVE OpeningOf(v)'
          BY DEF OpeningOf
        <4>1. d \in Mcp!Actor /\ d # k
          BY ActorsAre DEF Mcp!Closing
        <4> QED BY <4>1, <1>7 DEF OpeningOf
      <3> QED BY <2>1, <3>1, <3>2 DEF WorkerHolds, Mcp!Left
    <2> QED BY <2>2, <2>3
  <1>14. Mcp!NoReconnect'
    BY DEF McpInv, Mcp!NoReconnect
  <1>15. QuietHolds'
    BY <1>2 DEF McpInv, QuietHolds
  <1> QED BY <1>9, <1>10, <1>11, <1>12, <1>13, <1>14, <1>15 DEF McpInv

LEMMA ClosedKeeps ==
  ASSUME Mcp!McpAssumption, McpInv, NEW k \in Mcp!Actor, NEW err \in BOOLEAN, Mcp!Closed(k, err) \/ Mcp!ClosedUnnoted(k)
  PROVE  McpInv'
  <1>1. plug \in PlugRec
    BY DEF McpInv, McpTyped
  <1>2. CASE Mcp!Closed(k, err)
    <2>1. /\ act[k].pc \in Mcp!Closing /\ Mcp!IsClean(act[k].w) /\ (err \/ ~worker[act[k].w].unheard) /\ Mcp!Then(k, err)
          /\ srv' = [srv EXCEPT ![act[k].s] = [worker |-> 0, failed |-> k \notin Mcp!Stopper]]
          /\ plug' = [plug EXCEPT !.spoilt = @ \/ err] /\ UNCHANGED <<run, mcpGate, worker, quiet>>
      BY <1>2 DEF Mcp!Closed
    <2>2. /\ plug' \in PlugRec /\ plug'.run = plug.run /\ plug'.closed = plug.closed /\ plug'.spoilt = (plug.spoilt \/ err)
      BY <2>1, <1>1 DEF PlugRec
    <2> QED BY <2>1, <2>2, LetsGoKeeps
  <1>3. CASE Mcp!ClosedUnnoted(k)
    <2>1. /\ act[k].pc \in Mcp!Closing /\ Mcp!IsClean(act[k].w) /\ Mcp!Then(k, TRUE) /\ k \in Mcp!Stopper
          /\ srv' = [srv EXCEPT ![act[k].s] = [worker |-> 0, failed |-> FALSE]]
          /\ plug' = [plug EXCEPT !.spoilt = TRUE, !.failed = TRUE] /\ UNCHANGED <<run, mcpGate, worker, quiet>>
      BY <1>3 DEF Mcp!ClosedUnnoted, Mcp!Closing
    <2>2. /\ plug' \in PlugRec /\ plug'.run = plug.run /\ plug'.closed = plug.closed /\ plug'.spoilt = (plug.spoilt \/ TRUE)
      BY <2>1, <1>1 DEF PlugRec
    <2>3. srv' = [srv EXCEPT ![act[k].s] = [worker |-> 0, failed |-> k \notin Mcp!Stopper]]
      <3>1. (k \notin Mcp!Stopper) = FALSE
        BY <2>1
      <3> QED BY <2>1, <3>1
    <2> QED BY <2>1, <2>2, <2>3, LetsGoKeeps
  <1> QED BY <1>2, <1>3

LEMMA McpInit == ASSUME Mcp!McpAssumption, Mcp!Init PROVE McpInv
  <1>1. /\ run = [n |-> 0, on |-> FALSE] /\ mcpGate = Nobody /\ worker = <<>> /\ quiet = FALSE
        /\ plug = [run |-> 0, live |-> FALSE, closed |-> FALSE, spoilt |-> FALSE, failed |-> FALSE]
        /\ act = [k \in Mcp!Actor |-> Mcp!NoAct] /\ srv = [s \in Server |-> [worker |-> 0, failed |-> FALSE]]
    BY DEF Mcp!Init
  <1>2. Mcp!NoAct \in ActRec /\ Mcp!NoAct.pc = "idle" /\ Mcp!NoAct.w = 0
    BY DEF Mcp!NoAct, ActRec, McpWaits
  <1>3. worker \in Seq(WorkerRec) /\ Len(worker) = 0 /\ DOMAIN worker = {}
    BY <1>1
  <1>4. McpTyped
    BY <1>1, <1>2, <1>3 DEF McpTyped, PlugRec, SrvRec
  <1>5. RunHolds /\ QuietHolds /\ Mcp!NoReconnect
    BY <1>1, <1>2, <1>3, ActorsAre DEF RunHolds, QuietHolds, Mcp!NoReconnect
  <1>6. \A k \in Mcp!Actor : ActHolds(k)
    <2> SUFFICES ASSUME NEW k \in Mcp!Actor PROVE ActHolds(k)
      OBVIOUS
    <2>1. act[k].pc = "idle" /\ act[k].w = 0 /\ mcpGate # k
      BY <1>1, <1>2, ActorsAre
    <2> QED BY <2>1, <1>3 DEF ActHolds, McpWaits, CallStep
  <1>7. \A s \in Server : SrvHolds(s)
    BY <1>1 DEF SrvHolds
  <1> QED BY <1>3, <1>4, <1>5, <1>6, <1>7 DEF McpInv

LEMMA McpStutters == ASSUME Mcp!McpAssumption, McpInv, UNCHANGED Mcp!vars PROVE McpInv'
  <1>1. UNCHANGED <<run, plug, mcpGate, act, srv, worker, quiet>>
    BY DEF Mcp!vars
  <1>2. run \in [n : Nat, on : BOOLEAN] /\ plug \in PlugRec
    BY DEF McpInv, McpTyped
  <1> QED BY <1>1, <1>2, WorkersStay, NoActorKeeps

LEMMA McpSteps == ASSUME Mcp!McpAssumption, McpInv, Mcp!Next PROVE McpInv'
  <1>1. ASSUME NEW c \in Caller,
               \/ Mcp!CallMoves(c) \/ Mcp!GiveUp(c) \/ Mcp!Authorized(c) \/ Mcp!Opened(c) \/ Mcp!Listed(c) \/ Mcp!Use(c, TRUE)
               \/ \E s \in Server, op \in {"list", "search", "call"} : Mcp!Call(c, op, s)
        PROVE  McpInv'
    <2>1. CASE Mcp!TakeGate(c) \/ Mcp!GiveUp(c) \/ Mcp!Authorized(c)
      BY <2>1, GatesKeep
    <2>2. CASE Mcp!Enter(c) \/ Mcp!EnterFails(c) \/ Mcp!Failed(c) \/ Mcp!IsConnected(c)
      BY <2>2, EntersKeep
    <2>3. CASE \E s \in Server : Mcp!FailIdle(c, s)
      BY <2>3, RefusalsKeep
    <2>4. CASE Mcp!Refused(c) \/ Mcp!Unopened(c)
      <3>1. act[c].pc \notin McpWaits
        BY <2>4 DEF Mcp!Refused, Mcp!Unopened, McpWaits
      <3>2. act[c].s \in Server
        BY <3>1, HasGate
      <3> QED BY <2>4, <3>2, RefusalsKeep
    <2>5. CASE Mcp!Open(c) \/ Mcp!OpenFails(c) \/ Mcp!Opened(c)
      BY <2>5, OpenKeeps, OpenFailsKeeps, OpenedKeeps
    <2>6. CASE Mcp!Noted(c, TRUE) \/ Mcp!Use(c, TRUE) \/ Mcp!Listed(c)
      BY <2>6, UsesKeep
    <2>7. CASE Mcp!Noted(c, FALSE) \/ Mcp!Use(c, FALSE)
      BY <2>7, UsesKeep
    <2>8. CASE \E s \in Server, op \in {"list", "search", "call"} : Mcp!Call(c, op, s)
      BY <2>8, ServerCallKeeps
    <2> QED BY <1>1, <2>1, <2>2, <2>3, <2>4, <2>5, <2>6, <2>7, <2>8 DEF Mcp!CallMoves
  <1>2. ASSUME NEW k \in Mcp!Actor, Mcp!ActorMoves(k) \/ Mcp!ClosedUnnoted(k) \/ Mcp!Late(k) PROVE McpInv'
    <2>1. CASE Mcp!StopTakesGate(k) \/ Mcp!StopEnds(k) \/ Mcp!NotClosed(k) \/ Mcp!Late(k)
      BY <2>1, StopTakesGateKeeps, StopEndsKeeps, NotClosedKeeps, LateKeeps
    <2>2. CASE \E s \in Server : Mcp!NothingToStop(k, s) \/ Mcp!CloseOne(k, s)
      BY <2>2, NothingToStopKeeps, CloseOneKeeps
    <2>3. CASE Mcp!Closed(k, TRUE) \/ Mcp!ClosedUnnoted(k)
      BY <2>3, ClosedKeeps
    <2>4. CASE Mcp!Closed(k, FALSE)
      BY <2>4, ClosedKeeps
    <2> QED BY <1>2, <2>1, <2>2, <2>3, <2>4 DEF Mcp!ActorMoves
  <1>3. ASSUME NEW w \in DOMAIN worker, Mcp!Drop(w) \/ Mcp!Exit(w, FALSE) \/ Mcp!Exit(w, TRUE) \/ Mcp!Unheard(w) PROVE McpInv'
    <2>1. CASE Mcp!Drop(w) \/ Mcp!Exit(w, FALSE) \/ Mcp!Unheard(w)
      BY <2>1, WorkersKeep
    <2>2. CASE Mcp!Exit(w, TRUE)
      BY <2>2, WorkersKeep
    <2> QED BY <1>3, <2>1, <2>2
  <1>4. CASE Mcp!OnRunStart \/ Mcp!CancelRun \/ Mcp!OnRunEnd \/ Mcp!Close
    BY <1>4, RunStartsKeeps, RunEndsKeeps, PluginCloseKeeps
  <1> QED BY <1>1, <1>2, <1>3, <1>4 DEF Mcp!Next

\* A server has the worker that some call opened for it in this run, until the
\* worker is gone: what calls, stoppers and workers rely on about each other.
THEOREM McpInvariant == Mcp!McpAssumption /\ Mcp!Spec => []McpInv
  <1> SUFFICES ASSUME Mcp!McpAssumption PROVE Mcp!Spec => []McpInv
    OBVIOUS
  <1>1. Mcp!Init => McpInv
    BY McpInit
  <1>2. ASSUME McpInv, [Mcp!Next]_Mcp!vars PROVE McpInv'
    BY <1>2, McpSteps, McpStutters
  <1> QED BY <1>1, <1>2, PTL DEF Mcp!Spec

\* No worker is let go before it is gone, a server is started once in a run,
\* nothing of an earlier run gets into the journal of this one, and a Close
\* without an error hides nothing: for any callers, servers, runs and faults.
THEOREM McpOwnsWorkers ==
    Mcp!McpAssumption /\ Mcp!Spec =>
        [](Mcp!McpTypeOK /\ Mcp!NothingForgotten /\ Mcp!NoReconnect /\ Mcp!RecordsAreOfTheRun /\ Mcp!ClosedIsEmpty)
  <1>1. ASSUME McpInv PROVE Mcp!McpTypeOK
    <2>1. plug.run \in {0, run.n} /\ mcpGate \in Mcp!Actor \cup {Nobody}
      BY <1>1 DEF McpInv, McpTyped, RunHolds
    <2>2. \A w \in DOMAIN worker : worker[w].proc \in {"up", "going", "gone", "stuck"}
      BY <1>1, McpFacts DEF WorkerRec
    <2>3. ASSUME NEW s \in Server PROVE srv[s].worker \in 0 .. Len(worker)
      <3>1. Len(worker) \in Nat /\ DOMAIN worker = 1 .. Len(worker) /\ SrvHolds(s)
        BY <1>1, McpFacts DEF McpInv
      <3>2. CASE srv[s].worker = 0
        BY <3>1, <3>2
      <3>3. CASE srv[s].worker # 0
        <4>1. srv[s].worker \in 1 .. Len(worker)
          BY <3>1, <3>3 DEF SrvHolds
        <4> QED BY <4>1, <3>1
      <3> QED BY <3>2, <3>3
    <2>4. ASSUME NEW k \in Mcp!Actor PROVE act[k].w \in 0 .. Len(worker) /\ act[k].todo \subseteq Server
      BY <1>1, McpFacts DEF McpInv, ActHolds, ActRec
    <2> QED BY <2>1, <2>2, <2>3, <2>4 DEF Mcp!McpTypeOK
  <1>2. ASSUME McpInv PROVE Mcp!NothingForgotten /\ Mcp!RecordsAreOfTheRun
    BY <1>2 DEF McpInv, WorkerHolds, Mcp!NothingForgotten, Mcp!RecordsAreOfTheRun
  <1>3. ASSUME McpInv PROVE Mcp!ClosedIsEmpty
    <2> SUFFICES ASSUME quiet PROVE /\ \A w \in DOMAIN worker : ~Mcp!Left(w) /\ ~(worker[w].owned /\ worker[w].unheard)
                                    /\ \A c \in Caller : act[c].pc \in {"idle", "gate"}
      BY DEF Mcp!ClosedIsEmpty
    <2>1. \A c \in Caller : act[c].pc \in {"idle", "gate"}
      BY <1>3 DEF McpInv, QuietHolds, McpWaits
    <2>2. ASSUME NEW w \in DOMAIN worker PROVE ~Mcp!Left(w) /\ ~(worker[w].owned /\ worker[w].unheard)
      <3>1. WorkerHolds(w) /\ worker[w].s \in Server /\ w # 0
        BY <1>3, McpFacts DEF McpInv, WorkerRec
      <3> QED BY <3>1, <1>3 DEF McpInv, QuietHolds, WorkerHolds
    <2> QED BY <2>1, <2>2
  <1>4. McpInv => Mcp!McpTypeOK /\ Mcp!NothingForgotten /\ Mcp!NoReconnect /\ Mcp!RecordsAreOfTheRun /\ Mcp!ClosedIsEmpty
    BY <1>1, <1>2, <1>3 DEF McpInv
  <1> QED BY <1>4, McpInvariant, PTL

-----------------------------------------------------------------------------
(* The browsers of a run.  In this part run, plug, act and quiet are the   *)
(* variables of BrowserRuns.                                               *)

CONSTANTS Id, MaxInst, BrowserOps
VARIABLES browserGate, inst, browserFaults

Br == INSTANCE BrowserRuns WITH Ops <- BrowserOps, gate <- browserGate, faults <- browserFaults

BrWaits    == {"idle", "gate"}
BrHandle   == {"token", "reap", "remove", "drain"}
BrBegin    == {"admitting", "reporting", "starting"}
BrCallStep == BrBegin \cup {"asking", "connecting", "stopping", "using", "done", "failed", "all", "closed"} \cup BrHandle
BrStopStep == {"closing manager", "all", "closed", "emptied", "kept"} \cup BrHandle
BrProcs    == {"none", "alive", "closing", "reaped", "stuck"}
BrActRec   == [pc : BrWaits \cup BrCallStep \cup BrStopStep, op : {"", "start", "stop", "use", "all"}, run : Nat,
             i : Nat, todo : SUBSET Nat, err : BOOLEAN]
BrInstRec  == [run : Nat, id : Id, listed : BOOLEAN, dir : BOOLEAN, proc : BrProcs, ready : BOOLEAN, bad : BOOLEAN,
             drained : BOOLEAN, writing : BOOLEAN, holder : Br!Actor \cup {Nobody}]
BrPlugRec  == [run : Nat, live : BOOLEAN, failed : BOOLEAN, shut : BOOLEAN, closed : BOOLEAN]

BrTyped ==
    /\ run \in [n : Nat, on : BOOLEAN] /\ plug \in BrPlugRec
    /\ browserGate \in Br!Actor \cup {Nobody}
    /\ act \in [Br!Actor -> BrActRec]
    /\ inst \in Seq(BrInstRec)
    /\ quiet \in BOOLEAN

BrRunHolds ==
    /\ plug.run \in {0, run.n}
    /\ run.on => run.n # 0 /\ act["end"].pc = "idle"
    /\ act["close"].pc # "idle" => plug.closed /\ plug.run \in {0, act["close"].run}
    /\ quiet => plug.closed /\ plug.run = 0

\* A browser is listed as long as its profile is there, and until nothing of it is left.
BrInstHolds(b, n) ==
    /\ b.dir = b.listed
    /\ b.listed => b.run = n /\ n # 0
    /\ ~b.listed => b.proc = "none" \/ (b.proc = "reaped" /\ b.drained)
    /\ b.drained => b.proc \in {"reaped", "stuck"} /\ ~b.writing
    /\ b.writing => b.proc # "none"

BrBegun(b) == b.ready \/ b.proc # "none"

\* Until a browser is begun it is the call's that starts it: nobody else stops it.
BrActHolds(k) ==
    /\ act[k].i \in 0 .. Len(inst) /\ act[k].todo \subseteq DOMAIN inst
    /\ act[k].pc \in BrHandle => act[k].i # 0 /\ BrBegun(inst[act[k].i])
    /\ act[k].pc = "remove" => inst[act[k].i].proc = "none"
    /\ act[k].pc = "drain" => inst[act[k].i].proc = "reaped"

BrCallHolds(c) ==
    /\ act[c].pc \in BrWaits \cup BrCallStep
    /\ browserGate = c <=> act[c].pc \notin BrWaits
    /\ act[c].pc # "idle" => act[c].run # 0
    /\ act[c].pc \notin BrWaits => plug.run = act[c].run
    /\ act[c].pc \in {"starting", "connecting"} => act[c].op = "start"
    /\ act[c].pc \in BrBegin /\ act[c].op = "start" =>
         /\ act[c].i # 0 /\ inst[act[c].i].listed
         /\ ~BrBegun(inst[act[c].i])
    /\ act[c].pc = "connecting" => act[c].i # 0 /\ inst[act[c].i].proc # "none"

BrStopHolds(k) ==
    /\ act[k].pc \in BrStopStep \cup {"idle"}
    /\ browserGate = k <=> act[k].pc \in {"emptied", "kept"}
    /\ act[k].pc # "idle" => act[k].run # 0
    /\ act[k].pc \in BrHandle \cup {"all"} => act[k].op = "all"
    /\ act[k].pc \in BrHandle \cup {"all", "closed"} /\ ~act[k].err /\ plug.run = act[k].run =>
         plug.shut /\ \A i \in DOMAIN inst : inst[i].listed => i \in act[k].todo
    /\ act[k].pc = "closed" /\ ~act[k].err => act[k].todo = {}
    /\ act[k].pc = "emptied" => plug.run = act[k].run /\ \A i \in DOMAIN inst : ~inst[i].listed
    /\ act[k].pc = "kept" => act[k].err

BrBudgetHolds ==
    /\ Cardinality({i \in DOMAIN inst : inst[i].listed}) <= MaxListed
    /\ \A i, j \in DOMAIN inst : inst[i].listed /\ inst[j].listed /\ inst[i].id = inst[j].id => i = j

BrInv == /\ BrTyped /\ BrRunHolds /\ BrBudgetHolds
         /\ \A i \in DOMAIN inst : BrInstHolds(inst[i], plug.run)
         /\ \A k \in Br!Actor : BrActHolds(k)
         /\ \A c \in Caller : BrCallHolds(c)
         /\ \A k \in Br!Stopper : BrStopHolds(k)

StartsIt(k, i) == act[k].pc \in BrBegin /\ act[k].op = "start" /\ act[k].i = i

\* What a step may make of a browser.
BrGrows(b, q, mine) ==
    /\ q.id = b.id /\ q.run = b.run /\ (q.listed => b.listed)
    /\ BrBegun(b) => BrBegun(q)
    /\ BrBegun(b) /\ b.proc = "none" => q.proc = "none"
    /\ b.proc # "none" => q.proc # "none"
    /\ b.proc = "reaped" => q.proc = "reaped"
    /\ ~BrBegun(b) /\ ~mine => q.listed = b.listed /\ ~BrBegun(q)

BrowsersEvolve(k) ==
    /\ inst' \in Seq(BrInstRec) /\ Len(inst') = Len(inst)
    /\ \A i \in DOMAIN inst : BrInstHolds(inst'[i], plug.run) /\ BrGrows(inst[i], inst'[i], StartsIt(k, i))

LEMMA BrFacts ==
  ASSUME BrInv
  PROVE  /\ inst \in Seq(BrInstRec) /\ Len(inst) \in Nat /\ DOMAIN inst = 1 .. Len(inst)
         /\ \A i \in DOMAIN inst : inst[i] \in BrInstRec /\ i # 0 /\ i \in Nat
         /\ \A k \in Br!Actor : act[k] \in BrActRec
         /\ act \in [Br!Actor -> BrActRec] /\ plug \in BrPlugRec /\ run \in [n : Nat, on : BOOLEAN]
  BY DEF BrInv, BrTyped

LEMMA BrActorsAre ==
  ASSUME Br!BrowserAssumption
  PROVE  /\ "end" \in Br!Actor /\ "close" \in Br!Actor /\ "end" \in Br!Stopper /\ "close" \in Br!Stopper
         /\ \A c \in Caller : c \in Br!Actor /\ c \notin Br!Stopper
         /\ \A k \in Br!Actor : k # Nobody /\ (k \in Br!Stopper \/ k \in Caller)
         /\ \A k \in Br!Stopper : k \in Br!Actor /\ k \notin Caller
  BY DEF Br!BrowserAssumption, Br!Actor, Br!Stopper

LEMMA BrUntouched == ASSUME NEW b \in BrInstRec, NEW mine \in BOOLEAN PROVE BrGrows(b, b, mine)
  BY DEF BrGrows

LEMMA StartsItIs == \A k, i : StartsIt(k, i) \in BOOLEAN
  BY DEF StartsIt

LEMMA BrowsersStay == ASSUME BrInv, inst' = inst, NEW k PROVE BrowsersEvolve(k)
  <1> SUFFICES ASSUME NEW i \in DOMAIN inst
               PROVE  BrInstHolds(inst[i], plug.run) /\ BrGrows(inst[i], inst[i], StartsIt(k, i))
    BY BrFacts DEF BrowsersEvolve
  <1>1. inst[i] \in BrInstRec
    BY BrFacts
  <1> QED BY <1>1, BrUntouched, StartsItIs DEF BrInv

LEMMA OneBrowserEvolves ==
  ASSUME BrInv, NEW k, NEW i \in DOMAIN inst, NEW q \in BrInstRec, inst' = [inst EXCEPT ![i] = q],
         BrInstHolds(q, plug.run), BrGrows(inst[i], q, StartsIt(k, i))
  PROVE  BrowsersEvolve(k) /\ inst'[i] = q
  <1>1. inst \in Seq(BrInstRec) /\ DOMAIN inst = 1 .. Len(inst) /\ Len(inst) \in Nat
    BY BrFacts
  <1>2. inst' \in Seq(BrInstRec) /\ Len(inst') = Len(inst) /\ \A j \in DOMAIN inst : inst'[j] = IF j = i THEN q ELSE inst[j]
    BY <1>1
  <1>3. ASSUME NEW j \in DOMAIN inst PROVE BrInstHolds(inst'[j], plug.run) /\ BrGrows(inst[j], inst'[j], StartsIt(k, j))
    <2>1. CASE j = i
      BY <2>1, <1>2
    <2>2. CASE j # i
      <3>1. inst[j] \in BrInstRec /\ inst'[j] = inst[j] /\ BrInstHolds(inst[j], plug.run)
        BY <2>2, <1>2, BrFacts DEF BrInv
      <3> QED BY <3>1, BrUntouched, StartsItIs
    <2> QED BY <2>1, <2>2
  <1> QED BY <1>2, <1>3 DEF BrowsersEvolve

\* Fewer browsers are listed.
LEMMA BrBudgetKeeps == ASSUME Br!BrowserAssumption, BrInv, NEW k, BrowsersEvolve(k) PROVE BrBudgetHolds'
  <1> DEFINE L == {i \in DOMAIN inst : inst[i].listed}
             M == {i \in DOMAIN inst' : inst'[i].listed}
  <1>1. DOMAIN inst = 1 .. Len(inst) /\ Len(inst) \in Nat /\ DOMAIN inst' = DOMAIN inst
    BY BrFacts DEF BrowsersEvolve
  <1>2. M \subseteq L /\ \A i \in DOMAIN inst : inst'[i].id = inst[i].id
    BY <1>1 DEF BrowsersEvolve, BrGrows
  <1>3. IsFiniteSet(L)
    <2>1. IsFiniteSet(1 .. Len(inst))
      BY <1>1, FS_Interval
    <2> QED BY <2>1, <1>1, FS_Subset
  <1>4. Cardinality(M) <= Cardinality(L) /\ Cardinality(M) \in Nat /\ Cardinality(L) \in Nat
    BY <1>2, <1>3, FS_Subset, FS_CardinalityType
  <1>5. Cardinality(L) <= MaxListed /\ MaxListed \in Nat
    BY DEF BrInv, BrBudgetHolds, Br!BrowserAssumption
  <1>6. Cardinality(M) <= MaxListed
    BY <1>4, <1>5
  <1>7. \A i, j \in DOMAIN inst' : inst'[i].listed /\ inst'[j].listed /\ inst'[i].id = inst'[j].id => i = j
    BY <1>1, <1>2 DEF BrInv, BrBudgetHolds
  <1> QED BY <1>6, <1>7 DEF BrBudgetHolds

\* What one actor does while the plugin stays with its run: the browsers change
\* as they may, and what it is doing then is right for what it knows.
LEMMA BrMovesKeep ==
  ASSUME Br!BrowserAssumption, BrInv, NEW k \in Br!Actor, NEW r \in BrActRec, act' = [act EXCEPT ![k] = r],
         run' \in [n : Nat, on : BOOLEAN], run'.n = run.n, run'.on => run.on,
         plug' \in BrPlugRec, plug'.run = plug.run, plug.closed => plug'.closed, plug.shut => plug'.shut,
         quiet' \in BOOLEAN, quiet' => quiet \/ (plug'.closed /\ plug.run = 0),
         browserGate' = browserGate \/ (browserGate' = k /\ browserGate = Nobody) \/ (browserGate' = Nobody /\ browserGate = k),
         BrowsersEvolve(k), BrActHolds(k)', k \in Caller => BrCallHolds(k)', k \in Br!Stopper => BrStopHolds(k)',
         k = "end" /\ run'.on => r.pc = "idle",
         k = "close" /\ r.pc # "idle" => plug'.closed /\ plug.run \in {0, r.run}
  PROVE  BrInv'
  <1>1. /\ act' \in [Br!Actor -> BrActRec] /\ act'[k] = r /\ \A j \in Br!Actor \ {k} : act'[j] = act[j]
    BY BrFacts
  <1>2. browserGate' \in Br!Actor \cup {Nobody}
    BY DEF BrInv, BrTyped
  <1>3. DOMAIN inst = 1 .. Len(inst) /\ Len(inst) \in Nat /\ DOMAIN inst' = DOMAIN inst /\ Len(inst') = Len(inst)
        /\ inst' \in Seq(BrInstRec)
    BY BrFacts DEF BrowsersEvolve
  <1>4. BrTyped'
    BY <1>1, <1>2, <1>3 DEF BrInv, BrTyped
  <1>5. BrRunHolds'
    BY <1>1, BrActorsAre DEF BrInv, BrRunHolds
  <1>6. BrBudgetHolds'
    BY BrBudgetKeeps
  <1>7. \A i \in DOMAIN inst' : BrInstHolds(inst'[i], plug'.run)
    BY <1>3 DEF BrowsersEvolve
  <1>8. ASSUME NEW j \in Br!Actor, NEW i \in DOMAIN inst, j # k
        PROVE  /\ BrBegun(inst[i]) => BrBegun(inst'[i])
               /\ BrBegun(inst[i]) /\ inst[i].proc = "none" => inst'[i].proc = "none"
               /\ inst[i].proc # "none" => inst'[i].proc # "none"
               /\ inst[i].proc = "reaped" => inst'[i].proc = "reaped"
    BY DEF BrowsersEvolve, BrGrows
  <1>9. ASSUME NEW j \in Br!Actor PROVE BrActHolds(j)'
    <2>1. CASE j = k
      BY <2>1
    <2>2. CASE j # k
      <3>1. BrActHolds(j) /\ act'[j] = act[j]
        BY <2>2, <1>1 DEF BrInv
      <3>2. CASE act[j].pc \in BrHandle
        <4>1. act[j].i \in DOMAIN inst
          <5>1. act[j].i \in 0 .. Len(inst) /\ act[j].i # 0
            BY <3>1, <3>2 DEF BrActHolds
          <5> QED BY <5>1, <1>3
        <4> QED BY <4>1, <3>1, <3>2, <2>2, <1>3, <1>8 DEF BrActHolds
      <3>3. CASE act[j].pc \notin BrHandle
        BY <3>1, <3>3, <1>3 DEF BrActHolds, BrHandle
      <3> QED BY <3>2, <3>3
    <2> QED BY <2>1, <2>2
  <1>10. ASSUME NEW c \in Caller PROVE BrCallHolds(c)'
    <2>1. CASE c = k
      BY <2>1
    <2>2. CASE c # k
      <3>1. BrCallHolds(c) /\ BrActHolds(c) /\ act'[c] = act[c] /\ c # Nobody /\ k # Nobody /\ c \in Br!Actor
        BY <2>2, <1>1, BrActorsAre DEF BrInv
      <3>2. browserGate' = c <=> browserGate = c
        BY <3>1, <2>2
      <3>3. CASE act[c].pc \in BrBegin /\ act[c].op = "start"
        <4>1. act[c].i \in DOMAIN inst /\ inst[act[c].i].listed /\ ~BrBegun(inst[act[c].i])
          <5>1. act[c].i \in 0 .. Len(inst) /\ act[c].i # 0
            BY <3>1, <3>3 DEF BrActHolds, BrCallHolds
          <5> QED BY <5>1, <3>1, <3>3, <1>3 DEF BrCallHolds
        <4>2. browserGate = c
          BY <3>1, <3>3 DEF BrCallHolds, BrBegin, BrWaits
        <4>3. ~StartsIt(k, act[c].i)
          <5>1. CASE k \in Caller
            BY <5>1, <4>2, <2>2 DEF BrInv, BrCallHolds, StartsIt, BrBegin, BrWaits
          <5>2. CASE k \in Br!Stopper
            BY <5>2 DEF BrInv, BrStopHolds, StartsIt, BrBegin, BrStopStep, BrHandle
          <5> QED BY <5>1, <5>2, BrActorsAre
        <4>4. inst'[act[c].i].listed /\ ~BrBegun(inst'[act[c].i])
          BY <4>1, <4>3 DEF BrowsersEvolve, BrGrows
        <4> QED BY <4>4, <3>1, <3>2, <3>3 DEF BrCallHolds, BrBegin
      <3>4. CASE act[c].pc = "connecting"
        <4>1. act[c].i \in DOMAIN inst /\ inst[act[c].i].proc # "none"
          <5>1. act[c].i \in 0 .. Len(inst) /\ act[c].i # 0
            BY <3>1, <3>4 DEF BrActHolds, BrCallHolds
          <5> QED BY <5>1, <3>1, <3>4, <1>3 DEF BrCallHolds
        <4>2. inst'[act[c].i].proc # "none"
          BY <4>1, <2>2, <3>1, <1>8
        <4> QED BY <4>2, <3>1, <3>2, <3>4 DEF BrCallHolds, BrBegin
      <3>5. CASE ~(act[c].pc \in BrBegin /\ act[c].op = "start") /\ act[c].pc # "connecting"
        BY <3>1, <3>2, <3>5 DEF BrCallHolds
      <3> QED BY <3>3, <3>4, <3>5
    <2> QED BY <2>1, <2>2
  <1>11. ASSUME NEW j \in Br!Stopper PROVE BrStopHolds(j)'
    <2>1. CASE j = k
      BY <2>1
    <2>2. CASE j # k
      <3>1. BrStopHolds(j) /\ act'[j] = act[j] /\ j # Nobody /\ k # Nobody /\ j \in Br!Actor
        BY <2>2, <1>1, BrActorsAre DEF BrInv
      <3>2. browserGate' = j <=> browserGate = j
        BY <3>1, <2>2
      <3>3. \A i \in DOMAIN inst : inst'[i].listed => inst[i].listed
        BY DEF BrowsersEvolve, BrGrows
      <3>4. act[j].pc \in BrHandle \cup {"all", "closed"} /\ ~act[j].err /\ plug'.run = act[j].run =>
              plug'.shut /\ \A i \in DOMAIN inst' : inst'[i].listed => i \in act[j].todo
        BY <3>1, <3>3, <1>3 DEF BrStopHolds
      <3>5. act[j].pc = "emptied" => plug'.run = act[j].run /\ \A i \in DOMAIN inst' : ~inst'[i].listed
        BY <3>1, <3>3, <1>3 DEF BrStopHolds
      <3> QED BY <3>1, <3>2, <3>4, <3>5 DEF BrStopHolds
    <2> QED BY <2>1, <2>2
  <1> QED BY <1>4, <1>5, <1>6, <1>7, <1>9, <1>10, <1>11 DEF BrInv

\* Nobody does anything but the processes, or the kernel that cancels a run.
LEMMA BrNoActorKeeps ==
  ASSUME Br!BrowserAssumption, BrInv, UNCHANGED <<browserGate, act, quiet>>, BrowsersEvolve("end"),
         run' \in [n : Nat, on : BOOLEAN], run'.n = run.n, run'.on => run.on,
         plug' \in BrPlugRec, plug'.run = plug.run, plug'.closed = plug.closed, plug'.shut = plug.shut
  PROVE  BrInv'
  <1>1. "end" \in Br!Actor /\ "end" \in Br!Stopper /\ "end" \notin Caller /\ act["end"] \in BrActRec
        /\ act' = [act EXCEPT !["end"] = act["end"]] /\ BrActHolds("end") /\ BrStopHolds("end") /\ quiet' \in BOOLEAN
    BY BrActorsAre, BrFacts DEF BrInv, BrTyped
  <1>2. DOMAIN inst = 1 .. Len(inst) /\ Len(inst) \in Nat /\ DOMAIN inst' = DOMAIN inst /\ Len(inst') = Len(inst)
    BY BrFacts DEF BrowsersEvolve
  <1>3. BrActHolds("end")'
    <2>1. CASE act["end"].pc \in BrHandle
      <3>1. act["end"].i \in DOMAIN inst
        <4>1. act["end"].i \in 0 .. Len(inst) /\ act["end"].i # 0
          BY <2>1, <1>1 DEF BrActHolds
        <4> QED BY <4>1, <1>2
      <3> QED BY <3>1, <2>1, <1>1, <1>2 DEF BrActHolds, BrowsersEvolve, BrGrows
    <2>2. CASE act["end"].pc \notin BrHandle
      BY <2>2, <1>1, <1>2 DEF BrActHolds, BrHandle
    <2> QED BY <2>1, <2>2
  <1>4. BrStopHolds("end")'
    <2>1. \A i \in DOMAIN inst : inst'[i].listed => inst[i].listed
      BY DEF BrowsersEvolve, BrGrows
    <2> QED BY <2>1, <1>1, <1>2 DEF BrStopHolds
  <1>5. run'.on => act["end"].pc = "idle"
    BY DEF BrInv, BrRunHolds
  <1> QED BY <1>1, <1>3, <1>4, <1>5, BrMovesKeep


\* What is known of a call with the gate.
LEMMA HasBrowserGate ==
  ASSUME Br!BrowserAssumption, BrInv, NEW c \in Caller, act[c].pc \notin BrWaits
  PROVE  /\ browserGate = c /\ c \in Br!Actor /\ c \notin Br!Stopper /\ act[c] \in BrActRec /\ act[c].pc \in BrCallStep
         /\ act[c].run # 0 /\ plug.run = act[c].run /\ BrCallHolds(c) /\ BrActHolds(c)
         /\ act[c].i \in 0 .. Len(inst) /\ Len(inst) \in Nat /\ act[c].todo \subseteq DOMAIN inst /\ ~quiet
         /\ c # "end" /\ c # "close"
  <1>1. c \in Br!Actor /\ c \notin Br!Stopper /\ BrCallHolds(c) /\ BrActHolds(c) /\ c # "end" /\ c # "close"
    BY BrActorsAre DEF BrInv
  <1>2. browserGate = c /\ act[c].pc \in BrCallStep /\ act[c].run # 0 /\ plug.run = act[c].run
    BY <1>1 DEF BrCallHolds, BrWaits
  <1>3. ~quiet
    BY <1>2 DEF BrInv, BrRunHolds
  <1> QED BY <1>1, <1>2, <1>3, BrFacts DEF BrActHolds

LEMMA BrCallGoes ==
  ASSUME Br!BrowserAssumption, BrInv, NEW c \in Caller, NEW r \in BrActRec, act[c].pc \notin BrWaits,
         r.pc \in BrCallStep, r.run = act[c].run, act' = [act EXCEPT ![c] = r], UNCHANGED <<run, browserGate, quiet>>,
         plug' \in BrPlugRec, plug'.run = plug.run, plug'.closed = plug.closed, plug.shut => plug'.shut,
         BrowsersEvolve(c), r.i \in 0 .. Len(inst), r.todo \subseteq DOMAIN inst,
         r.pc \in {"starting", "connecting"} => r.op = "start",
         r.pc \in BrBegin /\ r.op = "start" => r.i # 0 /\ inst'[r.i].listed /\ ~BrBegun(inst'[r.i]),
         r.pc = "connecting" => r.i # 0 /\ inst'[r.i].proc # "none",
         r.pc \in BrHandle => r.i # 0 /\ BrBegun(inst'[r.i]),
         r.pc = "remove" => inst'[r.i].proc = "none", r.pc = "drain" => inst'[r.i].proc = "reaped"
  PROVE  BrInv'
  <1>1. /\ browserGate = c /\ c \in Br!Actor /\ c \notin Br!Stopper /\ act[c].run # 0 /\ plug.run = act[c].run /\ ~quiet
        /\ c # "end" /\ c # "close" /\ act'[c] = r
    BY HasBrowserGate, BrFacts
  <1>2. DOMAIN inst = 1 .. Len(inst) /\ Len(inst) \in Nat /\ DOMAIN inst' = DOMAIN inst /\ Len(inst') = Len(inst)
        /\ run' \in [n : Nat, on : BOOLEAN] /\ run'.n = run.n
    BY BrFacts DEF BrowsersEvolve
  <1>3. BrActHolds(c)'
    BY <1>1, <1>2 DEF BrActHolds
  <1>4. r.pc \notin BrWaits
    BY DEF BrCallStep, BrWaits, BrBegin, BrHandle
  <1>5. BrCallHolds(c)'
    BY <1>1, <1>4 DEF BrCallHolds
  <1>6. quiet' \in BOOLEAN /\ ~quiet' /\ browserGate' = browserGate /\ (run'.on => run.on) /\ (plug.closed => plug'.closed)
    BY <1>1 DEF BrInv, BrTyped
  <1> QED BY <1>1, <1>2, <1>3, <1>5, <1>6, BrMovesKeep

\* A call returns.
LEMMA BrCallReturns ==
  ASSUME Br!BrowserAssumption, BrInv, NEW c \in Caller, Br!Leaves(c), UNCHANGED <<run, plug, inst, quiet>>
  PROVE  BrInv'
  <1>1. Br!NoAct \in BrActRec /\ Br!NoAct.pc = "idle" /\ Br!NoAct.i = 0 /\ Br!NoAct.todo = {}
    BY DEF Br!NoAct, BrActRec, BrWaits
  <1>2. act' = [act EXCEPT ![c] = Br!NoAct] /\ browserGate' = IF browserGate = c THEN Nobody ELSE browserGate
    BY DEF Br!Leaves
  <1>3. c \in Br!Actor /\ c \notin Br!Stopper /\ c # Nobody /\ c # "end" /\ c # "close" /\ act'[c] = Br!NoAct /\ Len(inst) \in Nat
        /\ plug \in BrPlugRec /\ run \in [n : Nat, on : BOOLEAN] /\ quiet \in BOOLEAN
    BY <1>2, BrActorsAre, BrFacts DEF BrInv, BrTyped
  <1>4. BrActHolds(c)' /\ BrCallHolds(c)'
    BY <1>1, <1>2, <1>3 DEF BrActHolds, BrCallHolds, BrWaits, BrHandle, BrBegin
  <1> QED BY <1>1, <1>2, <1>3, <1>4, BrowsersStay, BrMovesKeep

LEMMA BrCallKeeps ==
  ASSUME Br!BrowserAssumption, BrInv, NEW c \in Caller, NEW op \in {"start", "stop", "use"}, Br!Call(c, op)
  PROVE  BrInv'
  <1>1. PICK r : r = [Br!NoAct EXCEPT !.pc = "gate", !.op = op, !.run = run.n]
    OBVIOUS
  <1>2. /\ act' = [act EXCEPT ![c] = r] /\ act[c].pc = "idle" /\ run.on /\ UNCHANGED <<run, plug, browserGate, inst, quiet>>
    BY <1>1 DEF Br!Call
  <1>3. c \in Br!Actor /\ c \notin Br!Stopper /\ c # "end" /\ c # "close" /\ Len(inst) \in Nat /\ run.n \in Nat /\ run.n # 0
        /\ plug \in BrPlugRec /\ run \in [n : Nat, on : BOOLEAN] /\ quiet \in BOOLEAN /\ act \in [Br!Actor -> BrActRec]
    BY <1>2, BrActorsAre, BrFacts DEF BrInv, BrTyped, BrRunHolds
  <1>4. r \in BrActRec /\ r.pc = "gate" /\ r.run = run.n /\ r.i = 0 /\ r.todo = {}
    BY <1>1, <1>3 DEF BrActRec, Br!NoAct, BrWaits
  <1>5. act'[c] = r /\ browserGate # c
    BY <1>2, <1>3 DEF BrInv, BrCallHolds, BrWaits
  <1>6. BrActHolds(c)' /\ BrCallHolds(c)'
    BY <1>2, <1>3, <1>4, <1>5 DEF BrActHolds, BrCallHolds, BrWaits, BrHandle, BrBegin
  <1> QED BY <1>2, <1>3, <1>4, <1>6, BrowsersStay, BrMovesKeep

LEMMA BrGatesKeep ==
  ASSUME Br!BrowserAssumption, BrInv, NEW c \in Caller, Br!TakeGate(c) \/ Br!GiveUp(c) \/ Br!Returns(c)
  PROVE  BrInv'
  <1>1. CASE Br!TakeGate(c) /\ Br!Active(c)
    <2>1. PICK r : r = [act[c] EXCEPT !.pc = "asking"]
      OBVIOUS
    <2>2. /\ act[c].pc = "gate" /\ browserGate = Nobody /\ browserGate' = c /\ act' = [act EXCEPT ![c] = r]
          /\ UNCHANGED <<run, plug, inst, quiet>> /\ plug.run = act[c].run
      BY <1>1, <2>1 DEF Br!TakeGate, Br!Goes, Br!Active
    <2>3. /\ c \in Br!Actor /\ c \notin Br!Stopper /\ c # "end" /\ c # "close" /\ act[c] \in BrActRec /\ act \in [Br!Actor -> BrActRec]
          /\ BrCallHolds(c) /\ BrActHolds(c) /\ plug \in BrPlugRec /\ run \in [n : Nat, on : BOOLEAN] /\ quiet \in BOOLEAN
      BY BrActorsAre, BrFacts DEF BrInv, BrTyped
    <2>4. r \in BrActRec /\ r.pc = "asking" /\ r.run = act[c].run /\ r.i = act[c].i /\ r.todo = act[c].todo /\ act'[c] = r
      BY <2>1, <2>2, <2>3 DEF BrActRec, BrCallStep
    <2>5. BrActHolds(c)'
      BY <2>2, <2>3, <2>4 DEF BrActHolds, BrHandle
    <2>6. BrCallHolds(c)'
      BY <2>2, <2>3, <2>4 DEF BrCallHolds, BrCallStep, BrWaits, BrBegin
    <2> QED BY <2>2, <2>3, <2>4, <2>5, <2>6, BrowsersStay, BrMovesKeep
  <1>2. CASE (Br!TakeGate(c) /\ ~Br!Active(c)) \/ Br!GiveUp(c) \/ Br!Returns(c)
    <2>1. Br!Leaves(c) /\ UNCHANGED <<run, plug, inst, quiet>>
      BY <1>2 DEF Br!TakeGate, Br!GiveUp, Br!Returns
    <2> QED BY <2>1, BrCallReturns
  <1> QED BY <1>1, <1>2

\* Of a call alone.
LEMMA BrPassesKeep ==
  ASSUME Br!BrowserAssumption, BrInv, NEW c \in Caller, NEW id, NEW b \in BOOLEAN,
         Br!Authorized(c) \/ Br!StartRefused(c, id) \/ Br!Check(c) \/ Br!Admitted(c) \/ Br!Used(c, b)
  PROVE  BrInv'
  <1>1. /\ act[c].pc \notin BrWaits /\ UNCHANGED <<run, plug, browserGate, inst, quiet>>
    BY DEF Br!Authorized, Br!StartRefused, Br!Check, Br!Admitted, Br!Used, BrWaits
  <1>2. PICK p \in {"admitting", "failed", "reporting", "starting", "stopping", "using", "done"} :
          /\ act' = [act EXCEPT ![c].pc = p]
          /\ p = "starting" => act[c].op = "start"
          /\ p \in BrBegin /\ act[c].op = "start" => act[c].pc \in BrBegin
    <2>1. CASE Br!Authorized(c)
      BY <2>1 DEF Br!Authorized, Br!Goes
    <2>2. CASE Br!StartRefused(c, id)
      BY <2>2 DEF Br!StartRefused, Br!Goes, BrBegin
    <2>3. CASE Br!Check(c)
      BY <2>3 DEF Br!Check, Br!Goes, BrBegin
    <2>4. CASE Br!Admitted(c)
      BY <2>4 DEF Br!Admitted, Br!Goes, BrBegin
    <2>5. CASE Br!Used(c, b)
      BY <2>5 DEF Br!Used, Br!Goes, BrBegin
    <2> QED BY <2>1, <2>2, <2>3, <2>4, <2>5
  <1>3. PICK r : r = [act[c] EXCEPT !.pc = p]
    OBVIOUS
  <1>4. /\ act[c] \in BrActRec /\ BrCallHolds(c) /\ act[c].i \in 0 .. Len(inst) /\ act[c].todo \subseteq DOMAIN inst /\ plug \in BrPlugRec
    BY <1>1, HasBrowserGate, BrFacts
  <1>5. r \in BrActRec /\ r.pc = p /\ r.run = act[c].run /\ r.i = act[c].i /\ r.todo = act[c].todo /\ r.op = act[c].op
        /\ act' = [act EXCEPT ![c] = r] /\ r.pc \in BrCallStep
    BY <1>2, <1>3, <1>4 DEF BrActRec, BrCallStep, BrBegin
  <1>6. r.pc \notin BrHandle /\ r.pc # "connecting"
    BY <1>5 DEF BrHandle
  <1>7. r.pc \in BrBegin /\ r.op = "start" => r.i # 0 /\ inst'[r.i].listed /\ ~BrBegun(inst'[r.i])
    BY <1>1, <1>2, <1>4, <1>5 DEF BrCallHolds
  <1>8. BrowsersEvolve(c) /\ (r.pc = "starting" => r.op = "start") /\ r.pc \notin {"remove", "drain"}
    BY <1>1, <1>2, <1>5, <1>6, BrowsersStay DEF BrHandle
  <1> QED BY <1>1, <1>4, <1>5, <1>6, <1>7, <1>8, BrCallGoes

\* A call begins to stop a browser: its own, which did not come up, or one that did.
LEMMA BrStopsBegin ==
  ASSUME Br!BrowserAssumption, BrInv, NEW c \in Caller, NEW i \in DOMAIN inst, Br!ConnectFails(c) \/ Br!StopNamed(c, i)
  PROVE  BrInv'
  <1>1. act[c].pc \notin BrWaits /\ UNCHANGED <<run, plug, browserGate, inst, quiet>> /\ act[c].pc \in {"connecting", "stopping"}
    BY DEF Br!ConnectFails, Br!StopNamed, BrWaits
  <1>2. /\ act[c] \in BrActRec /\ BrCallHolds(c) /\ act[c].i \in 0 .. Len(inst) /\ act[c].todo \subseteq DOMAIN inst /\ plug \in BrPlugRec
    BY <1>1, HasBrowserGate, BrFacts
  <1>3. PICK x \in DOMAIN inst : act' = [act EXCEPT ![c].pc = "token", ![c].i = x] /\ BrBegun(inst[x])
    <2>1. CASE Br!ConnectFails(c)
      <3>1. act[c].pc = "connecting" /\ act' = [act EXCEPT ![c].pc = "token", ![c].i = act[c].i]
        BY <2>1 DEF Br!ConnectFails, Br!Stops
      <3>2. act[c].i # 0 /\ BrBegun(inst[act[c].i])
        BY <3>1, <1>2 DEF BrCallHolds, BrBegun
      <3>3. act[c].i \in DOMAIN inst
        BY <3>2, <1>2, BrFacts
      <3> QED BY <3>1, <3>2, <3>3
    <2>2. CASE Br!StopNamed(c, i)
      BY <2>2 DEF Br!StopNamed, Br!Stops, BrBegun
    <2> QED BY <2>1, <2>2
  <1>4. PICK r : r = [act[c] EXCEPT !.pc = "token", !.i = x]
    OBVIOUS
  <1>5. r \in BrActRec /\ r.pc = "token" /\ r.run = act[c].run /\ r.i = x /\ r.todo = act[c].todo /\ x # 0 /\ x \in 0 .. Len(inst)
    <2>1. x \in Nat /\ x # 0 /\ x \in 0 .. Len(inst)
      BY BrFacts
    <2> QED BY <2>1, <1>2, <1>4 DEF BrActRec, BrCallStep, BrHandle
  <1>6. act' = [act EXCEPT ![c] = r]
    BY <1>2, <1>3, <1>4 DEF BrActRec
  <1>7. r.pc \in BrCallStep /\ r.pc \notin BrBegin
    BY <1>5 DEF BrCallStep, BrHandle, BrBegin
  <1> QED BY <1>1, <1>2, <1>3, <1>5, <1>6, <1>7, BrowsersStay, BrCallGoes

\* The browser a call starts.
LEMMA BrStartsKeep ==
  ASSUME Br!BrowserAssumption, BrInv, NEW c \in Caller, NEW b \in BOOLEAN, Br!AdmitFails(c, b) \/ Br!Spawn(c) \/ Br!Connected(c)
  PROVE  BrInv'
  <1>1. act[c].pc \notin BrWaits /\ UNCHANGED <<run, plug, quiet>> /\ act[c].pc \in BrBegin \cup {"connecting"}
    BY DEF Br!AdmitFails, Br!Spawn, Br!Connected, BrWaits, BrBegin
  <1>2. /\ act[c] \in BrActRec /\ BrCallHolds(c) /\ act[c].i \in 0 .. Len(inst) /\ act[c].todo \subseteq DOMAIN inst /\ plug \in BrPlugRec
    BY <1>1, HasBrowserGate, BrFacts
  <1>3. CASE Br!AdmitFails(c, b) /\ act[c].op # "start"
    BY <1>1, <1>3, BrCallReturns DEF Br!AdmitFails
  <1>4. CASE ~(Br!AdmitFails(c, b) /\ act[c].op # "start")
    <2>1. act[c].op = "start" /\ (act[c].pc # "connecting" \/ Br!Connected(c))
      BY <1>2, <1>4 DEF BrCallHolds, Br!AdmitFails, Br!Spawn, Br!Connected
    <2>2. PICK i : i = act[c].i
      OBVIOUS
    <2>3. i # 0 /\ i \in 0 .. Len(inst)
      BY <1>1, <1>2, <2>1, <2>2 DEF BrCallHolds
    <2>4. i \in DOMAIN inst /\ inst[i] \in BrInstRec /\ BrInstHolds(inst[i], plug.run)
      BY <2>3, BrFacts DEF BrInv
    <2>5. PICK q, p :
            /\ inst' = [inst EXCEPT ![i] = q] /\ act' = [act EXCEPT ![c].pc = p] /\ browserGate' = browserGate
            /\ q \in BrInstRec /\ q.id = inst[i].id /\ q.run = inst[i].run /\ q.writing = inst[i].writing
            /\ q.drained = inst[i].drained /\ q.dir = q.listed
            /\ \/ /\ p = "failed" /\ act[c].pc \in BrBegin /\ q.ready /\ q.proc = inst[i].proc
               \/ /\ p = "connecting" /\ act[c].pc = "starting" /\ q.listed = inst[i].listed /\ q.proc = "alive"
               \/ /\ p = "done" /\ act[c].pc = "connecting" /\ q.listed = inst[i].listed /\ q.proc = inst[i].proc
                  /\ q.ready
      <3>1. CASE Br!AdmitFails(c, b)
        <4>1. PICK q : q = [inst[i] EXCEPT !.ready = TRUE, !.listed = ~b, !.dir = ~b]
          OBVIOUS
        <4>2. inst' = [inst EXCEPT ![i] = q] /\ act' = [act EXCEPT ![c].pc = "failed"] /\ browserGate' = browserGate
          BY <3>1, <4>1, <2>1, <2>2 DEF Br!AdmitFails, Br!Unstarted, Br!Goes
        <4>3. act[c].pc \in BrBegin
          BY <3>1 DEF Br!AdmitFails, BrBegin
        <4>4. /\ q \in BrInstRec /\ q.id = inst[i].id /\ q.run = inst[i].run /\ q.writing = inst[i].writing
              /\ q.drained = inst[i].drained /\ q.dir = q.listed /\ q.ready /\ q.proc = inst[i].proc
          BY <4>1, <2>4 DEF BrInstRec, BrProcs, BrInstHolds
        <4> QED BY <4>2, <4>3, <4>4
      <3>2. CASE Br!Spawn(c)
        <4>1. PICK q : q = [inst[i] EXCEPT !.proc = "alive"]
          OBVIOUS
        <4>2. inst' = [inst EXCEPT ![i] = q] /\ act' = [act EXCEPT ![c].pc = "connecting"] /\ browserGate' = browserGate /\ act[c].pc = "starting"
          BY <3>2, <4>1, <2>2 DEF Br!Spawn, Br!Goes
        <4>3. /\ q \in BrInstRec /\ q.id = inst[i].id /\ q.run = inst[i].run /\ q.writing = inst[i].writing
              /\ q.drained = inst[i].drained /\ q.dir = q.listed /\ q.listed = inst[i].listed /\ q.proc = "alive"
          BY <4>1, <2>4 DEF BrInstRec, BrProcs, BrInstHolds
        <4> QED BY <4>2, <4>3
      <3>3. CASE Br!Connected(c)
        <4>1. PICK q : q = [inst[i] EXCEPT !.ready = TRUE]
          OBVIOUS
        <4>2. inst' = [inst EXCEPT ![i] = q] /\ act' = [act EXCEPT ![c].pc = "done"] /\ browserGate' = browserGate /\ act[c].pc = "connecting"
          BY <3>3, <4>1, <2>2 DEF Br!Connected, Br!Goes
        <4>3. /\ q \in BrInstRec /\ q.id = inst[i].id /\ q.run = inst[i].run /\ q.writing = inst[i].writing
              /\ q.drained = inst[i].drained /\ q.dir = q.listed
              /\ q.listed = inst[i].listed /\ q.proc = inst[i].proc /\ q.ready
          BY <4>1, <2>4 DEF BrInstRec, BrProcs, BrInstHolds
        <4> QED BY <4>2, <4>3
      <3> QED BY <3>1, <3>2, <3>3
    <2>6. act[c].pc \in BrBegin => inst[i].listed /\ ~inst[i].ready /\ inst[i].proc = "none"
      BY <1>2, <2>1, <2>2, <2>4 DEF BrCallHolds, BrBegun, BrInstRec
    <2>7. act[c].pc = "connecting" => inst[i].proc # "none"
      BY <1>2, <2>2 DEF BrCallHolds
    <2>8. BrInstHolds(q, plug.run)
      BY <2>4, <2>5, <2>6 DEF BrInstHolds, BrBegin
    <2>9. StartsIt(c, i) <=> act[c].pc \in BrBegin
      BY <2>1, <2>2 DEF StartsIt
    <2>10. BrGrows(inst[i], q, StartsIt(c, i))
      <3>1. CASE act[c].pc \in BrBegin
        BY <3>1, <2>5, <2>6, <2>9 DEF BrGrows, BrBegun, BrBegin
      <3>2. CASE act[c].pc \notin BrBegin
        BY <3>2, <2>5, <2>7, <1>1 DEF BrGrows, BrBegun, BrBegin
      <3> QED BY <3>1, <3>2
    <2>11. BrowsersEvolve(c) /\ inst'[i] = q
      BY <2>4, <2>5, <2>8, <2>10, OneBrowserEvolves
    <2>12. PICK r : r = [act[c] EXCEPT !.pc = p]
      OBVIOUS
    <2>13. r \in BrActRec /\ r.pc = p /\ r.run = act[c].run /\ r.i = i /\ r.todo = act[c].todo /\ r.op = "start"
           /\ act' = [act EXCEPT ![c] = r] /\ r.pc \in BrCallStep
      BY <1>2, <2>1, <2>2, <2>5, <2>12 DEF BrActRec, BrCallStep
    <2>14. r.pc \notin BrHandle \cup BrBegin /\ (r.pc = "connecting" => inst'[r.i].proc # "none")
      BY <2>5, <2>11, <2>13 DEF BrHandle, BrBegin
    <2>15. r.pc # "starting" /\ r.pc \notin {"remove", "drain"}
      BY <2>14 DEF BrHandle, BrBegin
    <2> QED BY <1>1, <1>2, <2>3, <2>5, <2>11, <2>13, <2>14, <2>15, BrCallGoes
  <1> QED BY <1>3, <1>4

LEMMA BrowsersEvolveIs ==
  ASSUME BrInv, NEW k, BrowsersEvolve(k)
  PROVE  DOMAIN inst = 1 .. Len(inst) /\ Len(inst) \in Nat /\ DOMAIN inst' = DOMAIN inst /\ Len(inst') = Len(inst)
  BY BrFacts DEF BrowsersEvolve

\* Who closes a manager or stops a browser goes on with it.
LEMMA BrActorGoes ==
  ASSUME Br!BrowserAssumption, BrInv, NEW k \in Br!Actor, NEW r \in BrActRec,
         act[k].pc \in BrHandle \cup {"all", "failed", "closing manager"}, r.pc \in BrHandle \cup {"all", "closed", "done", "failed"},
         r.run = act[k].run, act' = [act EXCEPT ![k] = r], UNCHANGED <<run, browserGate, quiet>>,
         plug' \in BrPlugRec, plug'.run = plug.run, plug'.closed = plug.closed, plug.shut => plug'.shut,
         BrowsersEvolve(k), r.i \in 0 .. Len(inst), r.todo \subseteq DOMAIN inst,
         r.pc \in BrHandle => r.i # 0 /\ BrBegun(inst'[r.i]),
         r.pc = "remove" => inst'[r.i].proc = "none", r.pc = "drain" => inst'[r.i].proc = "reaped",
         k \in Br!Stopper => /\ r.pc \in BrHandle \cup {"all", "closed"}
                             /\ r.pc \in BrHandle \cup {"all"} => r.op = "all"
                             /\ r.pc = "closed" /\ ~r.err => r.todo = {}
                             /\ ~r.err /\ plug.run = r.run =>
                                  plug'.shut /\ \A i \in DOMAIN inst : inst'[i].listed => i \in r.todo
  PROVE  BrInv'
  <1>1. CASE k \in Caller
    <2>1. act[k].pc \notin BrWaits /\ r.pc \in BrCallStep /\ r.pc \notin BrBegin \cup {"starting", "connecting"}
      BY DEF BrHandle, BrWaits, BrCallStep, BrBegin
    <2> QED BY <1>1, <2>1, BrCallGoes
  <1>2. CASE k \in Br!Stopper
    <2>1. /\ k \notin Caller /\ BrStopHolds(k) /\ act'[k] = r /\ k # Nobody /\ quiet' \in BOOLEAN
          /\ run' \in [n : Nat, on : BOOLEAN] /\ run'.n = run.n /\ act[k].pc # "idle"
      BY <1>2, BrActorsAre, BrFacts DEF BrInv, BrTyped, BrHandle
    <2>2. DOMAIN inst = 1 .. Len(inst) /\ Len(inst) \in Nat /\ DOMAIN inst' = DOMAIN inst /\ Len(inst') = Len(inst)
      BY BrowsersEvolveIs
    <2>3. BrActHolds(k)'
      BY <2>1, <2>2 DEF BrActHolds
    <2>4. browserGate # k /\ r.run # 0
      <3>1. act[k].pc \notin {"emptied", "kept"}
        BY DEF BrHandle
      <3> QED BY <2>1, <3>1 DEF BrStopHolds
    <2>5. r.pc \in BrStopStep \cup {"idle"} /\ r.pc \notin {"emptied", "kept", "idle"} /\ browserGate' # k
      BY <1>2, <2>4 DEF BrStopStep, BrHandle
    <2>6. BrStopHolds(k)'
      <3>1. r.pc \in BrHandle \cup {"all", "closed"} /\ ~r.err /\ plug'.run = r.run =>
              plug'.shut /\ \A i \in DOMAIN inst' : inst'[i].listed => i \in r.todo
        BY <1>2, <2>2
      <3>2. (r.pc \in BrHandle \cup {"all"} => r.op = "all") /\ (r.pc = "closed" /\ ~r.err => r.todo = {})
        BY <1>2
      <3> QED BY <2>1, <2>4, <2>5, <3>1, <3>2 DEF BrStopHolds
    <2>7. k = "end" => ~run.on
      BY <2>1 DEF BrInv, BrRunHolds
    <2>8. k = "close" => plug'.closed /\ plug.run \in {0, r.run}
      BY <2>1 DEF BrInv, BrRunHolds
    <2> QED BY <2>1, <2>3, <2>6, <2>7, <2>8, BrMovesKeep
  <1> QED BY <1>1, <1>2, BrActorsAre

LEMMA BrHandled ==
  ASSUME Br!BrowserAssumption, BrInv, NEW k \in Br!Actor, act[k].pc \in BrHandle
  PROVE  /\ act[k] \in BrActRec /\ act[k].i # 0 /\ act[k].i \in 0 .. Len(inst) /\ act[k].i \in DOMAIN inst
         /\ inst[act[k].i] \in BrInstRec /\ BrInstHolds(inst[act[k].i], plug.run) /\ BrBegun(inst[act[k].i]) /\ ~StartsIt(k, act[k].i)
         /\ act[k].pc = "remove" => inst[act[k].i].proc = "none"
         /\ act[k].pc = "drain" => inst[act[k].i].proc = "reaped"
         /\ act[k].todo \subseteq DOMAIN inst /\ plug \in BrPlugRec
         /\ k \in Br!Stopper => act[k].op = "all" /\ (~act[k].err /\ plug.run = act[k].run =>
              plug.shut /\ \A i \in DOMAIN inst : inst[i].listed => i \in act[k].todo)
  <1>1. act[k] \in BrActRec /\ BrActHolds(k) /\ plug \in BrPlugRec
    BY BrFacts DEF BrInv
  <1>2. act[k].i \in 0 .. Len(inst) /\ act[k].i # 0 /\ BrBegun(inst[act[k].i])
    BY <1>1 DEF BrActHolds
  <1>3. act[k].i \in DOMAIN inst
    BY <1>2, BrFacts
  <1>4. inst[act[k].i] \in BrInstRec /\ BrInstHolds(inst[act[k].i], plug.run)
    BY <1>3, BrFacts DEF BrInv
  <1>5. ~StartsIt(k, act[k].i)
    BY DEF StartsIt, BrHandle, BrBegin
  <1>6. k \in Br!Stopper => BrStopHolds(k)
    BY DEF BrInv
  <1> QED BY <1>1, <1>2, <1>3, <1>4, <1>5, <1>6 DEF BrActHolds, BrStopHolds

\* A stopping of one browser is over, and it is not listed if that went well.
LEMMA BrAfterKeeps ==
  ASSUME Br!BrowserAssumption, BrInv, NEW k \in Br!Actor, act[k].pc \in BrHandle, NEW err \in BOOLEAN, Br!After(k, err),
         UNCHANGED <<run, plug, browserGate, quiet>>, NEW q \in BrInstRec, inst' = [inst EXCEPT ![act[k].i] = q],
         BrInstHolds(q, plug.run), BrGrows(inst[act[k].i], q, FALSE), ~err => ~q.listed
  PROVE  BrInv'
  <1>1. PICK p \in {"all", "done", "failed"} :
          /\ p = CASE act[k].op = "all" -> "all" [] act[k].op = "stop" /\ ~err -> "done" [] OTHER -> "failed"
          /\ act[k].op = "all" => p = "all"
    OBVIOUS
  <1>2. PICK r : r = [act[k] EXCEPT !.err = act[k].err \/ err, !.todo = act[k].todo \ {act[k].i}, !.pc = p]
    OBVIOUS
  <1>3. act[k] \in BrActRec /\ act[k].i \in DOMAIN inst /\ act[k].todo \subseteq DOMAIN inst /\ plug \in BrPlugRec
    BY BrHandled
  <1>4. /\ r \in BrActRec /\ r.pc = p /\ r.run = act[k].run /\ r.i = act[k].i /\ r.todo = act[k].todo \ {act[k].i}
        /\ r.err = (act[k].err \/ err) /\ r.op = act[k].op
    BY <1>2, <1>3 DEF BrActRec, BrCallStep
  <1>5. act' = [act EXCEPT ![k] = r]
    BY <1>1, <1>2, <1>3 DEF Br!After, BrActRec
  <1>6. StartsIt(k, act[k].i) = FALSE
    BY BrHandled, StartsItIs
  <1>7. BrowsersEvolve(k) /\ inst'[act[k].i] = q
    BY <1>3, <1>6, OneBrowserEvolves
  <1>8. \A i \in DOMAIN inst : inst'[i].listed => inst[i].listed
    BY <1>7 DEF BrowsersEvolve, BrGrows
  <1>9. k \in Br!Stopper => /\ r.pc = "all" /\ r.op = "all"
                            /\ ~r.err /\ plug.run = r.run =>
                                 plug'.shut /\ \A i \in DOMAIN inst : inst'[i].listed => i \in r.todo
    BY <1>1, <1>4, <1>7, <1>8, BrHandled
  <1>10. r.pc \notin BrHandle /\ r.pc \in {"all", "done", "failed"}
    BY <1>4 DEF BrHandle
  <1>11. r.i \in 0 .. Len(inst) /\ r.todo \subseteq DOMAIN inst
    BY <1>3, <1>4, BrHandled
  <1>12. r.pc \notin {"remove", "drain", "closed"}
    BY <1>10
  <1>13. k \in Br!Stopper => /\ r.pc \in BrHandle \cup {"all", "closed"}
                             /\ r.pc \in BrHandle \cup {"all"} => r.op = "all"
                             /\ r.pc = "closed" /\ ~r.err => r.todo = {}
    BY <1>9, <1>10, <1>12
  <1> QED BY <1>3, <1>4, <1>5, <1>7, <1>9, <1>10, <1>11, <1>12, <1>13, BrActorGoes

LEMMA BrTokenKeeps ==
  ASSUME Br!BrowserAssumption, BrInv, NEW k \in Br!Actor, Br!Token(k)
  PROVE  BrInv'
  <1>1. act[k].pc = "token" /\ act[k].pc \in BrHandle /\ UNCHANGED <<run, plug, browserGate, quiet>>
    BY DEF Br!Token, BrHandle
  <1>2. PICK i : i = act[k].i
    OBVIOUS
  <1>3. PICK q : q = [inst[i] EXCEPT !.holder = k, !.proc = IF inst[i].proc = "alive" THEN "closing" ELSE inst[i].proc]
    OBVIOUS
  <1>4. PICK p : p = IF inst[i].proc = "none" THEN "remove" ELSE "reap"
    OBVIOUS
  <1>5. PICK r : r = [act[k] EXCEPT !.pc = p]
    OBVIOUS
  <1>6. act[k] \in BrActRec /\ i # 0 /\ i \in 0 .. Len(inst) /\ i \in DOMAIN inst /\ inst[i] \in BrInstRec /\ BrBegun(inst[i])
        /\ BrInstHolds(inst[i], plug.run) /\ act[k].todo \subseteq DOMAIN inst /\ plug \in BrPlugRec /\ StartsIt(k, i) = FALSE
    BY <1>1, <1>2, BrHandled, StartsItIs
  <1>7. inst' = [inst EXCEPT ![i] = q] /\ act' = [act EXCEPT ![k] = r]
    BY <1>2, <1>3, <1>4, <1>5, <1>6 DEF Br!Token, Br!Goes, BrInstRec, BrActRec
  <1>8. /\ q \in BrInstRec /\ q.id = inst[i].id /\ q.run = inst[i].run /\ q.listed = inst[i].listed /\ q.dir = inst[i].dir
        /\ q.proc = (IF inst[i].proc = "alive" THEN "closing" ELSE inst[i].proc) /\ q.ready = inst[i].ready
        /\ q.drained = inst[i].drained /\ q.writing = inst[i].writing
    BY <1>3, <1>6 DEF BrInstRec, BrProcs
  <1>9. BrInstHolds(q, plug.run) /\ BrGrows(inst[i], q, FALSE) /\ BrBegun(q)
    BY <1>6, <1>8 DEF BrInstHolds, BrGrows, BrBegun
  <1>10. BrowsersEvolve(k) /\ inst'[i] = q
    BY <1>6, <1>7, <1>8, <1>9, OneBrowserEvolves
  <1>11. p \in {"remove", "reap"} /\ p \in BrHandle /\ (p = "remove" => q.proc = "none")
    BY <1>4, <1>8 DEF BrHandle
  <1>12. r \in BrActRec /\ r.pc = p /\ r.run = act[k].run /\ r.i = i /\ r.todo = act[k].todo /\ r.op = act[k].op /\ r.err = act[k].err
    BY <1>2, <1>5, <1>6, <1>11 DEF BrActRec, BrCallStep
  <1>13. \A j \in DOMAIN inst : inst'[j].listed => inst[j].listed
    BY <1>10 DEF BrowsersEvolve, BrGrows
  <1>14. k \in Br!Stopper => /\ r.op = "all"
                             /\ ~r.err /\ plug.run = r.run =>
                                  plug'.shut /\ \A j \in DOMAIN inst : inst'[j].listed => j \in r.todo
    BY <1>1, <1>12, <1>13, BrHandled
  <1> QED BY <1>1, <1>6, <1>7, <1>9, <1>10, <1>11, <1>12, <1>14, BrActorGoes

\* What is given back when a stopping is over.
LEMMA BrFreesIs ==
  ASSUME Br!BrowserAssumption, BrInv, NEW k \in Br!Actor, act[k].pc \in BrHandle, NEW removed \in BOOLEAN,
         inst' = [Br!Frees(act[k].i, k) EXCEPT ![act[k].i].listed = @ /\ ~removed, ![act[k].i].dir = @ /\ ~removed]
  PROVE  \E q \in BrInstRec : /\ inst' = [inst EXCEPT ![act[k].i] = q] /\ BrGrows(inst[act[k].i], q, FALSE)
                              /\ removed => ~q.listed
                              /\ (removed => inst[act[k].i].proc = "none" \/ (inst[act[k].i].proc = "reaped" /\ inst[act[k].i].drained)) =>
                                   BrInstHolds(q, plug.run)
  <1>1. PICK i : i = act[k].i
    OBVIOUS
  <1>2. PICK q : q = [inst[i] EXCEPT !.holder = IF inst[i].holder = k THEN Nobody ELSE inst[i].holder,
                                     !.ready = inst[i].ready \/ act[k].op = "start",
                                     !.listed = inst[i].listed /\ ~removed, !.dir = inst[i].dir /\ ~removed]
    OBVIOUS
  <1>3. i \in DOMAIN inst /\ inst[i] \in BrInstRec /\ BrInstHolds(inst[i], plug.run) /\ BrBegun(inst[i]) /\ inst \in Seq(BrInstRec)
    BY <1>1, BrHandled, BrFacts
  <1>4. inst' = [inst EXCEPT ![i] = q]
    BY <1>1, <1>2, <1>3 DEF Br!Frees, BrInstRec
  <1>5. inst[i].holder \in Br!Actor \cup {Nobody} /\ inst[i].listed \in BOOLEAN /\ inst[i].dir \in BOOLEAN /\ inst[i].ready \in BOOLEAN
    BY <1>3 DEF BrInstRec
  <1>6. PICK h \in Br!Actor \cup {Nobody}, x \in BOOLEAN, y \in BOOLEAN, z \in BOOLEAN :
          /\ h = (IF inst[i].holder = k THEN Nobody ELSE inst[i].holder) /\ x = (inst[i].ready \/ act[k].op = "start")
          /\ y = (inst[i].listed /\ ~removed) /\ z = (inst[i].dir /\ ~removed)
    BY <1>5
  <1>7. q = [inst[i] EXCEPT !.holder = h, !.ready = x, !.listed = y, !.dir = z]
    BY <1>2, <1>6
  <1>8. /\ q \in BrInstRec /\ q.id = inst[i].id /\ q.run = inst[i].run /\ q.listed = (inst[i].listed /\ ~removed)
        /\ q.dir = (inst[i].dir /\ ~removed) /\ q.proc = inst[i].proc /\ q.ready = (inst[i].ready \/ act[k].op = "start")
        /\ q.drained = inst[i].drained /\ q.writing = inst[i].writing
    <2>1. q \in BrInstRec
      <3>1. PICK q1 : q1 = [inst[i] EXCEPT !.holder = h, !.ready = x]
        OBVIOUS
      <3>2. q1 \in BrInstRec
        BY <3>1, <1>3, <1>6 DEF BrInstRec
      <3>3. q = [q1 EXCEPT !.listed = y, !.dir = z]
        BY <3>1, <1>3, <1>7 DEF BrInstRec
      <3> QED BY <3>2, <3>3 DEF BrInstRec
    <2>2. /\ q.id = inst[i].id /\ q.run = inst[i].run /\ q.listed = y /\ q.dir = z /\ q.proc = inst[i].proc /\ q.ready = x
          /\ q.drained = inst[i].drained /\ q.writing = inst[i].writing
      BY <1>3, <1>7 DEF BrInstRec
    <2> QED BY <2>1, <2>2, <1>6
  <1>9. BrGrows(inst[i], q, FALSE) /\ (removed => ~q.listed)
    BY <1>3, <1>8 DEF BrGrows, BrBegun
  <1>10. (removed => inst[i].proc = "none" \/ (inst[i].proc = "reaped" /\ inst[i].drained)) => BrInstHolds(q, plug.run)
    BY <1>3, <1>8 DEF BrInstHolds, BrInstRec
  <1> QED BY <1>1, <1>4, <1>8, <1>9, <1>10

\* Given back only.
LEMMA BrFreesOnly ==
  ASSUME Br!BrowserAssumption, BrInv, NEW k \in Br!Actor, act[k].pc \in BrHandle, Br!After(k, TRUE), inst' = Br!Frees(act[k].i, k),
         UNCHANGED <<run, plug, browserGate, quiet>>
  PROVE  BrInv'
  <1>1. PICK i : i = act[k].i
    OBVIOUS
  <1>2. i \in DOMAIN inst /\ inst[i] \in BrInstRec /\ inst \in Seq(BrInstRec)
    BY <1>1, BrHandled, BrFacts
  <1>3. PICK h \in Br!Actor \cup {Nobody}, x \in BOOLEAN :
          h = (IF inst[i].holder = k THEN Nobody ELSE inst[i].holder) /\ x = (inst[i].ready \/ act[k].op = "start")
    BY <1>2 DEF BrInstRec
  <1>4. PICK q : q = [inst[i] EXCEPT !.holder = h, !.ready = x]
    OBVIOUS
  <1>5. inst' = [inst EXCEPT ![i] = q]
    BY <1>1, <1>2, <1>3, <1>4 DEF Br!Frees, BrInstRec
  <1>6. /\ q \in BrInstRec /\ q.id = inst[i].id /\ q.run = inst[i].run /\ q.listed = inst[i].listed /\ q.dir = inst[i].dir
        /\ q.proc = inst[i].proc /\ q.ready = x /\ q.drained = inst[i].drained /\ q.writing = inst[i].writing
    BY <1>2, <1>4 DEF BrInstRec
  <1>7. BrInstHolds(q, plug.run) /\ BrGrows(inst[i], q, FALSE)
    <2>1. BrInstHolds(inst[i], plug.run) /\ BrBegun(inst[i])
      BY <1>1, BrHandled
    <2> QED BY <2>1, <1>3, <1>6 DEF BrInstHolds, BrGrows, BrBegun
  <1> QED BY <1>1, <1>5, <1>6, <1>7, BrAfterKeeps

LEMMA BrHandlesKeep ==
  ASSUME Br!BrowserAssumption, BrInv, NEW k \in Br!Actor, NEW removed \in BOOLEAN, Br!Reaped(k) \/ Br!Remove(k, removed)
  PROVE  BrInv'
  <1>1. act[k].pc \in BrHandle /\ UNCHANGED <<run, plug, browserGate, quiet>>
    BY DEF Br!Reaped, Br!Remove, BrHandle
  <1>2. CASE Br!Reaped(k) /\ ~(Br!After(k, TRUE) /\ inst' = Br!Frees(act[k].i, k))
    <2>1. PICK i, r : i = act[k].i /\ r = [act[k] EXCEPT !.pc = "drain"]
      OBVIOUS
    <2>2. act' = [act EXCEPT ![k] = r] /\ inst' = inst /\ inst[i].proc = "reaped"
      BY <1>2, <2>1 DEF Br!Reaped, Br!Goes
    <2>3. /\ act[k] \in BrActRec /\ i # 0 /\ i \in 0 .. Len(inst) /\ BrBegun(inst[i]) /\ act[k].todo \subseteq DOMAIN inst /\ plug \in BrPlugRec
      BY <1>1, <2>1, BrHandled
    <2>4. r \in BrActRec /\ r.pc = "drain" /\ r.run = act[k].run /\ r.i = i /\ r.todo = act[k].todo /\ r.op = act[k].op /\ r.err = act[k].err
      BY <2>1, <2>3 DEF BrActRec, BrCallStep, BrHandle
    <2>5. r.pc \in BrHandle
      BY <2>4 DEF BrHandle
    <2>6. k \in Br!Stopper => r.op = "all" /\ (~r.err /\ plug.run = r.run =>
            plug'.shut /\ \A j \in DOMAIN inst : inst'[j].listed => j \in r.todo)
      BY <1>1, <2>2, <2>4, BrHandled
    <2> QED BY <1>1, <2>2, <2>3, <2>4, <2>5, <2>6, BrowsersStay, BrActorGoes
  <1>3. CASE Br!Reaped(k) /\ Br!After(k, TRUE) /\ inst' = Br!Frees(act[k].i, k)
    BY <1>1, <1>3, BrFreesOnly
  <1>4. CASE Br!Remove(k, removed)
    <2>1. PICK i : i = act[k].i
      OBVIOUS
    <2>2. Br!After(k, ~removed \/ inst[i].bad) /\ inst' = [Br!Frees(i, k) EXCEPT ![i].listed = @ /\ ~removed, ![i].dir = @ /\ ~removed]
      BY <1>4, <2>1 DEF Br!Remove
    <2>3. inst[i].proc = "none" \/ (inst[i].proc = "reaped" /\ inst[i].drained)
      BY <1>1, <1>4, <2>1, BrHandled DEF Br!Remove, Br!Quit
    <2>4. PICK q \in BrInstRec : /\ inst' = [inst EXCEPT ![i] = q] /\ BrGrows(inst[i], q, FALSE)
                                 /\ removed => ~q.listed
                                 /\ BrInstHolds(q, plug.run)
      <3> DEFINE Gone(j) == inst[j].proc = "none" \/ (inst[j].proc = "reaped" /\ inst[j].drained)
      <3>1. PICK q \in BrInstRec : /\ inst' = [inst EXCEPT ![act[k].i] = q] /\ BrGrows(inst[act[k].i], q, FALSE)
                                   /\ removed => ~q.listed
                                   /\ (removed => Gone(act[k].i)) => BrInstHolds(q, plug.run)
        BY <1>1, <2>1, <2>2, BrFreesIs
      <3> HIDE DEF Gone
      <3>2. Gone(act[k].i)
        BY <2>1, <2>3 DEF Gone
      <3> QED BY <2>1, <3>1, <3>2
    <2>5. (~removed \/ inst[i].bad) \in BOOLEAN
      BY <1>1, <2>1, BrHandled DEF BrInstRec
    <2>6. PICK err \in BOOLEAN : err = (~removed \/ inst[i].bad)
      BY <2>5
    <2>7. Br!After(k, err) /\ (~err => ~q.listed)
      BY <2>2, <2>4, <2>6
    <2> QED BY <1>1, <2>1, <2>4, <2>7, BrAfterKeeps
  <1> QED BY <1>2, <1>3, <1>4

\* A manager is closed.
LEMMA BrManagerKeeps ==
  ASSUME Br!BrowserAssumption, BrInv, NEW k \in Br!Actor, NEW i, Br!CloseManager(k) \/ Br!NextInst(k, i) \/ Br!AllStopped(k)
  PROVE  BrInv'
  <1>1. UNCHANGED <<run, browserGate, inst, quiet>> /\ act[k] \in BrActRec /\ BrActHolds(k) /\ plug \in BrPlugRec /\ (k \in Br!Stopper => BrStopHolds(k))
    BY BrFacts DEF BrInv, Br!CloseManager, Br!NextInst, Br!AllStopped
  <1>2. act[k].i \in 0 .. Len(inst) /\ act[k].todo \subseteq DOMAIN inst
    BY <1>1 DEF BrActHolds
  <1>3. CASE Br!CloseManager(k)
    <2>1. PICK r : r = [act[k] EXCEPT !.pc = "all", !.op = "all", !.todo = Br!Listed(act[k].run)]
      OBVIOUS
    <2>2. /\ act[k].pc \in {"closing manager", "failed"} /\ act' = [act EXCEPT ![k] = r]
          /\ plug' = [plug EXCEPT !.shut = plug.shut \/ plug.run = act[k].run]
      BY <1>1, <1>3, <2>1 DEF Br!CloseManager, BrActRec, BrPlugRec
    <2>3. Br!Listed(act[k].run) \subseteq DOMAIN inst /\ DOMAIN inst \subseteq Nat
      BY BrFacts DEF Br!Listed
    <2>4. r \in BrActRec /\ r.pc = "all" /\ r.run = act[k].run /\ r.i = act[k].i /\ r.todo = Br!Listed(act[k].run) /\ r.op = "all"
      BY <1>1, <2>1, <2>3 DEF BrActRec, BrCallStep
    <2>5. /\ plug' \in BrPlugRec /\ plug'.run = plug.run /\ plug'.closed = plug.closed /\ (plug.shut => plug'.shut)
          /\ (plug.run = act[k].run => plug'.shut)
      BY <1>1, <2>2 DEF BrPlugRec
    <2>6. plug.run = r.run => \A j \in DOMAIN inst : inst'[j].listed => j \in r.todo
      BY <1>1, <2>4 DEF BrInv, BrInstHolds, Br!Listed
    <2>7. r.pc \notin BrHandle
      BY <2>4 DEF BrHandle
    <2> QED BY <1>1, <1>2, <2>2, <2>3, <2>4, <2>5, <2>6, <2>7, BrowsersStay, BrActorGoes
  <1>4. CASE Br!NextInst(k, i)
    <2>1. PICK r : r = [act[k] EXCEPT !.pc = "token", !.i = i]
      OBVIOUS
    <2>2. act[k].pc = "all" /\ i \in act[k].todo /\ inst[i].ready /\ act' = [act EXCEPT ![k] = r] /\ plug' = plug
          /\ i \in DOMAIN inst
      BY <1>1, <1>2, <1>4, <2>1 DEF Br!NextInst, Br!Stops, Br!MayStop, BrActRec
    <2>3. i \in 0 .. Len(inst) /\ i # 0 /\ BrBegun(inst[i]) /\ i \in Nat
      BY <2>2, BrFacts DEF BrBegun
    <2>4. r \in BrActRec /\ r.pc = "token" /\ r.run = act[k].run /\ r.i = i /\ r.todo = act[k].todo /\ r.op = act[k].op /\ r.err = act[k].err
      BY <1>1, <2>1, <2>3 DEF BrActRec, BrCallStep, BrHandle
    <2>5. r.pc \in BrHandle
      BY <2>4 DEF BrHandle
    <2>6. k \in Br!Stopper => act[k].op = "all" /\ (~r.err /\ plug.run = r.run =>
            plug'.shut /\ \A j \in DOMAIN inst : inst'[j].listed => j \in r.todo)
      BY <1>1, <2>2, <2>4 DEF BrStopHolds
    <2> QED BY <1>1, <1>2, <2>2, <2>3, <2>4, <2>5, <2>6, BrowsersStay, BrActorGoes
  <1>5. CASE Br!AllStopped(k)
    <2>1. PICK r : r = [act[k] EXCEPT !.pc = "closed"]
      OBVIOUS
    <2>2. act[k].pc = "all" /\ act[k].todo = {} /\ act' = [act EXCEPT ![k] = r] /\ plug' = plug
      BY <1>1, <1>5, <2>1 DEF Br!AllStopped, Br!Goes
    <2>3. r \in BrActRec /\ r.pc = "closed" /\ r.run = act[k].run /\ r.i = act[k].i /\ r.todo = {} /\ r.err = act[k].err
      BY <1>1, <2>1, <2>2 DEF BrActRec, BrCallStep
    <2>4. k \in Br!Stopper => (~r.err /\ plug.run = r.run =>
            plug'.shut /\ \A j \in DOMAIN inst : inst'[j].listed => j \in r.todo)
      BY <1>1, <2>2, <2>3 DEF BrStopHolds
    <2>5. r.pc \notin BrHandle
      BY <2>3 DEF BrHandle
    <2> QED BY <1>1, <1>2, <2>2, <2>3, <2>4, <2>5, BrowsersStay, BrActorGoes
  <1> QED BY <1>3, <1>4, <1>5

\* The end of a run or Close is done with the manager, which stays.
LEMMA BrStopperIdles ==
  ASSUME Br!BrowserAssumption, BrInv, NEW k \in Br!Stopper, act' = [act EXCEPT ![k] = Br!NoAct], UNCHANGED <<run, plug, inst>>,
         browserGate' = browserGate \/ (browserGate' = Nobody /\ browserGate = k), browserGate = k => browserGate' = Nobody,
         quiet' \in BOOLEAN, quiet' => quiet \/ (plug.closed /\ plug.run = 0)
  PROVE  BrInv'
  <1>1. Br!NoAct \in BrActRec /\ Br!NoAct.pc = "idle" /\ Br!NoAct.i = 0 /\ Br!NoAct.todo = {}
    BY DEF Br!NoAct, BrActRec, BrWaits
  <1>2. k \in Br!Actor /\ k \notin Caller /\ k # Nobody /\ act'[k] = Br!NoAct /\ Len(inst) \in Nat
        /\ plug \in BrPlugRec /\ run \in [n : Nat, on : BOOLEAN]
    BY BrActorsAre, BrFacts DEF BrInv, BrTyped
  <1>3. BrActHolds(k)' /\ BrStopHolds(k)'
    BY <1>1, <1>2 DEF BrActHolds, BrStopHolds, BrHandle
  <1> QED BY <1>1, <1>2, <1>3, BrowsersStay, BrMovesKeep

\* A wait is given up.
LEMMA BrLateKeeps ==
  ASSUME Br!BrowserAssumption, BrInv, NEW k \in Br!Actor, Br!Late(k)
  PROVE  BrInv'
  <1>1. UNCHANGED <<run, plug, browserGate, quiet>> /\ act[k] \in BrActRec /\ BrActHolds(k) /\ plug \in BrPlugRec
        /\ (k \in Br!Stopper => BrStopHolds(k)) /\ quiet \in BOOLEAN
    BY BrFacts DEF BrInv, Br!Late, BrTyped
  <1>2. CASE act[k].pc = "all"
    <2>1. PICK r : r = [act[k] EXCEPT !.pc = "closed", !.err = TRUE]
      OBVIOUS
    <2>2. act' = [act EXCEPT ![k] = r] /\ inst' = inst
      BY <1>1, <1>2, <2>1 DEF Br!Late, BrActRec
    <2>3. r \in BrActRec /\ r.pc = "closed" /\ r.run = act[k].run /\ r.i = act[k].i /\ r.todo = act[k].todo /\ r.err = TRUE
      BY <1>1, <2>1 DEF BrActRec, BrCallStep
    <2>4. r.pc \notin BrHandle /\ act[k].i \in 0 .. Len(inst) /\ act[k].todo \subseteq DOMAIN inst
      BY <1>1, <2>3 DEF BrHandle, BrActHolds
    <2> QED BY <1>1, <1>2, <2>2, <2>3, <2>4, BrowsersStay, BrActorGoes
  <1>3. CASE act[k].pc = "closed"
    <2>1. k \in Br!Stopper /\ act' = [act EXCEPT ![k] = Br!NoAct] /\ inst' = inst
      BY <1>3 DEF Br!Late
    <2>2. browserGate # k
      BY <1>1, <1>3, <2>1 DEF BrStopHolds
    <2> QED BY <1>1, <2>1, <2>2, BrStopperIdles
  <1>4. CASE act[k].pc \notin {"all", "closed"}
    <2>1. act[k].pc \in BrHandle
      BY <1>4 DEF Br!Late, BrHandle
    <2>2. Br!After(k, TRUE) /\ inst' = Br!Frees(act[k].i, k)
      BY <1>4 DEF Br!Late
    <2> QED BY <1>1, <2>1, <2>2, BrFreesOnly
  <1> QED BY <1>2, <1>3, <1>4

LEMMA BrGrowsMore == ASSUME NEW b, NEW q, NEW mine \in BOOLEAN, BrGrows(b, q, FALSE) PROVE BrGrows(b, q, mine)
  BY DEF BrGrows

\* Processes end and are reaped, their output is read and ends.
LEMMA BrProcessesKeep ==
  ASSUME Br!BrowserAssumption, BrInv, NEW i \in DOMAIN inst, NEW b \in BOOLEAN,
         Br!Ends(i) \/ Br!Reap(i, b) \/ Br!Drain(i) \/ Br!ReadLine(i) \/ Br!Written(i, b)
  PROVE  BrInv'
  <1>1. UNCHANGED <<run, browserGate, act, quiet>> /\ inst \in Seq(BrInstRec) /\ inst[i] \in BrInstRec /\ BrInstHolds(inst[i], plug.run)
        /\ plug \in BrPlugRec
    BY BrFacts DEF BrInv, Br!Ends, Br!Reap, Br!Drain, Br!ReadLine, Br!Written
  <1>2. PICK p \in BrProcs, d \in BOOLEAN, w \in BOOLEAN, x \in BOOLEAN :
          /\ inst' = [inst EXCEPT ![i] = [inst[i] EXCEPT !.proc = p, !.drained = d, !.writing = w, !.bad = x]]
          /\ inst[i].proc = "none" => p = "none" /\ d = inst[i].drained /\ w = inst[i].writing
          /\ inst[i].proc # "none" => p # "none"
          /\ inst[i].proc = "reaped" => p = "reaped"
          /\ inst[i].drained => d
          /\ ~inst[i].listed => p = inst[i].proc
          /\ d => p \in {"reaped", "stuck"} /\ ~w
    <2>1. CASE Br!Ends(i)
      <3>1. inst' = [inst EXCEPT ![i] = [inst[i] EXCEPT !.proc = "closing", !.drained = inst[i].drained,
                                                        !.writing = inst[i].writing, !.bad = inst[i].bad]]
        BY <2>1, <1>1 DEF Br!Ends, BrInstRec
      <3> QED BY <3>1, <2>1, <1>1 DEF Br!Ends, BrInstHolds, BrInstRec, BrProcs
    <2>2. CASE Br!Reap(i, b)
      <3>1. PICK p \in {"stuck", "reaped"} : p = IF b THEN "stuck" ELSE "reaped"
        OBVIOUS
      <3>2. inst' = [inst EXCEPT ![i] = [inst[i] EXCEPT !.proc = p, !.drained = inst[i].drained,
                                                        !.writing = inst[i].writing, !.bad = inst[i].bad]]
        BY <2>2, <3>1, <1>1 DEF Br!Reap, BrInstRec
      <3> QED BY <3>2, <2>2, <1>1 DEF Br!Reap, BrInstHolds, BrInstRec, BrProcs
    <2>3. CASE Br!Drain(i)
      <3>1. PICK x \in BOOLEAN : x = (inst[i].bad \/ inst[i].proc = "stuck")
        BY <1>1 DEF BrInstRec
      <3>2. inst' = [inst EXCEPT ![i] = [inst[i] EXCEPT !.proc = inst[i].proc, !.drained = TRUE,
                                                        !.writing = inst[i].writing, !.bad = x]]
        BY <2>3, <3>1, <1>1 DEF Br!Drain, BrInstRec
      <3> QED BY <3>2, <2>3, <1>1 DEF Br!Drain, BrInstHolds, BrInstRec, BrProcs
    <2>4. CASE (Br!ReadLine(i) \/ Br!Written(i, b)) /\ inst' = [inst EXCEPT ![i] = Br!Spoils(i)]
      <3>1. PICK p \in BrProcs : p = IF inst[i].proc = "alive" THEN "closing" ELSE inst[i].proc
        BY <1>1 DEF BrInstRec, BrProcs
      <3>2. inst' = [inst EXCEPT ![i] = [inst[i] EXCEPT !.proc = p, !.drained = inst[i].drained,
                                                        !.writing = FALSE, !.bad = TRUE]]
        BY <2>4, <3>1, <1>1 DEF Br!Spoils, BrInstRec
      <3>3. inst[i].proc # "none" /\ (Br!ReadLine(i) => ~inst[i].drained)
        BY <2>4, <1>1 DEF Br!ReadLine, Br!Written, BrInstHolds
      <3>4. ~inst[i].drained
        BY <2>4, <3>3, <1>1 DEF Br!Written, BrInstHolds
      <3> QED BY <3>1, <3>2, <3>3, <3>4, <1>1 DEF BrInstHolds, BrInstRec
    <2>5. CASE Br!ReadLine(i) /\ inst' # [inst EXCEPT ![i] = Br!Spoils(i)]
      <3>1. inst' = [inst EXCEPT ![i] = [inst[i] EXCEPT !.proc = inst[i].proc, !.drained = inst[i].drained,
                                                        !.writing = TRUE, !.bad = inst[i].bad]]
        BY <2>5, <1>1 DEF Br!ReadLine, BrInstRec
      <3>2. inst[i].proc # "none" /\ inst[i].drained = FALSE /\ inst[i].proc \in BrProcs /\ inst[i].bad \in BOOLEAN
        BY <2>5, <1>1 DEF Br!ReadLine, BrInstRec
      <3> QED BY <3>1, <3>2
    <2>6. CASE Br!Written(i, b) /\ inst' # [inst EXCEPT ![i] = Br!Spoils(i)]
      <3>1. inst' = [inst EXCEPT ![i] = [inst[i] EXCEPT !.proc = inst[i].proc, !.drained = inst[i].drained,
                                                        !.writing = FALSE, !.bad = inst[i].bad]]
        BY <2>6, <1>1 DEF Br!Written, BrInstRec
      <3> QED BY <3>1, <2>6, <1>1 DEF Br!Written, BrInstHolds, BrInstRec
    <2> QED BY <2>1, <2>2, <2>3, <2>4, <2>5, <2>6
  <1>3. PICK q : q = [inst[i] EXCEPT !.proc = p, !.drained = d, !.writing = w, !.bad = x]
    OBVIOUS
  <1>4. /\ q \in BrInstRec /\ q.id = inst[i].id /\ q.run = inst[i].run /\ q.listed = inst[i].listed /\ q.dir = inst[i].dir
        /\ q.proc = p /\ q.ready = inst[i].ready /\ q.drained = d /\ q.writing = w /\ inst' = [inst EXCEPT ![i] = q]
    BY <1>1, <1>2, <1>3 DEF BrInstRec
  <1>5. BrInstHolds(q, plug.run)
    BY <1>1, <1>2, <1>4 DEF BrInstHolds, BrInstRec
  <1>6. BrGrows(inst[i], q, FALSE)
    BY <1>1, <1>2, <1>4 DEF BrGrows, BrBegun
  <1>7. BrowsersEvolve("end")
    <2>1. StartsIt("end", i) \in BOOLEAN
      BY StartsItIs
    <2>2. BrGrows(inst[i], q, StartsIt("end", i))
      BY <2>1, <1>6, BrGrowsMore
    <2> QED BY <2>2, <1>4, <1>5, OneBrowserEvolves
  <1>8. plug' \in BrPlugRec /\ plug'.run = plug.run /\ plug'.closed = plug.closed /\ plug'.shut = plug.shut
    BY <1>1 DEF BrPlugRec, Br!Ends, Br!Reap, Br!Drain, Br!ReadLine, Br!Written
  <1> QED BY <1>1, <1>7, <1>8, BrFacts, BrNoActorKeeps

\* The kernel's: a run is cancelled or ends; and the plugin is closed.
LEMMA BrRunsKeep ==
  ASSUME Br!BrowserAssumption, BrInv, Br!CancelRun \/ Br!OnRunEnd \/ Br!Close
  PROVE  BrInv'
  <1>1. inst' = inst /\ browserGate' = browserGate /\ act \in [Br!Actor -> BrActRec] /\ plug \in BrPlugRec /\ run \in [n : Nat, on : BOOLEAN]
        /\ quiet \in BOOLEAN /\ Len(inst) \in Nat
    BY BrFacts DEF BrInv, BrTyped, Br!CancelRun, Br!OnRunEnd, Br!Close
  <1>2. CASE Br!CancelRun \/ (Br!OnRunEnd /\ plug.run # run.n)
    <2>1. UNCHANGED <<act, quiet>> /\ run' \in [n : Nat, on : BOOLEAN] /\ run'.n = run.n /\ (run'.on => run.on)
      BY <1>1, <1>2 DEF Br!CancelRun, Br!OnRunEnd
    <2>2. plug' \in BrPlugRec /\ plug'.run = plug.run /\ plug'.closed = plug.closed /\ plug'.shut = plug.shut
      BY <1>1, <1>2 DEF Br!CancelRun, Br!OnRunEnd, BrPlugRec
    <2> QED BY <1>1, <2>1, <2>2, BrowsersStay, BrNoActorKeeps
  <1>3. CASE Br!OnRunEnd /\ plug.run = run.n
    <2>1. PICK r : r = [Br!NoAct EXCEPT !.pc = "closing manager", !.run = run.n]
      OBVIOUS
    <2>2. /\ act' = [act EXCEPT !["end"] = r] /\ run' = [run EXCEPT !.on = FALSE] /\ plug' = [plug EXCEPT !.live = FALSE]
          /\ run.on /\ quiet' = quiet
      BY <1>3, <2>1 DEF Br!OnRunEnd
    <2>3. run.n \in Nat /\ run.n # 0 /\ run' \in [n : Nat, on : BOOLEAN] /\ run'.n = run.n /\ run'.on = FALSE
      BY <1>1, <2>2 DEF BrInv, BrRunHolds
    <2>4. plug' \in BrPlugRec /\ plug'.run = plug.run /\ plug'.closed = plug.closed /\ plug'.shut = plug.shut
      BY <1>1, <2>2 DEF BrPlugRec
    <2>5. r \in BrActRec /\ r.pc = "closing manager" /\ r.run = run.n /\ r.i = 0 /\ r.todo = {}
      BY <2>1, <2>3 DEF BrActRec, Br!NoAct, BrStopStep
    <2>6. "end" \in Br!Actor /\ "end" \in Br!Stopper /\ "end" \notin Caller /\ act'["end"] = r
      BY <1>1, <2>2, BrActorsAre
    <2>7. browserGate # "end"
      BY <2>2, <2>6 DEF BrInv, BrStopHolds, BrRunHolds
    <2>8. BrActHolds("end")' /\ BrStopHolds("end")'
      <3>1. r.pc \notin BrHandle \cup {"idle", "all", "closed", "emptied", "kept", "remove", "drain"} /\ r.pc \in BrStopStep
            /\ r.run # 0 /\ r.i = 0 /\ r.todo = {}
        BY <2>3, <2>5 DEF BrStopStep, BrHandle
      <3>2. BrActHolds("end")'
        BY <1>1, <2>6, <3>1 DEF BrActHolds
      <3>3. BrStopHolds("end")'
        BY <1>1, <2>6, <2>7, <3>1 DEF BrStopHolds
      <3> QED BY <3>2, <3>3
    <2> QED BY <1>1, <2>2, <2>3, <2>4, <2>5, <2>6, <2>8, BrowsersStay, BrMovesKeep
  <1>4. CASE Br!Close
    <2>1. PICK r : r = IF plug.run # 0 THEN [Br!NoAct EXCEPT !.pc = "closing manager", !.run = plug.run] ELSE act["close"]
      OBVIOUS
    <2>2. "close" \in Br!Actor /\ "close" \in Br!Stopper /\ "close" \notin Caller /\ BrActHolds("close") /\ BrStopHolds("close")
      BY BrActorsAre DEF BrInv
    <2>3. /\ act["close"].pc = "idle" /\ plug' = [plug EXCEPT !.closed = TRUE, !.live = FALSE] /\ run' = run
      BY <1>4 DEF Br!Close
    <2>4. /\ act' = [act EXCEPT !["close"] = r] /\ (quiet' = quiet \/ (quiet' = TRUE /\ plug.run = 0))
      BY <1>1, <1>4, <2>1 DEF Br!Close
    <2>5. /\ r \in BrActRec
          /\ \/ r.pc = "closing manager" /\ r.run = plug.run /\ r.i = 0 /\ r.todo = {} /\ plug.run # 0
             \/ r = act["close"]
      BY <1>1, <2>1, <2>2 DEF BrActRec, Br!NoAct, BrStopStep, BrPlugRec
    <2>6. plug' \in BrPlugRec /\ plug'.run = plug.run /\ plug'.closed /\ plug'.shut = plug.shut
      BY <1>1, <2>3 DEF BrPlugRec
    <2>7. act'["close"] = r /\ browserGate # "close"
      BY <1>1, <2>2, <2>3, <2>4 DEF BrStopHolds
    <2>8. BrActHolds("close")' /\ BrStopHolds("close")'
      <3>1. CASE r = act["close"]
        BY <3>1, <1>1, <2>2, <2>3, <2>7 DEF BrActHolds, BrStopHolds, BrHandle
      <3>2. CASE r # act["close"]
        <4>1. r.pc \notin BrHandle \cup {"idle", "all", "closed", "emptied", "kept", "remove", "drain"} /\ r.pc \in BrStopStep
              /\ r.run # 0 /\ r.i = 0 /\ r.todo = {}
          BY <3>2, <2>5 DEF BrStopStep, BrHandle
        <4>2. BrActHolds("close")'
          BY <1>1, <2>7, <4>1 DEF BrActHolds
        <4>3. BrStopHolds("close")'
          BY <1>1, <2>7, <4>1 DEF BrStopHolds
        <4> QED BY <4>2, <4>3
      <3> QED BY <3>1, <3>2
    <2>9. quiet' \in BOOLEAN /\ (quiet' => quiet \/ (plug'.closed /\ plug.run = 0))
      <3>1. CASE quiet' = quiet
        BY <3>1, <1>1
      <3>2. CASE quiet' = TRUE /\ plug.run = 0
        BY <3>2, <2>6
      <3> QED BY <3>1, <3>2, <2>4
    <2>10. r.pc # "idle" => plug.run \in {0, r.run}
      BY <2>3, <2>5
    <2> QED BY <1>1, <2>2, <2>3, <2>4, <2>5, <2>6, <2>8, <2>9, <2>10, BrowsersStay, BrMovesKeep
  <1> QED BY <1>2, <1>3, <1>4

\* The plugin looks at the manager that was closed.
LEMMA BrJoinKeeps ==
  ASSUME Br!BrowserAssumption, BrInv, NEW k, Br!Join(k)
  PROVE  BrInv'
  <1>1. k \in Br!Stopper /\ k \in Br!Actor /\ k \notin Caller /\ k # Nobody /\ act[k].pc = "closed" /\ browserGate = Nobody
        /\ UNCHANGED <<run, plug, inst>> /\ BrStopHolds(k) /\ BrActHolds(k)
    BY BrActorsAre DEF BrInv, Br!Join, Br!Joins
  <1>2. act[k] \in BrActRec /\ plug \in BrPlugRec /\ run \in [n : Nat, on : BOOLEAN] /\ quiet \in BOOLEAN
    BY <1>1, BrFacts DEF BrInv, BrTyped
  <1>3. (k = "end" => ~run.on) /\ (k = "close" => plug.closed /\ plug.run \in {0, act[k].run})
    BY <1>1 DEF BrInv, BrRunHolds
  <1>4. CASE plug.run = act[k].run
    <2>1. PICK r : r = [act[k] EXCEPT !.pc = IF Br!Listed(act[k].run) = {} THEN "emptied" ELSE "kept"]
      OBVIOUS
    <2>2. browserGate' = k /\ act' = [act EXCEPT ![k] = r] /\ quiet' = quiet
      BY <1>4, <2>1 DEF Br!Join, Br!Goes
    <2>3. /\ r \in BrActRec /\ r.pc = (IF Br!Listed(act[k].run) = {} THEN "emptied" ELSE "kept") /\ r.run = act[k].run
          /\ r.i = act[k].i /\ r.todo = act[k].todo /\ r.err = act[k].err
      BY <1>2, <2>1 DEF BrActRec, BrStopStep
    <2>4. act'[k] = r
      BY <1>1, <2>2, BrFacts
    <2>5. r.pc = "emptied" => \A i \in DOMAIN inst : ~inst[i].listed
      BY <1>4, <2>3 DEF BrInv, BrInstHolds, Br!Listed
    <2>6. r.pc = "kept" => r.err
      <3>1. \A i \in Br!Listed(act[k].run) : i \in DOMAIN inst /\ inst[i].listed
        BY DEF Br!Listed
      <3>2. ~act[k].err => Br!Listed(act[k].run) = {}
        BY <3>1, <1>1, <1>4 DEF BrStopHolds
      <3> QED BY <3>2, <2>3
    <2>7. BrActHolds(k)'
      BY <1>1, <2>3, <2>4 DEF BrActHolds, BrHandle
    <2>8. r.pc \in {"emptied", "kept"}
      BY <2>3
    <2>9. BrStopHolds(k)'
      BY <1>1, <1>4, <2>2, <2>3, <2>4, <2>5, <2>6, <2>8 DEF BrStopHolds, BrStopStep, BrHandle
    <2> QED BY <1>1, <1>2, <1>3, <2>2, <2>3, <2>7, <2>9, BrowsersStay, BrMovesKeep
  <1>5. CASE plug.run # act[k].run
    <2>1. act' = [act EXCEPT ![k] = Br!NoAct] /\ browserGate' = browserGate /\ quiet' = (quiet \/ (k = "close" /\ ~act[k].err))
      BY <1>5 DEF Br!Join
    <2>2. quiet' \in BOOLEAN /\ (quiet' => quiet \/ (plug.closed /\ plug.run = 0))
      BY <2>1, <1>2, <1>3, <1>5 DEF BrActRec
    <2> QED BY <1>1, <2>1, <2>2, BrStopperIdles
  <1> QED BY <1>4, <1>5

\* The end of a run or Close lets go of an empty manager, or keeps one that has something left.
LEMMA BrSettleKeeps ==
  ASSUME Br!BrowserAssumption, BrInv, NEW k, NEW b \in BOOLEAN, Br!Settle(k, b)
  PROVE  BrInv'
  <1>1. k \in Br!Stopper /\ k \in Br!Actor /\ k \notin Caller /\ k # Nobody /\ act[k].pc \in {"emptied", "kept"}
        /\ UNCHANGED <<run, inst>> /\ act' = [act EXCEPT ![k] = Br!NoAct] /\ browserGate' = Nobody
        /\ quiet' = (quiet \/ (k = "close" /\ ~b /\ ~act[k].err)) /\ BrStopHolds(k)
    BY BrActorsAre DEF BrInv, Br!Settle
  <1>2. act[k] \in BrActRec /\ plug \in BrPlugRec /\ run \in [n : Nat, on : BOOLEAN] /\ quiet \in BOOLEAN /\ browserGate = k
        /\ inst \in Seq(BrInstRec) /\ Len(inst) \in Nat /\ DOMAIN inst = 1 .. Len(inst)
    BY <1>1, BrFacts DEF BrInv, BrTyped, BrStopHolds
  <1>3. CASE act[k].pc = "kept"
    <2>1. act[k].err /\ plug' = plug
      BY <1>1, <1>3 DEF BrStopHolds, Br!Settle
    <2>2. quiet' \in BOOLEAN /\ (quiet' => quiet \/ (plug.closed /\ plug.run = 0))
      BY <1>1, <1>2, <2>1
    <2> QED BY <1>1, <1>2, <2>1, <2>2, BrStopperIdles
  <1>4. CASE act[k].pc = "emptied"
    <2>1. plug' = [Br!NoRun EXCEPT !.closed = plug.closed]
      BY <1>1, <1>4 DEF Br!Settle
    <2>2. plug' \in BrPlugRec /\ plug'.run = 0 /\ plug'.closed = plug.closed
      BY <1>2, <2>1 DEF Br!NoRun, BrPlugRec
    <2>3. plug.run # 0 /\ \A i \in DOMAIN inst : ~inst[i].listed
      BY <1>1, <1>4 DEF BrStopHolds
    <2>4. Br!NoAct \in BrActRec /\ Br!NoAct.pc = "idle" /\ Br!NoAct.i = 0 /\ Br!NoAct.todo = {}
      BY DEF Br!NoAct, BrActRec, BrWaits
    <2>5. act' \in [Br!Actor -> BrActRec] /\ act'[k] = Br!NoAct /\ \A j \in Br!Actor \ {k} : act'[j] = act[j]
      BY <1>1, <2>4, BrFacts
    <2>6. BrTyped'
      BY <1>1, <1>2, <2>2, <2>5 DEF BrTyped
    <2>7. BrRunHolds'
      <3>1. ~quiet /\ (run.on => run.n # 0 /\ act["end"].pc = "idle") /\ (act["close"].pc # "idle" => plug.closed)
        BY <2>3 DEF BrInv, BrRunHolds
      <3>2. quiet' => plug.closed
        BY <3>1, <1>1
      <3>3. (run'.on => run'.n # 0 /\ act'["end"].pc = "idle") /\ (act'["close"].pc # "idle" => plug'.closed)
        BY <3>1, <1>1, <2>2, <2>4, <2>5, BrActorsAre
      <3> QED BY <3>2, <3>3, <2>2 DEF BrRunHolds
    <2>8. BrBudgetHolds'
      BY <1>1 DEF BrInv, BrBudgetHolds
    <2>9. \A i \in DOMAIN inst' : BrInstHolds(inst'[i], plug'.run)
      BY <1>1, <2>3 DEF BrInv, BrInstHolds
    <2>10. ASSUME NEW j \in Br!Actor PROVE BrActHolds(j)'
      <3>1. CASE j = k
        BY <3>1, <1>1, <1>2, <2>4, <2>5 DEF BrActHolds, BrHandle
      <3>2. CASE j # k
        BY <3>2, <1>1, <2>5 DEF BrInv, BrActHolds
      <3> QED BY <3>1, <3>2
    <2>11. ASSUME NEW c \in Caller PROVE BrCallHolds(c)'
      <3>1. c \in Br!Actor /\ c # k /\ c # Nobody /\ BrCallHolds(c) /\ act'[c] = act[c]
        BY <1>1, <2>5, BrActorsAre DEF BrInv
      <3>2. act[c].pc \in BrWaits
        BY <3>1, <1>2 DEF BrCallHolds
      <3> QED BY <3>1, <3>2, <1>1 DEF BrCallHolds, BrWaits, BrBegin
    <2>12. ASSUME NEW j \in Br!Stopper PROVE BrStopHolds(j)'
      <3>1. CASE j = k
        BY <3>1, <1>1, <2>4, <2>5 DEF BrStopHolds, BrHandle
      <3>2. CASE j # k
        <4>1. j \in Br!Actor /\ j # Nobody /\ BrStopHolds(j) /\ act'[j] = act[j] /\ browserGate # j /\ browserGate' # j
          BY <3>2, <1>1, <1>2, <2>5, BrActorsAre DEF BrInv
        <4>2. act[j].pc \notin {"emptied", "kept"}
          BY <4>1 DEF BrStopHolds
        <4>3. act[j].pc \in BrHandle \cup {"all", "closed"} => act[j].run # 0
          BY <4>1 DEF BrStopHolds, BrHandle
        <4> QED BY <4>1, <4>2, <4>3, <2>2 DEF BrStopHolds
      <3> QED BY <3>1, <3>2
    <2> QED BY <2>6, <2>7, <2>8, <2>9, <2>10, <2>11, <2>12 DEF BrInv
  <1> QED BY <1>1, <1>3, <1>4

\* A run starts with a new manager.
LEMMA BrRunStartKeeps ==
  ASSUME Br!BrowserAssumption, BrInv, Br!OnRunStart
  PROVE  BrInv'
  <1>1. /\ run' = [n |-> run.n + 1, on |-> TRUE] /\ ~plug.closed /\ plug.run = 0 /\ act["end"].pc = "idle"
        /\ plug' = [plug EXCEPT !.run = run.n + 1, !.live = TRUE, !.failed = FALSE, !.shut = FALSE]
        /\ UNCHANGED <<browserGate, act, inst, quiet>>
    BY DEF Br!OnRunStart
  <1>2. plug \in BrPlugRec /\ run \in [n : Nat, on : BOOLEAN]
    BY BrFacts
  <1>3. /\ plug' \in BrPlugRec /\ plug'.run = run.n + 1 /\ plug'.closed = plug.closed /\ run' \in [n : Nat, on : BOOLEAN]
        /\ run'.n = run.n + 1 /\ run.n + 1 # 0 /\ run'.on
    <2>1. PICK n \in Nat : n = run.n + 1 /\ n # 0
      BY <1>2
    <2>2. run' = [n |-> n, on |-> TRUE] /\ plug' = [plug EXCEPT !.run = n, !.live = TRUE, !.failed = FALSE, !.shut = FALSE]
      BY <1>1, <2>1
    <2>3. plug' \in BrPlugRec /\ plug'.run = n /\ plug'.closed = plug.closed
      BY <1>2, <2>2 DEF BrPlugRec
    <2> QED BY <2>1, <2>2, <2>3
  <1>4. act["close"].pc = "idle" /\ ~quiet
    BY <1>1 DEF BrInv, BrRunHolds
  <1>5. BrTyped'
    BY <1>1, <1>3 DEF BrInv, BrTyped
  <1>6. BrRunHolds'
    BY <1>1, <1>3, <1>4 DEF BrRunHolds
  <1>7. BrBudgetHolds'
    BY <1>1 DEF BrInv, BrBudgetHolds
  <1>8. \A i \in DOMAIN inst' : BrInstHolds(inst'[i], plug'.run)
    BY <1>1 DEF BrInv, BrInstHolds
  <1>9. \A k \in Br!Actor : BrActHolds(k)'
    BY <1>1 DEF BrInv, BrActHolds
  <1>10. ASSUME NEW c \in Caller PROVE BrCallHolds(c)'
    <2>1. BrCallHolds(c) /\ act'[c] = act[c]
      BY <1>1 DEF BrInv
    <2>2. act[c].pc \in BrWaits
      BY <2>1, <1>1 DEF BrCallHolds, BrWaits
    <2> QED BY <2>1, <2>2, <1>1 DEF BrCallHolds, BrWaits, BrBegin
  <1>11. ASSUME NEW k \in Br!Stopper PROVE BrStopHolds(k)'
    <2>1. BrStopHolds(k) /\ act'[k] = act[k] /\ act[k].pc = "idle"
      BY <1>1, <1>4 DEF BrInv, Br!Stopper
    <2> QED BY <2>1, <1>1 DEF BrStopHolds, BrHandle
  <1> QED BY <1>5, <1>6, <1>7, <1>8, <1>9, <1>10, <1>11 DEF BrInv

\* A browser is registered, if there is room.
LEMMA BrRegisterKeeps ==
  ASSUME Br!BrowserAssumption, BrInv, NEW c \in Caller, NEW id \in Id, Br!Register(c, id)
  PROVE  BrInv'
  <1> DEFINE n == Len(inst) + 1
             L == {i \in DOMAIN inst : inst[i].listed}
             M == {i \in DOMAIN inst' : inst'[i].listed}
  <1>1. PICK b : b = Br!NewInst(id)
    OBVIOUS
  <1>2. PICK r : r = [act[c] EXCEPT !.pc = "admitting", !.i = n]
    OBVIOUS
  <1>3. /\ act[c].pc = "asking" /\ act[c].pc \notin BrWaits /\ act[c].op = "start" /\ Br!Room(id)
        /\ inst' = Append(inst, b) /\ UNCHANGED <<run, plug, browserGate, quiet>>
    BY <1>1 DEF Br!Register, BrWaits
  <1>4. /\ browserGate = c /\ c \in Br!Actor /\ c \notin Br!Stopper /\ act[c] \in BrActRec /\ act[c].run # 0 /\ plug.run = act[c].run
        /\ act[c].todo \subseteq DOMAIN inst /\ c # "end" /\ c # "close"
    BY <1>3, HasBrowserGate
  <1>5. /\ inst \in Seq(BrInstRec) /\ Len(inst) \in Nat /\ DOMAIN inst = 1 .. Len(inst) /\ n \in Nat /\ n # 0
        /\ act \in [Br!Actor -> BrActRec] /\ plug \in BrPlugRec
    BY BrFacts
  <1>6. act' = [act EXCEPT ![c] = r]
    BY <1>2, <1>4, <1>5 DEF Br!Register, BrActRec
  <1>7. /\ r \in BrActRec /\ r.pc = "admitting" /\ r.i = n /\ r.run = act[c].run /\ r.todo = act[c].todo /\ r.op = "start"
    BY <1>2, <1>3, <1>4, <1>5 DEF BrActRec, BrCallStep, BrBegin
  <1>8. /\ b \in BrInstRec /\ b.run = plug.run /\ b.id = id /\ b.listed = TRUE /\ b.dir = TRUE /\ b.proc = "none"
        /\ b.ready = FALSE /\ b.drained = FALSE /\ b.writing = FALSE
    BY <1>1, <1>5 DEF Br!NewInst, BrInstRec, BrPlugRec, BrProcs
  <1>9. /\ inst' \in Seq(BrInstRec) /\ Len(inst') = n /\ DOMAIN inst' = 1 .. n /\ inst'[n] = b
        /\ DOMAIN inst' = DOMAIN inst \cup {n} /\ n \notin DOMAIN inst
        /\ \A i \in DOMAIN inst : inst'[i] = inst[i]
    BY <1>3, <1>5, <1>8
  <1>10. act' \in [Br!Actor -> BrActRec] /\ act'[c] = r /\ \A j \in Br!Actor \ {c} : act'[j] = act[j]
    BY <1>4, <1>5, <1>6, <1>7
  <1>11. BrTyped'
    BY <1>3, <1>9, <1>10 DEF BrInv, BrTyped
  <1>12. BrRunHolds'
    BY <1>3, <1>4, <1>10, BrActorsAre DEF BrInv, BrRunHolds
  <1>13. \A i \in DOMAIN inst' : BrInstHolds(inst'[i], plug'.run)
    <2>1. BrInstHolds(b, plug.run)
      BY <1>4, <1>8 DEF BrInstHolds
    <2> QED BY <2>1, <1>3, <1>9 DEF BrInv
  <1>14. L = Br!Listed(plug.run)
    BY DEF Br!Listed, BrInv, BrInstHolds
  <1>15. BrBudgetHolds'
    <2>1. M = L \cup {n} /\ n \notin L
      BY <1>8, <1>9
    <2>2. IsFiniteSet(L)
      <3>1. IsFiniteSet(1 .. Len(inst)) /\ L \subseteq 1 .. Len(inst)
        BY <1>5, FS_Interval
      <3> QED BY <3>1, FS_Subset
    <2>3. Cardinality(M) = Cardinality(L) + 1 /\ Cardinality(L) \in Nat
      BY <2>1, <2>2, FS_AddElement, FS_CardinalityType
    <2>4. Cardinality(L) < MaxListed /\ MaxListed \in Nat
      BY <1>3, <1>14 DEF Br!Room, Br!BrowserAssumption, Br!Cardinality, Cardinality
    <2>5. Cardinality(M) <= MaxListed
      BY <2>3, <2>4
    <2>6. ASSUME NEW i \in DOMAIN inst', NEW j \in DOMAIN inst', inst'[i].listed, inst'[j].listed, inst'[i].id = inst'[j].id
          PROVE  i = j
      <3>1. \A x \in L : inst[x].id # id
        BY <1>3, <1>14 DEF Br!Room
      <3>2. CASE i = n \/ j = n
        BY <3>1, <3>2, <2>6, <1>8, <1>9
      <3>3. CASE i # n /\ j # n
        BY <3>3, <2>6, <1>9 DEF BrInv, BrBudgetHolds
      <3> QED BY <3>2, <3>3
    <2> QED BY <2>5, <2>6 DEF BrBudgetHolds
  <1>16. ASSUME NEW j \in Br!Actor PROVE BrActHolds(j)'
    <2>1. CASE j = c
      <3>1. r.pc \notin BrHandle \cup {"remove", "drain"}
        BY <1>7 DEF BrHandle
      <3> QED BY <3>1, <2>1, <1>4, <1>5, <1>7, <1>9, <1>10 DEF BrActHolds
    <2>2. CASE j # c
      <3>1. BrActHolds(j) /\ act'[j] = act[j]
        BY <2>2, <1>10 DEF BrInv
      <3>2. act[j].i \in 0 .. Len(inst') /\ act[j].todo \subseteq DOMAIN inst'
        BY <3>1, <1>5, <1>9 DEF BrActHolds
      <3>3. CASE act[j].pc \in BrHandle
        <4>1. act[j].i \in DOMAIN inst
          <5>1. act[j].i \in 0 .. Len(inst) /\ act[j].i # 0
            BY <3>1, <3>3 DEF BrActHolds
          <5> QED BY <5>1, <1>5
        <4>2. inst'[act[j].i] = inst[act[j].i]
          BY <4>1, <1>9
        <4> QED BY <4>2, <3>1, <3>2, <3>3 DEF BrActHolds
      <3>4. CASE act[j].pc \notin BrHandle
        BY <3>4, <3>1, <3>2 DEF BrActHolds, BrHandle
      <3> QED BY <3>3, <3>4
    <2> QED BY <2>1, <2>2
  <1>17. ASSUME NEW d \in Caller PROVE BrCallHolds(d)'
    <2>1. CASE d = c
      <3>1. r.pc \in BrCallStep /\ r.pc \notin BrWaits \cup {"starting", "connecting"} /\ ~BrBegun(b)
        BY <1>7, <1>8 DEF BrCallStep, BrBegin, BrWaits, BrBegun
      <3> QED BY <3>1, <2>1, <1>3, <1>4, <1>5, <1>7, <1>8, <1>9, <1>10 DEF BrCallHolds
    <2>2. CASE d # c
      <3>1. d \in Br!Actor /\ BrCallHolds(d) /\ act'[d] = act[d] /\ browserGate' = browserGate /\ browserGate # d
        BY <2>2, <1>3, <1>4, <1>10, BrActorsAre DEF BrInv
      <3>2. act[d].pc \in BrWaits
        BY <3>1 DEF BrCallHolds
      <3> QED BY <3>1, <3>2 DEF BrCallHolds, BrWaits, BrBegin
    <2> QED BY <2>1, <2>2
  <1>18. ASSUME NEW k \in Br!Stopper PROVE BrStopHolds(k)'
    <2>1. k \in Br!Actor /\ k # c /\ BrStopHolds(k) /\ act'[k] = act[k] /\ browserGate' = browserGate /\ browserGate # k
      BY <1>3, <1>4, <1>10, BrActorsAre DEF BrInv
    <2>2. act[k].pc \notin {"emptied", "kept"}
      BY <2>1 DEF BrStopHolds
    <2>3. ~plug.shut /\ plug' = plug
      BY <1>3 DEF Br!Room
    <2> QED BY <2>1, <2>2, <2>3 DEF BrStopHolds
  <1> QED BY <1>11, <1>12, <1>13, <1>15, <1>16, <1>17, <1>18 DEF BrInv

LEMMA BrInit == ASSUME Br!BrowserAssumption, Br!Init PROVE BrInv
  <1>1. /\ Br!NoAct \in BrActRec /\ Br!NoAct.pc = "idle" /\ Br!NoAct.i = 0 /\ Br!NoAct.todo = {} /\ Br!NoRun \in BrPlugRec /\ Br!NoRun.run = 0
    BY DEF Br!NoAct, BrActRec, BrWaits, Br!NoRun, BrPlugRec
  <1>2. /\ run = [n |-> 0, on |-> FALSE] /\ plug = Br!NoRun /\ browserGate = Nobody /\ inst = <<>> /\ quiet = FALSE
        /\ \A k \in Br!Actor : act[k] = Br!NoAct
    BY DEF Br!Init
  <1>3. Len(inst) = 0 /\ DOMAIN inst = {} /\ inst \in Seq(BrInstRec) /\ act \in [Br!Actor -> BrActRec]
    BY <1>1, <1>2 DEF Br!Init
  <1>4. BrTyped
    BY <1>1, <1>2, <1>3 DEF BrTyped
  <1>5. BrRunHolds
    BY <1>1, <1>2, BrActorsAre DEF BrRunHolds
  <1>6. BrBudgetHolds
    <2>1. {i \in DOMAIN inst : inst[i].listed} = {}
      BY <1>3
    <2> QED BY <2>1, <1>3, FS_EmptySet DEF BrBudgetHolds, Br!BrowserAssumption
  <1>7. \A k \in Br!Actor : BrActHolds(k)
    BY <1>1, <1>2, <1>3 DEF BrActHolds, BrHandle
  <1>8. \A c \in Caller : BrCallHolds(c)
    BY <1>1, <1>2, BrActorsAre DEF BrCallHolds, BrWaits, BrBegin
  <1>9. \A k \in Br!Stopper : BrStopHolds(k)
    BY <1>1, <1>2, BrActorsAre DEF BrStopHolds, BrHandle
  <1> QED BY <1>3, <1>4, <1>5, <1>6, <1>7, <1>8, <1>9 DEF BrInv

LEMMA BrNext == ASSUME Br!BrowserAssumption, BrInv, [Br!Next]_Br!vars PROVE BrInv'
  <1>1. CASE UNCHANGED Br!vars
    <2>1. UNCHANGED <<run, plug, browserGate, act, inst, quiet>>
      BY <1>1 DEF Br!vars
    <2>2. run' \in [n : Nat, on : BOOLEAN] /\ plug' \in BrPlugRec
      BY <2>1, BrFacts
    <2> QED BY <2>1, <2>2, BrowsersStay, BrNoActorKeeps
  <1>2. CASE Br!OnRunStart
    BY <1>2, BrRunStartKeeps
  <1>3. CASE Br!CancelRun \/ Br!OnRunEnd \/ Br!Close
    BY <1>3, BrRunsKeep
  <1>4. ASSUME NEW c \in Caller,
               \/ Br!CallMoves(c) \/ Br!GiveUp(c) \/ Br!Authorized(c) \/ Br!AdmitFails(c, FALSE) \/ Br!Used(c, FALSE)
               \/ \E op \in {"start", "stop", "use"} : Br!Call(c, op)
               \/ \E id \in Id : Br!Register(c, id) \/ Br!StartRefused(c, id)
               \/ \E i \in DOMAIN inst : Br!StopNamed(c, i)
        PROVE  BrInv'
    <2>1. CASE Br!TakeGate(c) \/ Br!GiveUp(c) \/ Br!Returns(c)
      BY <2>1, BrGatesKeep
    <2>2. CASE Br!Authorized(c) \/ Br!Check(c) \/ Br!Admitted(c) \/ \E b \in BOOLEAN : Br!Used(c, b)
      BY <2>2, BrPassesKeep
    <2>3. CASE Br!Spawn(c) \/ Br!Connected(c) \/ \E b \in BOOLEAN : Br!AdmitFails(c, b)
      BY <2>3, BrStartsKeep
    <2>4. CASE Br!ConnectFails(c)
      <3>1. act[c].pc = "connecting" /\ act[c].pc \notin BrWaits
        BY <2>4 DEF Br!ConnectFails, BrWaits
      <3>2. act[c].i \in DOMAIN inst
        <4>1. act[c].i \in 0 .. Len(inst) /\ act[c].i # 0
          BY <3>1, HasBrowserGate DEF BrCallHolds
        <4> QED BY <4>1, BrFacts
      <3> QED BY <2>4, <3>2, BrStopsBegin
    <2>5. CASE \E i \in DOMAIN inst : Br!StopNamed(c, i)
      BY <2>5, BrStopsBegin
    <2>6. CASE \E op \in {"start", "stop", "use"} : Br!Call(c, op)
      BY <2>6, BrCallKeeps
    <2>7. CASE \E id \in Id : Br!Register(c, id)
      BY <2>7, BrRegisterKeeps
    <2>8. CASE \E id \in Id : Br!StartRefused(c, id)
      BY <2>8, BrPassesKeep
    <2> QED BY <1>4, <2>1, <2>2, <2>3, <2>4, <2>5, <2>6, <2>7, <2>8 DEF Br!CallMoves
  <1>5. ASSUME NEW k \in Br!Actor, Br!ActorMoves(k) \/ Br!Remove(k, FALSE) \/ Br!Settle(k, TRUE) \/ Br!Late(k)
        PROVE  BrInv'
    <2>1. CASE Br!CloseManager(k) \/ (\E i \in DOMAIN inst : Br!NextInst(k, i)) \/ Br!AllStopped(k)
      BY <2>1, BrManagerKeeps
    <2>2. CASE Br!Token(k)
      BY <2>2, BrTokenKeeps
    <2>3. CASE Br!Reaped(k) \/ \E b \in BOOLEAN : Br!Remove(k, b)
      BY <2>3, BrHandlesKeep
    <2>4. CASE Br!Join(k)
      BY <2>4, BrJoinKeeps
    <2>5. CASE \E b \in BOOLEAN : Br!Settle(k, b)
      BY <2>5, BrSettleKeeps
    <2>6. CASE Br!Late(k)
      BY <2>6, BrLateKeeps
    <2> QED BY <1>5, <2>1, <2>2, <2>3, <2>4, <2>5, <2>6 DEF Br!ActorMoves
  <1>6. ASSUME NEW i \in DOMAIN inst,
               Br!Ends(i) \/ Br!Reap(i, FALSE) \/ Br!Reap(i, TRUE) \/ Br!Drain(i) \/ Br!ReadLine(i) \/ Br!Written(i, FALSE) \/ Br!Written(i, TRUE)
        PROVE  BrInv'
    BY <1>6, BrProcessesKeep
  <1> QED BY <1>1, <1>2, <1>3, <1>4, <1>5, <1>6 DEF Br!Next

\* What the invariant says of the browsers.
LEMMA BrSays ==
  ASSUME Br!BrowserAssumption, BrInv
  PROVE  Br!BrowserTypeOK /\ Br!NothingForgotten /\ Br!OutputIsOfItsRun /\ Br!BudgetIsReal /\ Br!ClosedIsEmpty
  <1>1. Br!BrowserTypeOK
    BY BrFacts DEF BrInv, BrTyped, BrRunHolds, BrActHolds, Br!BrowserTypeOK, BrInstRec, BrProcs
  <1>2. \A i \in DOMAIN inst : BrInstHolds(inst[i], plug.run)
    BY DEF BrInv
  <1>3. Br!NothingForgotten
    BY <1>2 DEF Br!NothingForgotten, Br!Clean, BrInstHolds
  <1>4. Br!OutputIsOfItsRun
    BY <1>2 DEF Br!OutputIsOfItsRun, BrInstHolds
  <1>5. Br!BudgetIsReal
    <2> DEFINE L == {i \in DOMAIN inst : inst[i].listed}
               left == {i \in DOMAIN inst : ~Br!Clean(i)}
    <2>1. left \subseteq L
      BY <1>2 DEF Br!Clean, BrInstHolds
    <2>2. IsFiniteSet(L)
      <3>1. IsFiniteSet(1 .. Len(inst)) /\ L \subseteq 1 .. Len(inst)
        BY BrFacts, FS_Interval
      <3> QED BY <3>1, FS_Subset
    <2>3. Cardinality(left) <= Cardinality(L) /\ Cardinality(left) \in Nat /\ Cardinality(L) \in Nat
      BY <2>1, <2>2, FS_Subset, FS_CardinalityType
    <2>4. Cardinality(L) <= MaxListed /\ MaxListed \in Nat
      BY DEF BrInv, BrBudgetHolds, Br!BrowserAssumption
    <2>5. Cardinality(left) <= MaxListed
      BY <2>3, <2>4
    <2>6. \A i, j \in left : inst[i].id = inst[j].id => i = j
      BY <2>1 DEF BrInv, BrBudgetHolds
    <2> QED BY <2>5, <2>6 DEF Br!BudgetIsReal, Br!Cardinality, Cardinality
  <1>6. Br!ClosedIsEmpty
    <2>1. quiet => plug.run = 0
      BY DEF BrInv, BrRunHolds
    <2> QED BY <2>1, <1>2 DEF Br!ClosedIsEmpty, Br!Clean, BrInstHolds
  <1> QED BY <1>1, <1>3, <1>4, <1>5, <1>6

\* The manager and the plugin of `extension/browser` keep the invariant in every step.
THEOREM BrowserInvariant == Br!BrowserAssumption /\ Br!Spec => []BrInv
  <1> SUFFICES ASSUME Br!BrowserAssumption PROVE Br!Spec => []BrInv
    OBVIOUS
  <1>1. Br!Init => BrInv
    BY BrInit
  <1>2. ASSUME BrInv, [Br!Next]_Br!vars PROVE BrInv'
    BY <1>2, BrNext
  <1> QED BY <1>1, <1>2, PTL DEF Br!Spec

\* No browser, profile or reader is forgotten, output gets into the journal of
\* its own run only, the budget is of browsers that exist, and a Close without
\* an error leaves nothing: for any calls, names, runs and failures.
THEOREM BrowserForgetsNothing ==
    Br!BrowserAssumption /\ Br!Spec =>
        [](Br!BrowserTypeOK /\ Br!NothingForgotten /\ Br!OutputIsOfItsRun /\ Br!BudgetIsReal /\ Br!ClosedIsEmpty)
  <1> SUFFICES ASSUME Br!BrowserAssumption
               PROVE  Br!Spec => [](Br!BrowserTypeOK /\ Br!NothingForgotten /\ Br!OutputIsOfItsRun /\ Br!BudgetIsReal /\ Br!ClosedIsEmpty)
    OBVIOUS
  <1>1. BrInv => Br!BrowserTypeOK /\ Br!NothingForgotten /\ Br!OutputIsOfItsRun /\ Br!BudgetIsReal /\ Br!ClosedIsEmpty
    BY BrSays
  <1> QED BY <1>1, BrowserInvariant, PTL

=============================================================================
