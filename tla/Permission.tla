----------------------------- MODULE Permission -----------------------------
(***************************************************************************)
(* Authorization of tool calls and the approval broker behind it           *)
(* (sdk/agent/security/permission.go, platform/host/approval.go).          *)
(*                                                                         *)
(* Goroutines of tool calls ask for permission.  Those of one invocation   *)
(* share a flight; its owner asks the user through the broker, and leaves  *)
(* the decision for the others.  A policy change of the host invalidates   *)
(* what was decided, or asked, before it: revision counts changes of the   *)
(* whole policy and generation those of one session.                       *)
(***************************************************************************)
EXTENDS Integers, Sequences, FiniteSets

CONSTANTS
    Request,        \* goroutines in Authorize
    SessionOf, ToolOf,   \* functions on Request: what is asked
    CallOf,         \* and its invocation, "none" without one
    Mode,           \* modes the host sets: of "ask", "accept_edits", "plan"
    Capacity,       \* pending requests of the broker (32)
    MaxFlight,      \* flights the manager keeps (4096)
    MaxChange,      \* bound on policy changes
    Ops,            \* what happens besides: "cancel", "close"
    Nobody          \* no request

\* The fingerprint of an invocation holds its session and its tool.
PermissionAssumption ==
    /\ IsFiniteSet(Request) /\ Nobody \notin Request /\ Capacity \in Nat /\ MaxFlight \in Nat
    /\ \A r, o \in Request : CallOf[r] = CallOf[o] /\ CallOf[r] # "none" =>
         SessionOf[r] = SessionOf[o] /\ ToolOf[r] = ToolOf[o]

VARIABLES
    policy,    \* modes, revision, generations, and the serial of the last flight
    cache,     \* decisions for a session and a tool
    flights,   \* the owners of the flights that are kept, with their serials
    req,       \* the state of each request
    broker,    \* pending requests and whether the broker is closed
    consent,   \* history: what users said, and when
    epoch      \* history: policy changes that concern a session

vars == <<policy, cache, flights, req, broker, consent, epoch>>

Session == {SessionOf[r] : r \in Request}
Answer  == [allowed : BOOLEAN, scope : {"once", "session"}]
Broken  == [allowed |-> FALSE, scope |-> "broken"]
NoReq   == [pc |-> "new", cancelled |-> FALSE, rev |-> 0, gen |-> 0, joins |-> Nobody, reply |-> <<>>,
            result |-> "none", asked |-> FALSE, epoch |-> 0]

Init ==
    /\ policy = [base |-> "ask", own |-> [s \in Session |-> "none"], rev |-> 0, gen |-> [s \in Session |-> 0], serial |-> 0]
    /\ cache = {} /\ flights = [r \in {} |-> 0]
    /\ req = [r \in Request |-> NoReq]
    /\ broker = [pending |-> {}, closed |-> FALSE]
    /\ consent = {} /\ epoch = [s \in Session |-> 0]

ModeFor(s)   == IF policy.own[s] # "none" THEN policy.own[s] ELSE policy.base
Cached(r)    == {d \in cache : d.session = SessionOf[r] /\ d.tool = ToolOf[r]}
FlightOf(c)  == {o \in DOMAIN flights : CallOf[o] = c}
Without(F)   == [o \in DOMAIN flights \ F |-> flights[o]]
Complete(r)  == req[r].pc = "done"
Return(r, result) == req' = [req EXCEPT ![r].pc = "done", ![r].result = result]

-----------------------------------------------------------------------------
(* Authorize.                                                              *)

Begin(r) == LET s == SessionOf[r] IN
    /\ req[r].pc = "new"
    /\ CASE req[r].cancelled -> Return(r, "error")
         [] ~req[r].cancelled /\ ModeFor(s) = "plan" -> Return(r, "denied")
         [] ~req[r].cancelled /\ ModeFor(s) = "accept_edits" -> Return(r, "allowed")
         [] OTHER -> \/ \E d \in Cached(r) : req' = [req EXCEPT ![r].pc = "done", ![r].asked = TRUE,
                                                       ![r].result = IF d.allowed THEN "allowed" ELSE "denied"]
                     \/ Cached(r) = {} /\ req' = [req EXCEPT ![r].pc = "fly", ![r].rev = policy.rev,
                                                       ![r].gen = policy.gen[s], ![r].epoch = epoch[s]]
    /\ UNCHANGED <<policy, cache, flights, broker, consent, epoch>>

\* A faulty variant that forgets changes for one session.
Current_RevisionOnly(r) == policy.rev = req[r].rev

Current(r) == policy.rev = req[r].rev /\ policy.gen[SessionOf[r]] = req[r].gen

HasRoom   == Cardinality(DOMAIN flights) < MaxFlight
Evictable == {o \in DOMAIN flights : Complete(o)}
Oldest(o) == o \in Evictable /\ \A other \in Evictable : flights[o] <= flights[other]

\* A new flight beside those that are kept.
Start(r, kept) ==
    /\ flights' = [o \in DOMAIN kept \cup {r} |-> IF o = r THEN policy.serial + 1 ELSE kept[o]]
    /\ policy' = [policy EXCEPT !.serial = @ + 1]
    /\ req' = [req EXCEPT ![r].pc = "ask"]

\* Join the flight of this invocation, or start one; the oldest that is
\* complete makes room for it.
Join(r) == \E o \in FlightOf(CallOf[r]) : req' = [req EXCEPT ![r].pc = "join", ![r].joins = o]

Fly(r) ==
    /\ req[r].pc = "fly"
    /\ \/ CallOf[r] = "none" /\ req' = [req EXCEPT ![r].pc = "ask"] /\ UNCHANGED <<policy, flights>>
       \/ CallOf[r] # "none" /\ ~Current(r) /\ Return(r, "denied") /\ UNCHANGED <<policy, flights>>
       \/ CallOf[r] # "none" /\ Current(r) /\ Join(r) /\ UNCHANGED <<policy, flights>>
       \/ /\ CallOf[r] # "none" /\ Current(r) /\ FlightOf(CallOf[r]) = {}
          /\ \/ HasRoom /\ Start(r, flights)
             \/ ~HasRoom /\ \E o \in Evictable : Oldest(o) /\ Start(r, Without({o}))
             \/ ~HasRoom /\ Evictable = {} /\ Return(r, "error") /\ UNCHANGED <<policy, flights>>
    /\ UNCHANGED <<cache, broker, consent, epoch>>

Joined(r) ==
    /\ req[r].pc = "join"
    /\ \/ req[r].cancelled /\ Return(r, "error")
       \/ /\ Complete(req[r].joins) /\ ~req[r].cancelled
          /\ IF Current(r) /\ req[r].joins \in DOMAIN flights
             THEN req' = [req EXCEPT ![r].pc = "done", ![r].asked = TRUE, ![r].result = req[req[r].joins].result]
             ELSE Return(r, "denied")
    /\ UNCHANGED <<policy, cache, flights, broker, consent, epoch>>

\* The last section of the owner: keep, and share, what was decided.
Decide(r) == LET d == IF req[r].reply = <<>> \/ req[r].cancelled THEN Broken ELSE Head(req[r].reply)
                 valid == Current(r) /\ (CallOf[r] = "none" \/ r \in DOMAIN flights)
                 heard == valid /\ d # Broken
             IN
    /\ req[r].pc = "decide"
    /\ cache' = IF heard /\ d.scope = "session"
                THEN (cache \ Cached(r)) \cup {[session |-> SessionOf[r], tool |-> ToolOf[r], allowed |-> d.allowed]}
                ELSE cache
    /\ req' = [req EXCEPT ![r].pc = "done", ![r].asked = TRUE,
                  ![r].result = CASE heard /\ d.allowed -> "allowed" [] valid /\ ~heard -> "error" [] OTHER -> "denied"]
    /\ flights' = IF valid /\ ~heard THEN Without({r}) ELSE flights
    /\ UNCHANGED <<policy, broker, consent, epoch>>

-----------------------------------------------------------------------------
(* ApprovalBroker.                                                         *)

Admits == ~broker.closed /\ Cardinality(broker.pending) < Capacity

Ask(r) ==
    /\ req[r].pc = "ask"
    /\ IF ~req[r].cancelled /\ Admits
       THEN req' = [req EXCEPT ![r].pc = "wait"] /\ broker' = [broker EXCEPT !.pending = @ \cup {r}]
       ELSE req' = [req EXCEPT ![r].pc = "decide"] /\ UNCHANGED broker
    /\ UNCHANGED <<policy, cache, flights, consent, epoch>>

Wake(r) ==
    /\ req[r].pc = "wait" /\ (req[r].cancelled \/ req[r].reply # <<>>)
    /\ req' = [req EXCEPT ![r].pc = "leave"]
    /\ UNCHANGED <<policy, cache, flights, broker, consent, epoch>>

Left(r) == broker.pending \ {r}

Leave(r) ==
    /\ req[r].pc = "leave" /\ req' = [req EXCEPT ![r].pc = "decide"]
    /\ broker' = [broker EXCEPT !.pending = Left(r)]
    /\ UNCHANGED <<policy, cache, flights, consent, epoch>>

Taken(r) == broker.pending \ {r}

Respond(r, answer) ==
    /\ r \in broker.pending /\ ~req[r].cancelled /\ ~broker.closed
    /\ broker' = [broker EXCEPT !.pending = Taken(r)]
    /\ req' = [req EXCEPT ![r].reply = Append(@, answer)]
    /\ consent' = consent \cup {[request |-> r, answer |-> answer, epoch |-> epoch[SessionOf[r]]]}
    /\ UNCHANGED <<policy, cache, flights, epoch>>

Close ==
    /\ ~broker.closed /\ broker' = [pending |-> {}, closed |-> TRUE]
    /\ req' = [r \in Request |-> IF r \in broker.pending THEN [req[r] EXCEPT !.reply = Append(@, Broken)] ELSE req[r]]
    /\ UNCHANGED <<policy, cache, flights, consent, epoch>>

-----------------------------------------------------------------------------
(* The host.                                                               *)

Cancel(r) ==
    /\ req[r].pc # "done" /\ ~req[r].cancelled /\ req' = [req EXCEPT ![r].cancelled = TRUE]
    /\ UNCHANGED <<policy, cache, flights, broker, consent, epoch>>

Changeable == \A s \in Session : epoch[s] < MaxChange

Forgotten(s) == {d \in cache : d.session # s}

\* SetSessionMode, and ClearSession for "none".
SetSessionMode(s, mode) ==
    /\ Changeable
    /\ policy' = [policy EXCEPT !.own[s] = mode, !.gen[s] = @ + 1]
    /\ cache' = Forgotten(s) /\ flights' = Without({r \in Request : SessionOf[r] = s})
    /\ epoch' = [epoch EXCEPT ![s] = @ + 1]
    /\ UNCHANGED <<req, broker, consent>>

SetMode(mode) ==
    /\ Changeable
    /\ policy' = [policy EXCEPT !.base = mode, !.rev = @ + 1, !.own = [s \in Session |-> "none"]]
    /\ cache' = {} /\ flights' = Without(Request)
    /\ epoch' = [s \in Session |-> epoch[s] + 1]
    /\ UNCHANGED <<req, broker, consent>>

-----------------------------------------------------------------------------
Step(r) == Begin(r) \/ Fly(r) \/ Joined(r) \/ Ask(r) \/ Wake(r) \/ Leave(r) \/ Decide(r)

Next ==
    \/ \E r \in Request : Step(r) \/ ("cancel" \in Ops /\ Cancel(r)) \/ \E answer \in Answer : Respond(r, answer)
    \/ \E s \in Session, mode \in Mode \cup {"none"} : SetSessionMode(s, mode)
    \/ \E mode \in Mode : SetMode(mode)
    \/ "close" \in Ops /\ Close

\* Fairness is of every Step(r): goroutines go on; users, the host and
\* cancellation need not.
Spec == Init /\ [][Next]_vars

-----------------------------------------------------------------------------
(* Properties: those with primes are of every step.                       *)

\* Shapes; the broker and the manager keep their budgets.
PermissionTypeOK ==
    /\ broker.pending \subseteq Request /\ Cardinality(broker.pending) <= Capacity
    /\ Cardinality(DOMAIN flights) <= MaxFlight
    /\ \A o, p \in DOMAIN flights : CallOf[o] = CallOf[p] => o = p
    /\ \A r \in Request : req[r].result \in {"none", "allowed", "denied", "error"}

\* What a user permits counts for that invocation, or that tool of the
\* session, until the policy changes: nothing runs on an older permission.
ConsentIsCurrent == \A r \in Request : (req'[r].result = "allowed" /\ req[r].result = "none" /\ req'[r].asked) =>
    \E k \in consent : /\ k.answer.allowed /\ SessionOf[k.request] = SessionOf[r] /\ k.epoch = epoch[SessionOf[r]]
                       /\ \/ k.request = r \/ (CallOf[k.request] = CallOf[r] /\ CallOf[r] # "none")
                          \/ k.answer.scope = "session" /\ ToolOf[k.request] = ToolOf[r]

\* The user is asked once for an invocation, as long as nothing changes.
AskedOnce == \A r, s \in Request :
    (r # s /\ CallOf[r] = CallOf[s] /\ CallOf[r] # "none" /\ {r, s} \subseteq broker.pending) =>
       req[r].cancelled \/ req[s].cancelled \/ req[r].epoch # req[s].epoch

\* A request has at most one reply, whose channel holds no more: the broker
\* never blocks under its lock.
RepliesFit == \A r \in Request : Len(req[r].reply) <= 1

\* Whoever waits for a user is listed, and nobody else is.
ListedIsWaiting == \A r \in Request :
    /\ req[r].pc = "wait" /\ ~req[r].cancelled /\ req[r].reply = <<>> => r \in broker.pending
    /\ r \in broker.pending => req[r].pc \in {"wait", "leave"}

\* Not for ever: a closed broker leaves no request, those that joined another
\* one's flight included.
Unended(r) == broker.closed /\ req[r].pc \notin {"new", "done"}
=============================================================================
