---------------------------- MODULE EngineStream ----------------------------
(***************************************************************************)
(* The event stream of one engine execution, as seen by its consumer       *)
(* (integration/engine/contract.go and wait.go).                           *)
(*                                                                         *)
(* An engine adapter is foreign code: it may call the observer with any    *)
(* event.  StreamContract is the consumer-side checker that decides which  *)
(* event may follow the ones already accepted.  It is a value, not a       *)
(* process: Accepts is the error result of StreamContract.Accept and       *)
(* Advance the contract after an accepted event.                           *)
(*                                                                         *)
(* Texts, names, usage counters and the byte bounds on them are left out.  *)
(* Every event that Accept rejects because of its own fields (an empty id, *)
(* an unknown kind, a text over its budget) is one event of kind           *)
(* "malformed".                                                            *)
(***************************************************************************)
EXTENDS Naturals

CONSTANTS
    Native,        \* identities an engine may give to its native session
    NoNative,      \* the empty native identity
    Tool,          \* tool call identities of one stream
    NoTool,        \* the empty tool call identity
    MaxRevision    \* bound on the durable checkpoint revisions

ASSUME NativeAssumption == NoNative \notin Native
ASSUME ToolAssumption == NoTool \notin Tool
ASSUME RevisionAssumption == MaxRevision \in Nat

NativeOrNone == Native \cup {NoNative}

\* A WaitCheckpoint is its revision; 0 is the nil checkpoint and also every
\* checkpoint that WaitCheckpoint.Validate refuses.
Checkpoint == 0..MaxRevision

ValidCheckpoint(w) == w # 0

Outcome == {"completed", "failed", "cancelled", "interrupted", "waiting"}

\* "startup" stands for both kinds that permit an automatic retry (startup and
\* rate_limit) and "execution" for those that never do (execution, protocol,
\* cancelled).
FailureKind == {"none", "startup", "execution"}

Retryable == {"startup"}

\* "write" stands for write, execute, network and unknown.
Effect == {"none", "read", "write"}

-----------------------------------------------------------------------------

Blank ==
    [ kind        |-> "message",
      native      |-> NoNative,     \* Event.SessionID
      ref         |-> NoNative,     \* Event.Reference.SessionID
      id          |-> NoTool,
      effect      |-> "none",
      recoverable |-> FALSE,
      failure     |-> "none",
      outcome     |-> "failed",
      wait        |-> 0 ]

Message(ref)           == [Blank EXCEPT !.ref = ref]
SessionStarted(nat)    == [Blank EXCEPT !.kind = "session_started", !.native = nat]
Activity(nat, fx)      == [Blank EXCEPT !.kind = "execution_activity",
                                        !.native = nat, !.effect = fx]
ToolStart(t, fx)       == [Blank EXCEPT !.kind = "tool_start", !.id = t, !.effect = fx]
ToolEnd(t)             == [Blank EXCEPT !.kind = "tool_end", !.id = t]
Error(rec, f)          == [Blank EXCEPT !.kind = "error", !.recoverable = rec, !.failure = f]
Completed(o, w)        == [Blank EXCEPT !.kind = "completed", !.outcome = o, !.wait = w]
Malformed              == [Blank EXCEPT !.kind = "malformed"]

\* Everything an adapter can say.
Event ==
    {Message(r) : r \in NativeOrNone}
      \cup {SessionStarted(n) : n \in NativeOrNone}
      \cup {Activity(n, fx) : n \in NativeOrNone, fx \in Effect}
      \cup {ToolStart(t, fx) : t \in Tool, fx \in Effect}
      \cup {ToolEnd(t) : t \in Tool}
      \cup {Error(r, f) : r \in BOOLEAN, f \in FailureKind \ {"none"}}
      \cup {Completed(o, w) : o \in Outcome, w \in Checkpoint}
      \cup {Malformed}

EventType ==
    [ kind : {"message", "session_started", "execution_activity", "tool_start",
              "tool_end", "error", "completed", "malformed"},
      native : NativeOrNone, ref : NativeOrNone, id : Tool \cup {NoTool},
      effect : Effect, recoverable : BOOLEAN, failure : FailureKind,
      outcome : Outcome, wait : Checkpoint ]

IsFatal(e)       == e.kind = "error" /\ ~e.recoverable
IsWaiting(e)     == e.kind = "completed" /\ e.outcome = "waiting"
NamesNative(e)   == e.kind = "session_started"
                      \/ (e.kind = "execution_activity" /\ e.native # NoNative)

-----------------------------------------------------------------------------

Contract ==
    [ started : BOOLEAN, terminal : BOOLEAN, fatal : BOOLEAN,
      native : NativeOrNone, tools : SUBSET Tool ]

NewContract ==
    [ started |-> FALSE, terminal |-> FALSE, fatal |-> FALSE,
      native |-> NoNative, tools |-> {} ]

\* The switch of StreamContract.Accept, one conjunct per kind.
AcceptsKind(c, e) ==
    /\ e.kind # "malformed"
    /\ e.kind = "session_started" => ~c.started /\ e.native # NoNative
    /\ e.kind = "tool_start"      => e.id \notin c.tools
    /\ e.kind = "tool_end"        => e.id \in c.tools
    /\ e.kind = "completed" =>
         /\ c.tools = {}
         /\ c.fatal => e.outcome \notin {"completed", "waiting"}
         /\ IF e.outcome = "waiting"
              THEN c.started /\ ValidCheckpoint(e.wait)
              ELSE e.wait = 0

Accepts(c, e) ==
    /\ ~c.terminal
    /\ c.fatal => e.kind = "completed"
    /\ e.wait # 0 => IsWaiting(e)
    /\ e.native # NoNative /\ c.native # NoNative => e.native = c.native
    /\ AcceptsKind(c, e)

Advance(c, e) ==
    [ started  |-> c.started \/ e.kind = "session_started",
      terminal |-> e.kind = "completed",
      fatal    |-> IF e.kind = "error" THEN ~e.recoverable ELSE c.fatal,
      native   |-> IF e.native # NoNative THEN e.native ELSE c.native,
      tools    |-> CASE e.kind = "tool_start" -> c.tools \cup {e.id}
                     [] e.kind = "tool_end"   -> c.tools \ {e.id}
                     [] OTHER                 -> c.tools ]
=============================================================================
