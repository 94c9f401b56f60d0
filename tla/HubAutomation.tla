--------------------------- MODULE HubAutomation ---------------------------
(***************************************************************************)
(* Scheduled turns (apps/hub/sqlite/automation.go, apps/hub/automation.go, *)
(* apps/hub/product/automation.go).                                        *)
(*                                                                         *)
(* An automation is a prompt with an interval, pinned to the route its     *)
(* session had when it was written.  It starts paused; the user enables    *)
(* exactly the revision that was reviewed.  A ticker lists what is due and *)
(* claims each one in a transaction that checks everything again.  Missed  *)
(* times are skipped, failures pause the automation, and nothing is        *)
(* replayed after a crash.                                                 *)
(*                                                                         *)
(* Revisions are only compared for equality, so the model keeps for each   *)
(* holder of a revision whether it still is the row's.                     *)
(***************************************************************************)
EXTENDS Integers, FiniteSets

CONSTANTS
    Session, Automation, SessionOf,   \* SessionOf[a] is the session of a
    Draft, Interval,                  \* prompts, and the interval of each
    Route, Configured,                \* routes, and those the service has
    MaxAutomation,                    \* 100 in the code
    MaxTime,                          \* bound on the clock
    Ops    \* what happens besides: "message", "wait", "switch", "lead",
           \* "fault", "close", "crash"

None == "none"

\* Identities are not the placeholder, and the shortest interval is a minute.
ASSUME AutomationAssumption ==
    /\ None \notin Automation \cup Draft \cup Route /\ Configured \subseteq Route
    /\ SessionOf \in [Automation -> Session] /\ Interval \in [Draft -> Nat \ {0}]
    /\ MaxAutomation \in Nat

VARIABLES
    row,       \* the row of each automation, or NoRow
    route,     \* the active branch and route of each session
    lead,      \* sessions that lead a team
    sess,      \* the status of each session: "idle" is any outcome
    turnOf,    \* the automation whose turn is the session's live one, or None
    run,       \* the session's entry in the active table of the runtime
    tick,      \* the ticker: its phase, the time it took, what is left to do
               \* and the automation it is at
    tickRev,   \* automations of which the ticker's revision is current
    userRev,   \* automations of which the user's revision is current
    seen,      \* what the user saw of each automation
    closed,    \* "no", "closing" or "closed": AutomationCoordinator.Close
    now,       \* the clock
    consent,   \* history: what the user agreed to run, or NoConsent
    quiet      \* history: when each automation was last enabled or settled,
               \* or the store opened

rows == <<row, tickRev, userRev, consent, quiet>>
sessions == <<route, lead, sess, turnOf>>
automationVars == <<rows, sessions, run, tick, seen, closed, now>>

NoConsent == [draft |-> None, route |-> None]
NoRow     == [draft |-> None, route |-> None, enabled |-> FALSE, next |-> 0, running |-> FALSE]
Off       == [at |-> "off", time |-> 0, todo |-> {}, cur |-> None]

AutomationInit ==
    /\ row = [a \in Automation |-> NoRow]
    /\ route \in [Session -> Configured]
    /\ lead = {}
    /\ sess = [s \in Session |-> "idle"]
    /\ turnOf = [s \in Session |-> None]
    /\ run = [s \in Session |-> "none"]
    /\ tick = Off
    /\ tickRev = {} /\ userRev = {}
    /\ seen = [a \in Automation |-> NoConsent]
    /\ closed = "no"
    /\ now = 1
    /\ consent = [a \in Automation |-> NoConsent]
    /\ quiet = [a \in Automation |-> 0]

-----------------------------------------------------------------------------
(* The rows.                                                               *)

Exists(a)   == row[a] # NoRow
Ordinary(s) == s \notin lead
Every(a)    == Interval[row[a].draft]
Occupied(s) == sess[s] # "idle"

Paused(r)       == [r EXCEPT !.enabled = FALSE, !.next = 0]
Shown(r)        == [draft |-> r.draft, route |-> r.route]

\* The row of a is written, with its next revision.
Write(a, r) ==
    /\ row' = [row EXCEPT ![a] = r]
    /\ tickRev' = tickRev \ {a} /\ userRev' = userRev \ {a}
    /\ consent' = [consent EXCEPT ![a] = IF r.enabled THEN @ ELSE NoConsent]

Edit(a, r) ==
    /\ Write(a, r)
    /\ UNCHANGED <<quiet, sessions, run, tick, seen, closed, now>>

MayCreate == Cardinality({b \in Automation : Exists(b)}) < MaxAutomation

CreateAutomation(a, d) ==
    /\ ~Exists(a) /\ Ordinary(SessionOf[a]) /\ MayCreate
    /\ Edit(a, [NoRow EXCEPT !.draft = d, !.route = route[SessionOf[a]]])

Current(a) == Exists(a) /\ a \in userRev

UpdateAutomation(a, d) ==
    /\ Current(a) /\ ~row[a].running /\ Ordinary(SessionOf[a])
    /\ Edit(a, [Paused(row[a]) EXCEPT !.draft = d, !.route = route[SessionOf[a]]])

DeleteAutomation(a) ==
    /\ Current(a) /\ ~row[a].running
    /\ Edit(a, NoRow)

\* Pausing is possible during a run.
Disable(a) ==
    /\ Current(a)
    /\ Edit(a, Paused(row[a]))

\* With the user's approval of what was shown.
Enable(a) ==
    /\ Current(a) /\ ~row[a].running /\ Ordinary(SessionOf[a])
    /\ row[a].route = route[SessionOf[a]] /\ row[a].route \in Configured
    /\ row' = [row EXCEPT ![a].enabled = TRUE, ![a].next = now + Every(a)]
    /\ tickRev' = tickRev \ {a} /\ userRev' = userRev \ {a}
    /\ consent' = [consent EXCEPT ![a] = seen[a]]
    /\ quiet' = [quiet EXCEPT ![a] = now]
    /\ UNCHANGED <<sessions, run, tick, seen, closed, now>>

View(a) ==
    /\ Exists(a)
    /\ userRev' = userRev \cup {a}
    /\ seen' = [seen EXCEPT ![a] = Shown(row[a])]
    /\ UNCHANGED <<row, tickRev, consent, quiet, sessions, run, tick, closed, now>>

-----------------------------------------------------------------------------
(* The ticker.                                                             *)

At(phase)   == tick.at = phase /\ closed = "no"
Phase(p)    == tick' = [tick EXCEPT !.at = p]
NextItem    == tick' = [tick EXCEPT !.at = "listed", !.todo = @ \ {tick.cur}, !.cur = None]

Start ==
    /\ At("off") /\ tick' = [tick EXCEPT !.at = "idle"]
    /\ UNCHANGED <<rows, sessions, run, seen, closed, now>>

TickBegins ==
    /\ At("idle") /\ tick' = [tick EXCEPT !.at = "due", !.time = now]
    /\ UNCHANGED <<rows, sessions, run, seen, closed, now>>

Due(a, t) == row[a].enabled /\ ~row[a].running /\ row[a].next \in 1..t

\* DueAutomations; an empty list, or an item that is gone, ends the tick.
TickLists ==
    /\ At("due")
    /\ LET due == {a \in Automation : Due(a, tick.time)} IN
          tickRev' = due /\ tick' = [tick EXCEPT !.at = "listed", !.todo = due]
    /\ UNCHANGED <<row, userRev, consent, quiet, sessions, run, seen, closed, now>>

\* The ticker reads the item before it decides what to do with it.
TickReads ==
    /\ At("listed")
    /\ IF tick.todo = {} THEN tick' = [Off EXCEPT !.at = "idle"]
       ELSE \E a \in tick.todo :
          tick' = IF ~Exists(a) THEN [Off EXCEPT !.at = "idle"]
                  ELSE [tick EXCEPT !.cur = a,
                           !.at = IF row[a].route \in Configured THEN "starting" ELSE "pausing"]
    /\ UNCHANGED <<rows, sessions, run, seen, closed, now>>

\* Runtime.start refuses a session that has a run, even one that is leaving.
TickEnters ==
    /\ At("starting")
    /\ LET s == SessionOf[tick.cur] IN
          IF run[s] = "none" THEN run' = [run EXCEPT ![s] = "admitting"] /\ Phase("claiming")
                             ELSE Phase("skipping") /\ UNCHANGED run
    /\ UNCHANGED <<rows, sessions, seen, closed, now>>

StillDue(a) == a \in tickRev /\ Due(a, tick.time)

RouteHolds(a) == Ordinary(SessionOf[a]) /\ route[SessionOf[a]] = row[a].route

Missed(a) == tick.time - row[a].next >= Every(a)

\* No time is made up for: the next one is an interval after this tick.
Skipped(a) == [row[a] EXCEPT !.next = tick.time + Every(a)]

\* ClaimAutomation refuses the item, and Runtime.start removes its entry.
Refuses(a) ==
    /\ run' = [run EXCEPT ![SessionOf[a]] = "none"] /\ NextItem
    /\ CASE ~StillDue(a) -> UNCHANGED rows
         [] StillDue(a) /\ ~RouteHolds(a) -> Write(a, Paused(row[a])) /\ UNCHANGED quiet
         [] OTHER -> Write(a, Skipped(a)) /\ UNCHANGED quiet

Starts(a) == StillDue(a) /\ RouteHolds(a) /\ ~Occupied(SessionOf[a]) /\ ~Missed(a)

\* The transaction may already be under way when Close is called.
TickClaims ==
    /\ tick.at = "claiming"
    /\ LET a == tick.cur IN
       \/ ~Starts(a) /\ Refuses(a) /\ UNCHANGED sessions
       \/ /\ Starts(a)
          /\ Write(a, [row[a] EXCEPT !.running = TRUE, !.next = 0])
          /\ sess' = [sess EXCEPT ![SessionOf[a]] = "running"]
          /\ turnOf' = [turnOf EXCEPT ![SessionOf[a]] = a]
          /\ run' = [run EXCEPT ![SessionOf[a]] = "executing"]
          /\ NextItem /\ UNCHANGED <<quiet, route, lead>>
    /\ UNCHANGED <<seen, closed, now>>

\* The claim fails for another reason: the automation is paused.
TickFails ==
    /\ At("claiming")
    /\ run' = [run EXCEPT ![SessionOf[tick.cur]] = "none"] /\ Phase("pausing")
    /\ UNCHANGED <<rows, sessions, seen, closed, now>>

\* SkipBusyAutomation and PauseInvalidAutomation check the revision again.
TickSkips ==
    /\ At("skipping") /\ NextItem
    /\ IF StillDue(tick.cur)
       THEN Write(tick.cur, Skipped(tick.cur)) /\ UNCHANGED quiet
       ELSE UNCHANGED rows
    /\ UNCHANGED <<sessions, run, seen, closed, now>>

TickPauses ==
    /\ At("pausing") /\ NextItem
    /\ IF tick.cur \in tickRev /\ row[tick.cur].enabled /\ ~row[tick.cur].running
       THEN Write(tick.cur, Paused(row[tick.cur])) /\ UNCHANGED quiet
       ELSE UNCHANGED rows
    /\ UNCHANGED <<sessions, run, seen, closed, now>>

CoordinatorClose ==
    /\ closed = "no" /\ closed' = "closing"
    /\ UNCHANGED <<rows, sessions, run, tick, seen, now>>

\* Its context is cancelled: the ticker's calls fail, and it exits.
TickStops ==
    /\ closed = "closing" /\ tick.at # "off"
    /\ run' = [s \in Session |-> IF tick.at = "claiming" /\ s = SessionOf[tick.cur] THEN "none" ELSE run[s]]
    /\ tick' = Off
    /\ UNCHANGED <<rows, sessions, seen, closed, now>>

TickerGone == tick.at = "off"

CoordinatorCloseReturns ==
    /\ closed = "closing" /\ TickerGone /\ closed' = "closed"
    /\ UNCHANGED <<rows, sessions, run, tick, seen, now>>

-----------------------------------------------------------------------------
(* Turns, as far as automations depend on them (see HubStore, HubRuntime). *)

\* Faulty variants of settleAutomation: one forgets to schedule the next
\* run, the other takes a waiting turn for one that is over.
Settled_Unscheduled(r, out) ==
    IF out = "waiting" THEN r
    ELSE IF out = "succeeded" THEN [r EXCEPT !.running = FALSE, !.next = 0]
    ELSE [Paused(r) EXCEPT !.running = FALSE]

\* settleAutomation for the outcome of a turn.
Settled(r, out) ==
    IF out = "waiting" THEN r
    ELSE IF out = "succeeded"
    THEN [r EXCEPT !.running = FALSE, !.next = IF r.enabled THEN now + Interval[r.draft] ELSE 0]
    ELSE [Paused(r) EXCEPT !.running = FALSE]

\* The transaction that gives the turn of s an outcome.
Ends(s, out) ==
    /\ sess' = [sess EXCEPT ![s] = IF out = "waiting" THEN "waiting" ELSE "idle"]
    /\ turnOf' = [turnOf EXCEPT ![s] = IF out = "waiting" THEN @ ELSE None]
    /\ IF turnOf[s] = None THEN UNCHANGED rows
       ELSE /\ row[turnOf[s]].running
            /\ Write(turnOf[s], Settled(row[turnOf[s]], out))
            /\ quiet' = [quiet EXCEPT ![turnOf[s]] = now]
    /\ UNCHANGED <<route, lead, tick, seen, closed, now>>

FinishTurn(s, out) ==
    /\ run[s] = "executing" /\ sess[s] = "running" /\ Ends(s, out)
    /\ run' = [run EXCEPT ![s] = "leaving"]

AbandonWaitingTurn(s) == sess[s] = "waiting" /\ Ends(s, "abandoned") /\ UNCHANGED run

\* After FinishTurn, or when it failed and left the turn live.
LeaveRun(s) ==
    /\ run[s] = "leaving" \/ (run[s] = "executing" /\ "fault" \in Ops)
    /\ run' = [run EXCEPT ![s] = "none"]
    /\ UNCHANGED <<rows, sessions, tick, seen, closed, now>>

\* The user sends a message, or resumes a waiting turn.
Execute(s) ==
    /\ run[s] = "none"
    /\ (sess[s] = "idle" /\ "message" \in Ops) \/ sess[s] = "waiting"
    /\ sess' = [sess EXCEPT ![s] = "running"] /\ run' = [run EXCEPT ![s] = "executing"]
    /\ UNCHANGED <<rows, route, lead, turnOf, tick, seen, closed, now>>

Switch(s, r) ==
    /\ ~Occupied(s) /\ route' = [route EXCEPT ![s] = r]
    /\ UNCHANGED <<rows, lead, sess, turnOf, run, tick, seen, closed, now>>

\* A scheduled session becomes the lead of a team (CreateTeam).
BecomeLead(s) ==
    /\ lead' = lead \cup {s}
    /\ UNCHANGED <<rows, route, sess, turnOf, run, tick, seen, closed, now>>

Advance ==
    /\ now < MaxTime /\ now' = now + 1
    /\ UNCHANGED <<rows, sessions, run, tick, seen, closed>>

\* A faulty variant of recoverAutomations that leaves due times alone.
Recovered_CatchesUp(a, over) ==
    IF row[a].running /\ SessionOf[a] \in over THEN [Paused(row[a]) EXCEPT !.running = FALSE] ELSE row[a]

Recovered(a, over) ==
    CASE row[a].running /\ SessionOf[a] \in over -> [Paused(row[a]) EXCEPT !.running = FALSE]
      [] row[a].enabled /\ ~row[a].running -> [row[a] EXCEPT !.next = now + Every(a)]
      [] OTHER -> row[a]

\* A crash, and Recover on opening the store: turns end, but for those of
\* waits, which had committed that they wait.
Restart(waits) ==
    LET over == {s \in Session : sess[s] = "running"} \ waits IN
    /\ \A s \in waits : sess[s] = "running"
    /\ row' = [a \in Automation |-> Recovered(a, over)]
    /\ sess' = [s \in Session |-> CASE s \in over -> "idle" [] s \in waits -> "waiting" [] OTHER -> sess[s]]
    /\ turnOf' = [s \in Session |-> IF s \in over THEN None ELSE turnOf[s]]
    /\ userRev' = {a \in userRev : row'[a] = row[a] /\ ~row[a].enabled}
    /\ consent' = [a \in Automation |-> IF row'[a].enabled THEN consent[a] ELSE NoConsent]
    /\ quiet' = [a \in Automation |-> now]
    /\ run' = [s \in Session |-> "none"] /\ tick' = Off /\ tickRev' = {} /\ closed' = "no"
    /\ UNCHANGED <<route, lead, seen, now>>

-----------------------------------------------------------------------------
Ticker == TickBegins \/ TickLists \/ TickReads \/ TickEnters \/ TickClaims \/ TickSkips \/ TickPauses \/ TickStops

User(a) ==
    \/ View(a) \/ Enable(a) \/ Disable(a) \/ DeleteAutomation(a)
    \/ \E d \in Draft : CreateAutomation(a, d) \/ UpdateAutomation(a, d)

Turns(s) ==
    \/ \E out \in {"succeeded", "failed"} : FinishTurn(s, out)
    \/ LeaveRun(s) \/ Execute(s)
    \/ "wait" \in Ops /\ (FinishTurn(s, "waiting") \/ AbandonWaitingTurn(s))
    \/ "switch" \in Ops /\ \E r \in Route : Switch(s, r)
    \/ "lead" \in Ops /\ BecomeLead(s)

AutomationNext ==
    \/ \E a \in Automation : User(a)
    \/ \E s \in Session : Turns(s)
    \/ Start \/ Ticker \/ Advance
    \/ "fault" \in Ops /\ TickFails
    \/ "close" \in Ops /\ (CoordinatorClose \/ CoordinatorCloseReturns)
    \/ "crash" \in Ops /\ \E waits \in SUBSET Session : ("wait" \in Ops \/ waits = {}) /\ Restart(waits)

\* Fairness is of Ticker: it is a goroutine of the process.
AutomationSpec == AutomationInit /\ [][AutomationNext]_automationVars

-----------------------------------------------------------------------------
(* Properties: those with primes are of every step.                       *)

\* Shapes, and the budget of 100 automations.
AutomationTypeOK ==
    /\ \A a \in Automation : Exists(a) => row[a].draft \in Draft /\ row[a].route \in Route
    /\ tickRev \subseteq Automation /\ userRev \subseteq Automation
    /\ run \in [Session -> {"none", "admitting", "executing", "leaving"}]
    /\ Cardinality({a \in Automation : Exists(a)}) <= MaxAutomation

\* An automation is marked running exactly as long as the live turn of its
\* session is its own, so that every outcome finds it (settleAutomation).
RunningMatchesTurn == \A a \in Automation : row[a].running <=> turnOf[SessionOf[a]] = a

\* An enabled automation that does not run has a next time within one
\* interval: no path through skips, settlements and restarts strands it.
EnabledIsScheduled == \A a \in Automation :
    IF row[a].enabled /\ ~row[a].running THEN row[a].next \in 1..(now + Every(a)) ELSE row[a].next = 0

Began(a) == ~row[a].running /\ row'[a].running

\* A scheduled turn has the prompt and the route the user saw when enabling
\* it, and runs on that route; edits, pauses, failures and changed routes in
\* between take the consent away.
RunsAreConsented == \A a \in Automation : Began(a) =>
    consent[a] = Shown(row[a]) /\ route[SessionOf[a]] = consent[a].route

\* A scheduled turn begins a whole interval or more after the automation
\* was enabled, last ended a turn, or the store was opened, and less than two
\* intervals late: nothing is caught up.
RunsAreSpaced == \A a \in Automation : Began(a) =>
    /\ tick.time >= quiet[a] + Every(a)
    /\ tick.time < row[a].next + Every(a)

\* Once Close has returned the ticker starts no turn.
ClosedStartsNothing == closed = "closed" => \A a \in Automation : ~Began(a)

\* An automation is marked running exactly as long as the live turn is its own,
\* and an enabled one always has a next time: skips, failures, waits, restarts
\* and Close strand none.
NoneIsStranded == AutomationTypeOK /\ RunningMatchesTurn /\ EnabledIsScheduled

\* What the ticker starts is what its user agreed to, on the route agreed to, a
\* whole interval after the last, and nothing once Close has returned.
RunsAreWanted == [][RunsAreConsented /\ RunsAreSpaced /\ ClosedStartsNothing]_automationVars

\* Not for ever: once the ticker runs, what is due is started, skipped or paused.
Unhandled(a) == Due(a, now) /\ tick.at # "off"
=============================================================================
