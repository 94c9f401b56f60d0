----------------------------- MODULE MCHubWork -----------------------------
(***************************************************************************)
(* The work of the Hub beyond single turns, as parts of a run: the queues  *)
(* and pumps of teams, and worktrees, both with variables of their own.    *)
(***************************************************************************)
EXTENDS HubTeam, HubWorktree, Parts, TLC

CONSTANTS u1, u2, t1, t2, b1, b2, a1, a2, c1, c2, f1, f2

-----------------------------------------------------------------------------
\* Teams: two workers of two teams that share a workspace.
TwoTeams == [w \in {u1, u2} |-> IF w = u1 THEN t1 ELSE t2]
Places == [w \in {u1, u2} |-> [p \in {".", "a"} |-> IF p = "." THEN "repo" ELSE "repo/a"]]
Inside == {<<"repo", "repo">>, <<"repo/a", "repo/a">>, <<"repo/a", "repo">>}
Write(p) == {[path |-> p, write |-> TRUE]}
Read(p)  == {[path |-> p, write |-> FALSE]}

\* What happens to the queue; the races of the pumps; and one worker that works
\* in the checkout itself, where the caller of Stop may leave before the pump
\* has exited.
Everything == {"park", "hide", "edit", "message", "wait", "fault", "end", "stop", "leave", "close", "crash"}
AnyClaims  == {Write("a"), Read("."), Write(".")}

TeamQueue == INSTANCE HubTeam WITH
  Branch <- {b1}, Claims <- {Write("a"), Read(".")}, Ops <- {"hide", "edit", "wait", "end", "crash"}
TeamPumps == INSTANCE HubTeam WITH
  Claims <- {Write(".")}, Ops <- {"park", "message", "fault", "stop", "close", "crash"}
Leaving == INSTANCE HubTeam WITH
  Team <- {t1}, Worker <- {u1}, Branch <- {b1}, Claims <- {Write(".")}, Ops <- {"stop", "leave"}

\* The other parts have no teams.
NoTeams ==
  /\ team = [t \in Team |-> "none"] /\ life = [w \in Worker |-> "none"] /\ branch = [w \in Worker |-> AnyBranch]
  /\ sess = [w \in Worker |-> "idle"] /\ live = [w \in Worker |-> 0] /\ task = <<>>
  /\ run = [w \in Worker |-> "none"] /\ pump = [w \in Worker |-> NoPump]
  /\ stopping = {} /\ closed = FALSE /\ owed = {}

-----------------------------------------------------------------------------
\* Worktrees: two clients and two files, with edits; and with crashes and the
\* end of the team.
TreeFiles == INSTANCE HubWorktree WITH MaxEdit <- 2, Extras <- {"work", "edit"}
TreeRows == INSTANCE HubWorktree WITH MaxEdit <- 1, Extras <- {"work", "wait", "end", "crash"}

-----------------------------------------------------------------------------
WorkInit ==
  /\ Init1
  /\ TreeInit
  /\ \/ part = "queue" /\ TeamQueue!Init
     \/ part = "pumps" /\ TeamPumps!Init
     \/ part \in {"tree files", "tree rows"} /\ NoTeams

WorkNext ==
  /\ UNCHANGED every
  /\ \/ /\ UNCHANGED treeVars
        /\ \/ part = "queue" /\ TeamQueue!Next
           \/ part = "pumps" /\ TeamPumps!Next
     \/ /\ UNCHANGED vars
        /\ \/ part = "tree files" /\ TreeFiles!TreeNext
           \/ part = "tree rows" /\ TreeRows!TreeNext

WorkSpec == WorkInit /\ [][WorkNext]_<<vars, treeVars, every>>

\* By itself: the run in which a kick is lost.
LeavingInit == part = "leaving" /\ Leaving!Init /\ TreeInit /\ Init1
LeavingNext == part = "leaving" /\ Leaving!Next /\ UNCHANGED <<treeVars, every>>
LeavingSpec == LeavingInit /\ [][LeavingNext]_<<vars, treeVars, every>>

\* One symmetry of each part may share its model values with those of others:
\* with each worker its team, automations, clients; and branches, files, calls.
Symmetry == Permutations({u1, u2}) \cup Permutations({f1, f2})

-----------------------------------------------------------------------------
(***************************************************************************)
(* What the Hub owes, in smaller instances under fairness: no request for  *)
(* a workspace, task, automation or adoption waits for ever.               *)
(***************************************************************************)
\* Two actions that take a workspace and a worktree in either order, with an
\* attempt that may retain its lease; and two attempts that come and go.
Roots == {"repo", "tree"}
Circle == INSTANCE WorkspaceLease WITH
  Attempt <- {a1}, Action <- {b1, b2}, Path <- Roots, Within <- {<<p, p>> : p \in Roots},
  Rank <- [p \in Roots |-> IF p = "repo" THEN 1 ELSE 2], Uses <- {<<"tree", "repo">>, <<"repo", "tree">>},
  MaxWaiting <- 3, MaxAction <- 2, MaxRetain <- 1,
  pc <- v1, todo <- v2, active <- v3, ahead <- v4, asleep <- v5, asked <- v6, exclusive <- v7, cancelled <- v8,
  open <- v9, refs <- v10, count <- v11, state <- v12
Crowd == INSTANCE WorkspaceLease WITH
  Attempt <- {a1, a2}, Action <- {b1}, Path <- Roots, Within <- {<<p, p>> : p \in Roots},
  Rank <- [p \in Roots |-> IF p = "repo" THEN 1 ELSE 2], Uses <- {<<"tree", "repo">>, <<"repo", "tree">>},
  MaxWaiting <- 3, MaxAction <- 2, MaxRetain <- 1,
  pc <- v1, todo <- v2, active <- v3, ahead <- v4, asleep <- v5, asked <- v6, exclusive <- v7, cancelled <- v8,
  open <- v9, refs <- v10, count <- v11, state <- v12

\* Two workers of two teams whose tasks wait for each other's files.
Files == {"repo", "repo/a", "repo/b"}
LiveTeam == INSTANCE HubTeam WITH
  Team <- {"t1", "t2"}, Worker <- {"u1", "u2"}, TeamOf <- [u1 |-> "t1", u2 |-> "t2"], Branch <- {"main"},
  Place <- [w \in {"u1", "u2"} |-> [p \in {".", "a", "b"} |-> IF p = "." THEN "repo" ELSE "repo/" \o p]],
  Within <- {<<f, f>> : f \in Files} \cup {<<f, "repo">> : f \in Files}, 
  Claims <- {{[path |-> p, write |-> TRUE] : p \in S} : S \in {{"a"}, {"a", "b"}}},
  MaxTeamWorker <- 16, MaxLocal <- 2, MaxGlobal <- 4, MaxPump <- 3, MaxTask <- 3, Ops <- {},
  team <- v1, life <- v2, branch <- v3, sess <- v4, live <- v5, task <- v6, run <- v7, pump <- v8, stopping <- v9,
  closed <- v10, owed <- v11

\* Two automations of one session, of which one fits the budget.
Timer == INSTANCE HubAutomation WITH
  Session <- {"s"}, Automation <- {"a", "b"}, SessionOf <- [a |-> "s", b |-> "s"], Draft <- {"d"},
  Interval <- [d |-> 1], Route <- {"r1", "r2"}, Configured <- {"r1"}, MaxAutomation <- 1, MaxTime <- 3,
  Ops <- {"message", "switch"},
  row <- v1, route <- v2, lead <- v3, sess <- v4, turnOf <- v5, run <- v6, tick <- v7, tickRev <- v8,
  userRev <- v9, seen <- v10, closed <- v11, now <- v12, consent <- v13, quiet <- v14

\* Two clients of a worktree, while the team may end or the process crash.
Tree == INSTANCE HubWorktree WITH
  TreeWorker <- {"w"}, Lead <- "lead", Client <- {"c1", "c2"}, File <- {"f"}, MaxEdit <- 1,
  Extras <- {"work", "end", "crash"},
  wt <- v1, ended <- v2, archived <- v3, status <- v4, begun <- v5, place <- v6, files <- v7, lease <- v8,
  op <- v9, edits <- v10

-----------------------------------------------------------------------------
LiveInit ==
  /\ NoTeams /\ TreeInit
  /\ \/ part \in {"circle", "close"} /\ Circle!Init /\ Init13
     \/ part = "crowd" /\ Crowd!Init /\ Init13
     \/ part = "team" /\ LiveTeam!Init /\ Init12
     \/ part = "timer" /\ Timer!AutomationInit /\ Init15
     \/ part = "tree" /\ Tree!TreeInit /\ Init11

LiveNext ==
  /\ UNCHANGED <<vars, treeVars>>
  /\ \/ part \in {"circle", "close"} /\ Circle!Next /\ Keep13
     \/ part = "crowd" /\ Crowd!Next /\ Keep13
     \/ part = "team" /\ LiveTeam!Next /\ Keep12
     \/ part = "timer" /\ Timer!AutomationNext /\ Keep15
     \/ part = "tree" /\ Tree!TreeNext /\ Keep11

\* Weak fairness, goroutine by goroutine.
GoOn ==
  /\ WF_every(part \in {"circle", "close"} /\ Circle!AttemptMoves(a1) /\ Keep13)
  /\ \A b \in {b1, b2} : WF_every(part \in {"circle", "close"} /\ Circle!ActionMoves(b) /\ Keep13)
  /\ WF_every(part \in {"circle", "close"} /\ Circle!CloseReturns /\ Keep13)
  /\ \A a \in {a1, a2} : WF_every(part = "crowd" /\ Crowd!AttemptMoves(a) /\ Keep13)
  /\ WF_every(part = "crowd" /\ Crowd!ActionMoves(b1) /\ Keep13)
  /\ \A w \in {"u1", "u2"} : /\ WF_every(part = "team" /\ LiveTeam!Pumping(w) /\ Keep12)
                             /\ WF_every(part = "team" /\ LiveTeam!Running(w) /\ Keep12)
  /\ WF_every(part = "timer" /\ Timer!Ticker /\ Keep15)
  /\ \A c \in {"c1", "c2"} : WF_every(part = "tree" /\ Tree!Proceed(c) /\ Keep11)

LiveSpec == LiveInit /\ [][LiveNext]_<<vars, treeVars, every>> /\ GoOn

-----------------------------------------------------------------------------
\* What waits, up to three of each part at a time.
Waits(k) ==
  CASE part = "circle" -> Circle!Unanswered(<<a1, b1, b2>>[k])
    [] part = "close" -> k = 1 /\ Circle!Unjoined
    [] part = "crowd" -> Crowd!Unanswered(<<a1, a2, b1>>[k])
    [] part = "team" -> LiveTeam!Unserved(k)
    [] part = "timer" -> k <= 2 /\ Timer!Unhandled(<<"a", "b">>[k])
    [] part = "tree" -> k = 1 /\ Tree!Undecided("w")

\* What it waits for and only somebody else can end: the work under a lease,
\* and the absence of a pump, which a user or the next task resumes.  Close
\* does not wait for the former.
Blocks(k) ==
  CASE part = "circle" -> Circle!Works(<<a1, b1, b2>>[k])
    [] part = "crowd" -> Crowd!Works(<<a1, a2, b1>>[k])
    [] part = "team" -> k <= 2 /\ LiveTeam!Unpumped(<<"u1", "u2">>[k])
    [] OTHER -> FALSE

\* Where the others end again and again, everybody is served: no request for a
\* workspace is starved or in a circle, no task, automation or adoption is left.
EverybodyIsServed ==
  (\A k \in 1 .. 3 : []<>~Blocks(k)) => \A k \in 1 .. 3 : Waits(k) ~> ~Waits(k)
=============================================================================
