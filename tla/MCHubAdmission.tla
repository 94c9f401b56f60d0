--------------------------- MODULE MCHubAdmission ---------------------------
(***************************************************************************)
(* Who may begin, and when, as parts of a run: the leases of workspaces,   *)
(* scheduled turns, and the durable waits between two attempts.  Each part *)
(* moves the variables of its own component and leaves the others alone.   *)
(***************************************************************************)
EXTENDS WorkspaceLease, HubAutomation, DurableWait, TLC

CONSTANTS s1, d1, d2, r1, a1, a2, c1, c2, k1

VARIABLE part

-----------------------------------------------------------------------------
\* A workspace and a managed worktree, and a directory that has both in it.
Paths == {"work", "work/repo", "work/tree"}
Tree  == {<<p, p>> : p \in Paths} \cup {<<p, "work">> : p \in Paths}
Order == [p \in Paths |-> CASE p = "work" -> 1 [] p = "work/repo" -> 2 [] OTHER -> 3]

\* The callers pass the workspace, or the workspace and a worktree; a single
\* path is what Prepared makes of a directory and its parent.
CallerUses == {<<"work/repo", "work/tree">>, <<"work/repo", "work">>}

-----------------------------------------------------------------------------
\* What a user reviews and changes, of one automation; and two automations of
\* one session through turns, waits, failures, Close and restarts.
Owners  == [a \in {a1, a2} |-> s1]
Minutes == [d \in {d1, d2} |-> IF d = d1 THEN 1 ELSE 2]
Review == INSTANCE HubAutomation WITH Ops <- {"switch", "lead", "fault"}
Schedule == INSTANCE HubAutomation WITH
  Draft <- {d1}, Route <- {r1}, MaxTime <- 3, Ops <- {"wait", "crash", "close", "fault", "message"}

-----------------------------------------------------------------------------
\* Durable waits: two users and two calls; and one of each, two turns and crashes.
Answers == INSTANCE DurableWait WITH MaxTurn <- 1, MaxAsk <- 4, MaxFault <- 0, Extras <- {}
Crashes == INSTANCE DurableWait WITH
  Call <- {k1}, MaxTurn <- 2, MaxAsk <- 2, MaxFault <- 2, Extras <- {"expire", "unclean", "pump"}

-----------------------------------------------------------------------------
AdmissionInit ==
  /\ part \in {"leases", "review", "schedule", "answers", "crashes"}
  /\ Init /\ AutomationInit
  /\ IF part = "crashes" THEN Crashes!WaitInit ELSE WaitInit

AdmissionNext ==
  /\ UNCHANGED part
  /\ \/ part = "leases" /\ Next /\ UNCHANGED <<automationVars, waitVars>>
     \/ /\ UNCHANGED <<vars, waitVars>>
        /\ \/ part = "review" /\ Review!AutomationNext /\ row'[a2] = NoRow
           \/ part = "schedule" /\ Schedule!AutomationNext
     \/ /\ UNCHANGED <<vars, automationVars>>
        /\ \/ part = "answers" /\ Answers!WaitNext
           \/ part = "crashes" /\ Crashes!WaitNext /\ client'[c2] = Away

AdmissionSpec == AdmissionInit /\ [][AdmissionNext]_<<part, vars, automationVars, waitVars>>

Symmetry == Permutations(Attempt) \cup Permutations(Action)
=============================================================================
