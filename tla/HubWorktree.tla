---------------------------- MODULE HubWorktree ----------------------------
(***************************************************************************)
(* Private worktrees of workers: provisioning, evidence, adoption into the *)
(* shared workspace and removal (apps/hub/sqlite/worktree.go,              *)
(* apps/hub/product/worktree.go, apps/hub/worktree/).                      *)
(*                                                                         *)
(* An operation of a client holds the exclusive leases of the directories  *)
(* it touches.  What must survive a crash it first writes to the worker's  *)
(* row, then it works on the files, then it writes how that ended.  Turns  *)
(* of the lead and of workers run in the same directories, and the user's  *)
(* editor writes into them at any time.  Leases are those of               *)
(* WorkspaceLease; a revision is modelled by whether the operation that    *)
(* read it still has the current one.                                      *)
(***************************************************************************)
EXTENDS Integers, FiniteSets

CONSTANTS
    TreeWorker, Lead,   \* sessions of one team
    Client,             \* concurrent calls of the product service
    File,               \* files of the repository
    MaxEdit,            \* bound on the edits of turns and of the user's editor
    Extras              \* what happens besides: "work", "edit", "wait", "end", "crash"

ASSUME WorktreeAssumption ==
    /\ File # {} /\ Lead \notin TreeWorker /\ MaxEdit \in Nat
    /\ Client \cap (TreeWorker \cup {Lead, "nobody"}) = {} /\ "nobody" \notin TreeWorker \cup {Lead}

VARIABLES
    wt,        \* the worktree record of each worker
    ended,     \* the team has ended
    archived,  \* workers that are archived
    status,    \* the status of each session, "idle" for any outcome
    begun,     \* sessions that have had a turn
    place,     \* the directory of each session: Lead's, or the worker's own
    files,     \* the files of each directory that exists
    lease,     \* who holds each directory exclusively: a session whose turn
               \* executes, a client, or Nobody
    op,        \* the call of each client
    edits      \* history: edits so far

treeVars == <<wt, ended, archived, status, begun, place, files, lease, op, edits>>

Nobody  == "nobody"
Dirs    == TreeWorker \cup {Lead}
Content == {"base", "turn", "user"}
Commit  == [f \in File |-> "base"]    \* the snapshot every worktree starts from
Gone    == [f \in File |-> "gone"]    \* also: no evidence, no review

NoTree == [state |-> "none", adoption |-> "", evidence |-> Gone, removal |-> Gone]
NoOp   == [kind |-> "none", worker |-> Nobody, at |-> "idle", current |-> FALSE, shown |-> Gone, todo |-> {}]

TreeInit ==
    /\ wt = [w \in TreeWorker |-> NoTree]
    /\ ended = FALSE /\ archived = {}
    /\ status = [s \in Dirs |-> "idle"] /\ begun = {}
    /\ place = [s \in Dirs |-> Lead]
    /\ files = [p \in Dirs |-> IF p = Lead THEN Commit ELSE Gone]
    /\ lease = [p \in Dirs |-> Nobody]
    /\ op = [c \in Client |-> NoOp]
    /\ edits = 0

-----------------------------------------------------------------------------
(* Turns, and the editor.                                                  *)

Admitted(s) ==
    /\ s \in TreeWorker => /\ wt[s].state \in {"none", "ready"}
                       /\ wt[s].adoption \notin {"adopting", "unknown"}
    /\ \A w \in TreeWorker : wt[w].adoption = "adopting" => place[s] # Lead

BeginTurn(s) ==
    /\ status[s] = "idle" /\ Admitted(s)
    /\ status' = [status EXCEPT ![s] = "running"] /\ begun' = begun \cup {s}
    /\ UNCHANGED <<wt, ended, archived, place, files, lease, op, edits>>

\* A waiting turn is resumed without that check.
ResumeTurn(s) ==
    /\ status[s] = "waiting" /\ status' = [status EXCEPT ![s] = "running"]
    /\ UNCHANGED <<wt, ended, archived, begun, place, files, lease, op, edits>>

\* The run waits for the lease of its directory.
Execute(s) ==
    /\ status[s] = "running" /\ lease[place[s]] = Nobody
    /\ lease' = [lease EXCEPT ![place[s]] = s]
    /\ UNCHANGED <<wt, ended, archived, status, begun, place, files, op, edits>>

Edit(p, f, by) ==
    /\ edits < MaxEdit /\ edits' = edits + 1
    /\ files[p] # Gone /\ files' = [files EXCEPT ![p][f] = by]
    /\ UNCHANGED <<wt, ended, archived, status, begun, place, lease, op>>

Work(s, f) == lease[place[s]] = s /\ Edit(place[s], f, "turn")

EndTurn(s, to) ==
    /\ status[s] = "running" /\ lease[place[s]] = s
    /\ status' = [status EXCEPT ![s] = to] /\ lease' = [lease EXCEPT ![place[s]] = Nobody]
    /\ UNCHANGED <<wt, ended, archived, begun, place, files, op, edits>>

\* A run that is cancelled while it waits for the lease ends its turn, too.
Cancel(s) ==
    /\ status[s] = "running" /\ lease[place[s]] # s /\ status' = [status EXCEPT ![s] = "idle"]
    /\ UNCHANGED <<wt, ended, archived, begun, place, files, lease, op, edits>>

TeamEnds ==
    /\ ~ended /\ \A w \in TreeWorker : status[w] = "idle"
    /\ ended' = TRUE /\ archived' = TreeWorker
    /\ UNCHANGED <<wt, status, begun, place, files, lease, op, edits>>

Retired(w) == wt[w].state \in {"removing", "removed", "removal_unknown"}

MayRestore(w) == ~Retired(w)

SetLifecycle(w, hidden) ==
    /\ ~ended /\ status[w] = "idle" /\ (hidden \/ MayRestore(w))
    /\ archived' = IF hidden THEN archived \cup {w} ELSE archived \ {w}
    /\ UNCHANGED <<wt, ended, status, begun, place, files, lease, op, edits>>

-----------------------------------------------------------------------------
(* Operations: each reads the row, takes the leases and works in steps.    *)

Ready(w)      == wt[w].state = "ready"
Decided(w)    == wt[w].adoption \notin {"adopting", "unknown"}
Kind          == {"provision", "preview", "adopt", "review", "remove"}
At(c, kind, at) == op[c].kind = kind /\ op[c].at = at

\* What the service checks before it waits for the leases.  The user adopts
\* or removes what this revision of the row shows.
Opens(w, kind) ==
    CASE kind = "provision" -> TRUE
      [] kind \in {"preview", "review"} -> Ready(w)
      [] kind = "adopt" -> wt[w].evidence # Gone
      [] kind = "remove" -> wt[w].removal # Gone

Open(c, w, kind) ==
    /\ op[c] = NoOp /\ Opens(w, kind)
    /\ op' = [op EXCEPT ![c] = [NoOp EXCEPT !.kind = kind, !.worker = w, !.at = "waiting", !.current = TRUE,
                  !.shown = IF kind = "remove" THEN wt[w].removal ELSE wt[w].evidence]]
    /\ UNCHANGED <<wt, ended, archived, status, begun, place, files, lease, edits>>

Needs(c) == IF op[c].kind = "provision" THEN {Lead} ELSE {Lead, op[c].worker}

Enter(c) ==
    /\ op[c].at = "waiting" /\ \A p \in Needs(c) : lease[p] = Nobody
    /\ lease' = [p \in Dirs |-> IF p \in Needs(c) THEN c ELSE lease[p]]
    /\ op' = [op EXCEPT ![c].at = "begin"]
    /\ UNCHANGED <<wt, ended, archived, status, begun, place, files, edits>>

Free(c) == /\ op' = [op EXCEPT ![c] = NoOp]
           /\ lease' = [p \in Dirs |-> IF lease[p] = c THEN Nobody ELSE lease[p]]

\* The operation fails before it writes anything, or its request goes away.
Refuse(c) ==
    /\ op[c].at \in {"waiting", "begin", "save"} /\ Free(c)
    /\ UNCHANGED <<wt, ended, archived, status, begun, place, files, edits>>

\* A row is written: other operations have an old revision from now on.
Wrote(w, r)      == wt' = [wt EXCEPT ![w] = r]
Going(c, at)     == op' = [d \in Client |-> IF d = c THEN [op[c] EXCEPT !.at = at]
                              ELSE [op[d] EXCEPT !.current = @ /\ op[d].worker # op[c].worker]]
Done(c)          == /\ op' = [d \in Client |-> IF d = c THEN NoOp
                              ELSE [op[d] EXCEPT !.current = @ /\ op[d].worker # op[c].worker]]
                    /\ lease' = [p \in Dirs |-> IF lease[p] = c THEN Nobody ELSE lease[p]]

\* worktreeWorker: the team is active, the lead does not run, and the
\* worker does not even wait.
Quiet(w) == ~ended /\ status[Lead] # "running" /\ status[w] = "idle"

Isolable(w) == wt[w].state = "none" /\ w \notin begun

BeginProvision(c) == LET w == op[c].worker IN
    /\ At(c, "provision", "begin") /\ Quiet(w) /\ Isolable(w)
    /\ Wrote(w, [NoTree EXCEPT !.state = "provisioning"]) /\ Going(c, "work")
    /\ UNCHANGED <<ended, archived, status, begun, place, files, lease, edits>>

\* Git makes the tree, or fails with nothing or part of one behind.
Provision(c, ok) ==
    /\ At(c, "provision", "work")
    /\ files' = [files EXCEPT ![op[c].worker] = IF ok THEN Commit ELSE @]
    /\ op' = [op EXCEPT ![c].at = IF ok THEN "won" ELSE "lost"]
    /\ UNCHANGED <<wt, ended, archived, status, begun, place, lease, edits>>

\* This transaction makes the same checks as the first one: if they fail
\* now, the worker stays "provisioning".
FinishProvision(c) == LET w == op[c].worker IN
    /\ op[c].kind = "provision" /\ op[c].at \in {"won", "lost"}
    /\ IF Quiet(w) /\ wt[w].state = "provisioning" /\ op[c].current
       THEN /\ Wrote(w, [wt[w] EXCEPT !.state = IF op[c].at = "won" THEN "ready" ELSE "provision_failed"])
            /\ place' = [place EXCEPT ![w] = IF op[c].at = "won" THEN w ELSE @]
            /\ Done(c)
       ELSE Free(c) /\ UNCHANGED <<wt, place>>
    /\ UNCHANGED <<ended, archived, status, begun, files, edits>>

\* Preview and ReviewRemoval take a snapshot; evidence needs a clean shared
\* workspace and a change.
Look(c) == LET w == op[c].worker IN
    /\ op[c].kind \in {"preview", "review"} /\ op[c].at = "begin"
    /\ op[c].kind = "preview" => files[Lead] = Commit /\ files[w] # Commit
    /\ op' = [op EXCEPT ![c].at = "save", ![c].shown = files[w]]
    /\ UNCHANGED <<wt, ended, archived, status, begun, place, files, lease, edits>>

SaveEvidence(c) == LET w == op[c].worker IN
    /\ At(c, "preview", "save") /\ Quiet(w) /\ Ready(w) /\ op[c].current /\ wt[w].adoption = ""
    /\ Wrote(w, [wt[w] EXCEPT !.evidence = op[c].shown]) /\ Done(c)
    /\ UNCHANGED <<ended, archived, status, begun, place, files, edits>>

SaveReview(c) == LET w == op[c].worker IN
    /\ At(c, "review", "save") /\ Quiet(w) /\ Ready(w) /\ op[c].current /\ Decided(w)
    /\ Wrote(w, [wt[w] EXCEPT !.removal = op[c].shown]) /\ Done(c)
    /\ UNCHANGED <<ended, archived, status, begun, place, files, edits>>

Adoptable(c) == LET w == op[c].worker IN
    Quiet(w) /\ Ready(w) /\ wt[w].adoption = "" /\ wt[w].evidence = op[c].shown /\ op[c].current

BeginAdoption(c) == LET w == op[c].worker IN
    /\ At(c, "adopt", "begin") /\ Adoptable(c)
    /\ Wrote(w, [wt[w] EXCEPT !.adoption = "adopting"]) /\ Going(c, "work")
    /\ UNCHANGED <<ended, archived, status, begun, place, files, lease, edits>>

Changes(e) == {f \in File : e[f] # "base"}

\* Apply checks both snapshots and stages the reviewed bytes.
Stage(c) == LET w == op[c].worker IN
    /\ At(c, "adopt", "work")
    /\ IF files[w] = wt[w].evidence /\ files[Lead] = Commit
       THEN op' = [op EXCEPT ![c].at = "apply", ![c].todo = Changes(wt[w].evidence)]
       ELSE op' = [op EXCEPT ![c].at = "lost"]
    /\ UNCHANGED <<wt, ended, archived, status, begun, place, files, lease, edits>>

\* A faulty variant that trusts the snapshot it took before staging.
Unchanged_Trusts(f) == TRUE

Unchanged(f) == files[Lead][f] = "base"

\* One file is compared once more and replaced (taken as one step: the code
\* does not claim more), or the operation stops halfway.
Apply(c, f) == LET w == op[c].worker IN
    /\ At(c, "adopt", "apply") /\ f \in op[c].todo
    /\ IF Unchanged(f)
       THEN /\ files' = [files EXCEPT ![Lead][f] = wt[w].evidence[f]]
            /\ op' = [op EXCEPT ![c].todo = @ \ {f}]
       ELSE op' = [op EXCEPT ![c].at = "lost"] /\ UNCHANGED files
    /\ UNCHANGED <<wt, ended, archived, status, begun, place, lease, edits>>

\* Every path is read once more.
Prove(c) == LET e == wt[op[c].worker].evidence IN
    /\ At(c, "adopt", "apply") /\ op[c].todo = {}
    /\ op' = [op EXCEPT ![c].at = IF \A f \in Changes(e) : files[Lead][f] = e[f] THEN "won" ELSE "lost"]
    /\ UNCHANGED <<wt, ended, archived, status, begun, place, files, lease, edits>>

\* A disk error or a cancelled request at any point of the work.
Break(c) ==
    /\ op[c].kind \in {"adopt", "remove"} /\ op[c].at \in {"work", "apply"}
    /\ op' = [op EXCEPT ![c].at = "lost"]
    /\ UNCHANGED <<wt, ended, archived, status, begun, place, files, lease, edits>>

\* FinishWorkerAdoption and FinishWorkerRemoval ask for nothing but the row.
MayFinish(w) == TRUE

FinishAdoption(c) == LET w == op[c].worker IN
    /\ op[c].kind = "adopt" /\ op[c].at \in {"won", "lost"}
    /\ IF MayFinish(w) /\ wt[w].adoption = "adopting" /\ op[c].current
       THEN /\ Wrote(w, [wt[w] EXCEPT !.adoption = IF op[c].at = "won" THEN "applied" ELSE "unknown"])
            /\ Done(c)
       ELSE Free(c) /\ UNCHANGED wt
    /\ UNCHANGED <<ended, archived, status, begun, place, files, edits>>

BeginRemoval(c) == LET w == op[c].worker IN
    /\ At(c, "remove", "begin")
    /\ Quiet(w) /\ Ready(w) /\ Decided(w) /\ wt[w].removal = op[c].shown /\ op[c].current
    /\ Wrote(w, [wt[w] EXCEPT !.state = "removing"]) /\ archived' = archived \cup {w}
    /\ Going(c, "work")
    /\ UNCHANGED <<ended, status, begun, place, files, lease, edits>>

AsReviewed(w) == files[w] = wt[w].removal

Remove(c) == LET w == op[c].worker IN
    /\ At(c, "remove", "work")
    /\ IF AsReviewed(w)
       THEN files' = [files EXCEPT ![w] = Gone] /\ op' = [op EXCEPT ![c].at = "won"]
       ELSE op' = [op EXCEPT ![c].at = "lost"] /\ UNCHANGED files
    /\ UNCHANGED <<wt, ended, archived, status, begun, place, lease, edits>>

FinishRemoval(c) == LET w == op[c].worker IN
    /\ op[c].kind = "remove" /\ op[c].at \in {"won", "lost"}
    /\ IF wt[w].state = "removing" /\ op[c].current
       THEN Wrote(w, [wt[w] EXCEPT !.state = IF op[c].at = "won" THEN "removed" ELSE "removal_unknown"]) /\ Done(c)
       ELSE Free(c) /\ UNCHANGED wt
    /\ UNCHANGED <<ended, archived, status, begun, place, files, edits>>

\* RecoverWorktrees, after Recover has ended the running turns.
RecoveredTree(r) ==
    [r EXCEPT !.state = CASE @ = "removing" -> "removal_unknown" [] @ = "provisioning" -> "provision_unknown" [] OTHER -> @,
              !.adoption = IF @ = "adopting" THEN "unknown" ELSE @]

RestartTrees ==
    /\ wt' = [w \in TreeWorker |-> RecoveredTree(wt[w])]
    /\ status' = [s \in Dirs |-> IF status[s] = "running" THEN "idle" ELSE status[s]]
    /\ lease' = [p \in Dirs |-> Nobody] /\ op' = [c \in Client |-> NoOp]
    /\ UNCHANGED <<ended, archived, begun, place, files, edits>>

-----------------------------------------------------------------------------
\* What an operation does once it has begun; nothing waits for the client.
Proceed(c) ==
    \/ \E ok \in BOOLEAN : Provision(c, ok)
    \/ Stage(c) \/ (\E f \in File : Apply(c, f)) \/ Prove(c) \/ Remove(c)
    \/ FinishProvision(c) \/ FinishAdoption(c) \/ FinishRemoval(c)

Operation(c) ==
    \/ \E w \in TreeWorker, kind \in Kind : Open(c, w, kind)
    \/ Enter(c) \/ Refuse(c) \/ BeginProvision(c) \/ Look(c) \/ SaveEvidence(c) \/ SaveReview(c)
    \/ BeginAdoption(c) \/ BeginRemoval(c) \/ Break(c) \/ Proceed(c)

Turn(s) ==
    \/ BeginTurn(s) \/ Execute(s) \/ Cancel(s) \/ EndTurn(s, "idle")
    \/ "work" \in Extras /\ \E f \in File : Work(s, f)
    \/ "wait" \in Extras /\ (EndTurn(s, "waiting") \/ ResumeTurn(s))

TreeNext ==
    \/ \E c \in Client : Operation(c)
    \/ \E s \in Dirs : Turn(s)
    \/ \E w \in TreeWorker, hidden \in BOOLEAN : SetLifecycle(w, hidden)
    \/ "edit" \in Extras /\ \E p \in Dirs, f \in File : Edit(p, f, "user")
    \/ "end" \in Extras /\ TeamEnds
    \/ "crash" \in Extras /\ RestartTrees

\* Fairness is of Proceed(c): the work of an operation ends, since Git has time
\* limits and the calls that write the outcome do not depend on the client
\* (context.Background).
TreeSpec == TreeInit /\ [][TreeNext]_treeVars

-----------------------------------------------------------------------------
(* Properties: those with primes are of every step.                       *)

\* Shapes; a worktree that is ready has its worker in it, and its files.
WorktreeTypeOK ==
    /\ \A w \in TreeWorker : wt[w].state \in {"none", "provisioning", "ready", "provision_failed", "provision_unknown",
                                          "removing", "removed", "removal_unknown"}
    /\ \A w \in TreeWorker : wt[w].adoption \in {"", "adopting", "applied", "unknown"}
    /\ \A w \in TreeWorker : Ready(w) => place[w] = w /\ files[w] # Gone

\* A session never moves to another directory once it has had a turn: the
\* native history of an engine is bound to it.
DirectoryIsFinal == \A s \in begun : place'[s] = place[s]

\* What the user wrote into the shared workspace is only overwritten by
\* turns and by the user: adoption never takes a file that has changed.
EditsAreKept == \A f \in File :
    (files[Lead][f] = "user" /\ files'[Lead][f] # "user") => edits' = edits + 1

\* Files an adoption writes are those of the evidence its user was shown.
AdoptionIsExact == \A c \in Client : At(c, "adopt", "apply") =>
    \A f \in File : (files'[Lead][f] # files[Lead][f] /\ edits' = edits) => files'[Lead][f] = op[c].shown[f]

\* A worktree is removed as it was when its user reviewed it.
RemovalIsExact == \A c \in Client : (At(c, "remove", "work") /\ files'[op[c].worker] = Gone) =>
    files[op[c].worker] \in {op[c].shown, Gone}

\* Decisions are not repeated: neither an adoption that began nor a
\* worktree that failed, went away or is in doubt is started over.
NothingIsReplayed == \A w \in TreeWorker :
    /\ wt[w].adoption # "" => wt'[w].adoption # ""
    /\ wt[w].adoption \in {"applied", "unknown"} => wt'[w].adoption = wt[w].adoption
    /\ wt[w].state \notin {"none", "provisioning", "ready"} => wt'[w].state # "ready"
    /\ wt[w].state # "none" => wt'[w].state # "none"

\* A worker without a worktree any more is archived for good.
RetiredStaysArchived == \A w \in TreeWorker : Retired(w) => w \in archived

\* Adoption and removal touch exactly what their user was shown and never an
\* edit of the user, are not repeated after a crash, and a session with a
\* history never changes its directory.
FilesAreKept ==
    /\ [](WorktreeTypeOK /\ RetiredStaysArchived)
    /\ [][EditsAreKept /\ AdoptionIsExact /\ RemovalIsExact /\ DirectoryIsFinal /\ NothingIsReplayed]_treeVars

\* Not for ever: an adoption gets an outcome, whatever becomes of the team.
Undecided(w) == wt[w].adoption = "adopting"
=============================================================================
