--------------------------- MODULE WorkspaceLease ---------------------------
(***************************************************************************)
(* Admission to workspaces in Alva Hub (apps/hub/workspace.go,             *)
(* workspace_action.go, and what runtime.go does with them).               *)
(*                                                                         *)
(* An engine attempt takes one lease on the workspace of its session,      *)
(* exclusive unless the engine controls every tool itself.  Such an engine *)
(* may retain its lease for processes that outlive the attempt.  A product *)
(* action takes one or two exclusive leases.  Requests that conflict with  *)
(* an active lease, or with an earlier request, wait.                      *)
(*                                                                         *)
(* The registry is guarded by a mutex, and every action here is one of its *)
(* critical sections.  The queue of requests is kept as ahead: the owners  *)
(* whose requests stand in front of that of o.                             *)
(***************************************************************************)
EXTENDS Naturals, Sequences, FiniteSets

CONSTANTS
    Attempt,      \* goroutines that run an engine attempt
    Action,       \* goroutines in WithExclusiveWorkspaces
    Path,         \* canonical absolute paths
    Within,       \* pairs <<p, q>> such that p is q or lies inside q
    Rank,         \* the place of a path in the order of strings
    Uses,         \* the pairs of paths that callers of
                  \* WithExclusiveWorkspaces pass (equal for a single path)
    MaxWaiting,   \* requests that may wait (128 in the code)
    MaxAction,    \* actions under way (8 in the code)
    MaxRetain     \* times a lease may be retained (64 in the code)

ASSUME OwnerAssumption == Attempt \cap Action = {}
ASSUME UsesAssumption == Uses \subseteq Path \X Path

\* Paths form a tree, and a directory sorts before what it contains.
ASSUME PathAssumption ==
    /\ Within \subseteq Path \X Path
    /\ Rank \in [Path -> Nat]
    /\ \A p \in Path : <<p, p>> \in Within
    /\ \A p \in Path, q \in Path, r \in Path :
         /\ <<p, q>> \in Within /\ <<q, r>> \in Within => <<p, r>> \in Within
         /\ <<p, q>> \in Within /\ <<p, r>> \in Within =>
              <<q, r>> \in Within \/ <<r, q>> \in Within
    /\ \A p \in Path, q \in Path :
         /\ Rank[p] = Rank[q] => p = q
         /\ <<p, q>> \in Within => Rank[q] <= Rank[p]
ASSUME BudgetAssumption == MaxWaiting \in Nat /\ MaxAction \in Nat /\ MaxRetain \in Nat

VARIABLES
    pc,         \* where each owner is
    asked,      \* the paths it was called for
    todo,       \* the paths it has still to acquire
    exclusive,  \* whether it acquires them exclusively
    cancelled,  \* whether its context is
    active,     \* the leases that are granted
    ahead,      \* the queue of requests
    asleep,     \* waiting owners that nobody has notified since they looked
    open,       \* attempts that may still retain their lease
    refs,       \* references to the lease of each attempt
    count,      \* times it was retained
    state       \* of the runtime: "open", "closing", "closed"

ownerVars  == <<asked, exclusive, cancelled>>
retainVars == <<open, refs, count>>
vars == <<pc, todo, active, ahead, asleep, state, ownerVars, retainVars>>

Owner == Attempt \cup Action
Lease == [owner : Owner, path : Path, exclusive : BOOLEAN]

-----------------------------------------------------------------------------

Overlaps(p, q)  == <<p, q>> \in Within \/ <<q, p>> \in Within
Conflicts(l, m) == (l.exclusive \/ m.exclusive) /\ Overlaps(l.path, m.path)

\* The request of o: the first of the paths it has still to acquire.
Wanted(o) == [owner |-> o, path |-> Head(todo[o]), exclusive |-> exclusive[o]]

\* The runs and actions that have a context, and that Close waits for.
Busy == {o \in Owner : pc[o] \in {"admitted", "waiting", "working", "leaving"}}

Waiting == {o \in Owner : pc[o] = "waiting"}
Held(o) == {l \in active : l.owner = o}

\* The requests in front of that of o, which it joins at the end.
InFrontOf(o) == IF pc[o] = "waiting" THEN ahead[o] ELSE Waiting

Blocked(o) ==
    \/ \E l \in active : Conflicts(l, Wanted(o))
    \/ \E w \in InFrontOf(o) : Conflicts(Wanted(w), Wanted(o))

\* The queue once o has left it.
Without(o) == [x \in Owner |-> IF x = o THEN {} ELSE ahead[x] \ {o}]

Init ==
    /\ pc        = [o \in Owner |-> "idle"]
    /\ asked     = [o \in Owner |-> {}]
    /\ todo      = [o \in Owner |-> <<>>]
    /\ exclusive = [o \in Owner |-> FALSE]
    /\ cancelled = [o \in Owner |-> FALSE]
    /\ active = {} /\ asleep = {}
    /\ ahead = [o \in Owner |-> {}]
    /\ open  = [a \in Attempt |-> FALSE]
    /\ refs  = [a \in Attempt |-> 0]
    /\ count = [a \in Attempt |-> 0]
    /\ state = "open"

-----------------------------------------------------------------------------
(* Entering.                                                               *)

Admitted(o) == pc[o] = "idle" /\ state = "open"

Enter(o, paths, list, x) ==
    /\ Admitted(o)
    /\ pc'        = [pc EXCEPT ![o] = "admitted"]
    /\ asked'     = [asked EXCEPT ![o] = paths]
    /\ todo'      = [todo EXCEPT ![o] = list]
    /\ exclusive' = [exclusive EXCEPT ![o] = x]
    /\ UNCHANGED <<active, ahead, asleep, state, cancelled, retainVars>>

\* A run that the supervisor has admitted comes to its next attempt.
EnterAttempt(a, p, x) == Enter(a, {p}, <<p>>, x)

\* Faulty variants: one keeps the inner of two paths, one does not sort them.
Prepared_KeepsInner(p, q) ==
    LET first  == IF Rank[p] <= Rank[q] THEN q ELSE p
        second == IF Rank[p] <= Rank[q] THEN p ELSE q IN
    IF Overlaps(first, second) THEN <<first>> ELSE <<first, second>>
Prepared_Unsorted(p, q) == IF Overlaps(p, q) THEN <<p>> ELSE <<p, q>>

\* The paths are sorted, and one that overlaps the first is dropped.
Prepared(p, q) ==
    LET first  == IF Rank[p] <= Rank[q] THEN p ELSE q
        second == IF Rank[p] <= Rank[q] THEN q ELSE p IN
    IF Overlaps(first, second) THEN <<first>> ELSE <<first, second>>

\* A faulty variant with an off-by-one in the budget of actions.
HasPlace_OneTooMany == Cardinality({a \in Action : pc[a] # "idle"}) <= MaxAction

HasPlace == Cardinality({a \in Action : pc[a] # "idle"}) < MaxAction

EnterAction(a, p, q) ==
    /\ <<p, q>> \in Uses
    /\ HasPlace
    /\ Enter(a, {p, q}, Prepared(p, q), TRUE)

-----------------------------------------------------------------------------
(* acquire.                                                                *)

\* The local variables of o are gone.
Forget(o) ==
    /\ asked'     = [asked EXCEPT ![o] = {}]
    /\ exclusive' = [exclusive EXCEPT ![o] = FALSE]
    /\ cancelled' = [cancelled EXCEPT ![o] = FALSE]

\* A sleeping owner wakes up when it is notified or cancelled.
Awake(o) == o \notin asleep \/ cancelled[o]

\* o goes through the loop: for the first time, or again once it is awake.
Looks(o) ==
    \/ pc[o] = "admitted" /\ Cardinality(Waiting) < MaxWaiting
    \/ pc[o] = "waiting" /\ Awake(o)

\* An attempt without its lease has failed; an action lets go of what it has.
Unserved(o) ==
    /\ pc' = [pc EXCEPT ![o] = IF o \in Attempt THEN "idle" ELSE "leaving"]
    /\ todo' = [todo EXCEPT ![o] = <<>>]
    /\ IF o \in Attempt THEN Forget(o) ELSE UNCHANGED ownerVars
    /\ UNCHANGED <<active, state, retainVars>>

\* Too many requests are waiting.
Refuse(o) ==
    /\ pc[o] = "admitted" /\ Cardinality(Waiting) >= MaxWaiting
    /\ Unserved(o)
    /\ UNCHANGED <<ahead, asleep>>

\* A faulty variant that leaves the queue without telling anybody.
GiveUp_Silent(o) ==
    /\ Looks(o) /\ cancelled[o]
    /\ Unserved(o)
    /\ ahead' = Without(o)
    /\ asleep' = asleep \ {o}

\* The context is done: o leaves the queue and notifies everybody.
GiveUp(o) ==
    /\ Looks(o) /\ cancelled[o]
    /\ Unserved(o)
    /\ ahead' = Without(o)
    /\ asleep' = {}

Sleep(o) ==
    /\ Looks(o) /\ ~cancelled[o] /\ Blocked(o)
    /\ pc' = [pc EXCEPT ![o] = "waiting"]
    /\ ahead' = [ahead EXCEPT ![o] = InFrontOf(o)]
    /\ asleep' = asleep \cup {o}
    /\ UNCHANGED <<todo, active, state, ownerVars, retainVars>>

\* Nobody is notified: whoever waits for this request waits for the lease now.
Grant(o) ==
    /\ Looks(o) /\ ~cancelled[o] /\ ~Blocked(o)
    /\ pc' = [pc EXCEPT ![o] = IF Tail(todo[o]) = <<>> THEN "working" ELSE "admitted"]
    /\ todo' = [todo EXCEPT ![o] = Tail(@)]
    /\ active' = active \cup {Wanted(o)}
    /\ ahead' = Without(o)
    /\ IF o \in Attempt
         THEN /\ open'  = [open EXCEPT ![o] = TRUE]
              /\ refs'  = [refs EXCEPT ![o] = 1]
              /\ UNCHANGED count
         ELSE UNCHANGED retainVars
    /\ UNCHANGED <<asleep, state, ownerVars>>

Acquire(o) == Refuse(o) \/ GiveUp(o) \/ Sleep(o) \/ Grant(o)

Cancel(o) ==
    /\ o \in Busy
    /\ cancelled' = [cancelled EXCEPT ![o] = TRUE]
    /\ UNCHANGED <<pc, todo, active, ahead, asleep, state, asked, exclusive, retainVars>>

-----------------------------------------------------------------------------
(* The end of an attempt.  An owner that holds the last reference to its   *)
(* lease goes on to release it.                                            *)

Drop(a, at) ==
    /\ refs' = [refs EXCEPT ![a] = @ - 1]
    /\ pc'   = [pc EXCEPT ![a] = IF refs[a] = 1 THEN "releasing" ELSE at]
    /\ UNCHANGED <<todo, active, ahead, asleep, state, ownerVars, count>>

\* A faulty variant that can be retained after it was sealed.
MayRetain_Sealed(a) == count[a] < MaxRetain

MayRetain(a) == open[a] /\ count[a] < MaxRetain

\* The engine, or a callback of it that comes late, retains the lease.
Retain(a) ==
    /\ ~exclusive[a]
    /\ MayRetain(a)
    /\ refs'  = [refs EXCEPT ![a] = @ + 1]
    /\ count' = [count EXCEPT ![a] = @ + 1]
    /\ UNCHANGED <<pc, todo, active, ahead, asleep, state, ownerVars, open>>

\* A resource that retained the lease has ended.
Return(a) ==
    /\ refs[a] > IF open[a] THEN 1 ELSE 0
    /\ Drop(a, pc[a])
    /\ UNCHANGED open

\* Execute has returned.
Seal(a) ==
    /\ pc[a] = "working"
    /\ open' = [open EXCEPT ![a] = FALSE]
    /\ Drop(a, "sealed")

\* The function that acquire returned, for lease l: everybody is notified.
LetGo(l) ==
    /\ active' = active \ {l}
    /\ asleep' = {}
    /\ UNCHANGED <<todo, ahead, state, open, refs>>

Release(a) ==
    /\ pc[a] = "releasing"
    /\ \E l \in Held(a) : LetGo(l)
    /\ pc' = [pc EXCEPT ![a] = "idle"]
    /\ count' = [count EXCEPT ![a] = 0]
    /\ Forget(a)

-----------------------------------------------------------------------------
(* The end of an action: its deferred calls, the last one first.           *)

Applied(a) ==
    /\ pc[a] = "working"
    /\ pc' = [pc EXCEPT ![a] = "leaving"]
    /\ UNCHANGED <<todo, active, ahead, asleep, state, ownerVars, retainVars>>

Unlock(a) ==
    /\ pc[a] = "leaving"
    /\ \E l \in Held(a) :
         /\ \A m \in Held(a) : Rank[m.path] <= Rank[l.path]
         /\ LetGo(l)
    /\ UNCHANGED <<pc, ownerVars, count>>

Leave(a) ==
    /\ pc[a] = "leaving" /\ Held(a) = {}
    /\ pc' = [pc EXCEPT ![a] = "idle"]
    /\ Forget(a)
    /\ UNCHANGED <<todo, active, ahead, asleep, state, retainVars>>

-----------------------------------------------------------------------------
(* Runtime.Close.                                                          *)

Close ==
    /\ state = "open"
    /\ state' = "closing"
    /\ cancelled' = [o \in Owner |-> cancelled[o] \/ o \in Busy]
    /\ UNCHANGED <<pc, todo, active, ahead, asleep, asked, exclusive, retainVars>>

CloseReturns ==
    /\ state = "closing" /\ Busy = {}
    /\ state' = "closed"
    /\ UNCHANGED <<pc, todo, active, ahead, asleep, ownerVars, retainVars>>

-----------------------------------------------------------------------------

AttemptStep(a) ==
    \/ \E p \in Path, x \in BOOLEAN : EnterAttempt(a, p, x)
    \/ Retain(a) \/ Return(a) \/ Seal(a) \/ Release(a)

ActionStep(a) ==
    \/ \E p \in Path, q \in Path : EnterAction(a, p, q)
    \/ Applied(a) \/ Unlock(a) \/ Leave(a)

Next ==
    \/ \E a \in Attempt : AttemptStep(a)
    \/ \E a \in Action : ActionStep(a)
    \/ \E o \in Owner : Acquire(o) \/ Cancel(o)
    \/ Close \/ CloseReturns

Spec == Init /\ [][Next]_vars

(* Fairness is of these: goroutines keep running.  An engine, and the      *)
(* callback of an action, returns once its context is cancelled; nothing   *)
(* else is assumed of them, and nothing of the resources that retain a     *)
(* lease.                                                                  *)
AttemptMoves(a) == Acquire(a) \/ Release(a) \/ (cancelled[a] /\ Seal(a))
ActionMoves(a) == Acquire(a) \/ (cancelled[a] /\ Applied(a)) \/ Unlock(a) \/ Leave(a)

-----------------------------------------------------------------------------
(* What admission promises.                                                *)

\* The shape of the registry, and its two budgets.
LeaseTypeOK ==
    /\ pc \in [Owner -> {"idle", "admitted", "waiting", "working", "sealed",
                         "releasing", "leaving"}]
    /\ asked \in [Owner -> SUBSET Path]
    /\ \A o \in Owner : Len(todo[o]) <= 2
    /\ exclusive \in [Owner -> BOOLEAN] /\ cancelled \in [Owner -> BOOLEAN]
    /\ active \subseteq Lease
    /\ ahead \in [Owner -> SUBSET Owner] /\ asleep \subseteq Owner
    /\ open \in [Attempt -> BOOLEAN]
    /\ refs \in [Attempt -> 0..(MaxRetain + 1)] /\ count \in [Attempt -> 0..MaxRetain]
    /\ state \in {"open", "closing", "closed"}
    /\ Cardinality(Waiting) <= MaxWaiting
    /\ Cardinality({a \in Action : pc[a] # "idle"}) <= MaxAction

\* While an attempt or action works exclusively, nobody else, not even a
\* resource left behind by a former attempt, has a lease on anything that
\* overlaps a path it was called for, whether or not acquire was asked for it.
WorkIsExclusive ==
    \A o \in Owner :
      pc[o] = "working" /\ exclusive[o] =>
        \A p \in asked[o], l \in active : l.owner # o => ~Overlaps(l.path, p)

\* No wake-up is lost: an owner that sleeps really has to wait, although
\* granting a request notifies nobody.
SleepersAreBlocked == \A o \in asleep : Blocked(o)

\* As long as anything holds a reference to the lease of an attempt, the lease
\* is active, however late the engine tries to retain it.
RetainedStaysActive == \A a \in Attempt : refs[a] > 0 => Held(a) # {}

\* Once Close has returned, no attempt or action works or will.
ClosedIsOver == state = "closed" => Busy = {}

\* Neither work nor what it retained outlives its admission: Close waits for the
\* former, and the lease for the latter.
LeasesLast == RetainedStaysActive /\ ClosedIsOver

\* If the work done under leases and the resources that retain them end, no
\* request waits for ever: neither later requests nor other actions starve it.
Works(o) == pc[o] = "working" \/ pc[o] = "sealed"
Unanswered(o) == pc[o] = "waiting"

\* Not for ever: Close waits, also if a resource keeps its lease.
Unjoined == state = "closing"
=============================================================================
