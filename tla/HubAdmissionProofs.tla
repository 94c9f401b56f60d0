------------------------- MODULE HubAdmissionProofs -------------------------
(***************************************************************************)
(* Proofs about what may begin in the hub: the leases of workspaces        *)
(* (WorkspaceLease), scheduled turns (HubAutomation) and the attempts      *)
(* between which a turn waits (DurableWait).  For each, an inductive       *)
(* invariant (IInv, AInv, WInv), one lemma for every action, and the     *)
(* theorems that follow from it.                                           *)
(***************************************************************************)
EXTENDS WorkspaceLease, HubAutomation, DurableWait, FiniteSetTheorems, SequenceTheorems, WellFoundedInduction, TLAPS

\* One more element makes a set larger by one at most.
LEMMA CardPlus ==
  ASSUME NEW S, NEW x, IsFiniteSet(S)
  PROVE  IsFiniteSet(S \cup {x}) /\ Cardinality(S \cup {x}) <= Cardinality(S) + 1 /\ Cardinality(S) \in Nat
         /\ Cardinality(S \cup {x}) \in Nat
  <1>1. IsFiniteSet(S \cup {x}) /\ Cardinality(S) \in Nat
    BY FS_AddElement, FS_CardinalityType
  <1>2. CASE x \in S
    <2>1. Cardinality(S \cup {x}) = Cardinality(S)
      BY <1>2, FS_AddElement
    <2> QED BY <1>1, <2>1
  <1>3. CASE x \notin S
    <2>1. Cardinality(S \cup {x}) = Cardinality(S) + 1
      BY <1>3, FS_AddElement
    <2> QED BY <1>1, <2>1
  <1> QED BY <1>2, <1>3

-----------------------------------------------------------------------------
(* Leases of workspaces, for any attempts, actions, paths and budgets.     *)

LeasePoints == {"idle", "admitted", "waiting", "working", "sealed", "releasing", "leaving"}

Typed ==
    /\ pc \in [Owner -> LeasePoints]
    /\ asked \in [Owner -> SUBSET Path]
    /\ todo \in [Owner -> Seq(Path)]
    /\ exclusive \in [Owner -> BOOLEAN] /\ cancelled \in [Owner -> BOOLEAN]
    /\ active \subseteq Lease
    /\ ahead \in [Owner -> SUBSET Owner] /\ asleep \subseteq Owner
    /\ open \in [Attempt -> BOOLEAN]
    /\ refs \in [Attempt -> Nat] /\ count \in [Attempt -> Nat]
    /\ state \in {"open", "closing", "closed"}

\* The list of an owner is what it has still to acquire.
Lists ==
    \A o \in Owner :
      /\ Len(todo[o]) <= 2
      /\ pc[o] \in {"admitted", "waiting"} => Len(todo[o]) > 0
      /\ pc[o] \in {"admitted", "waiting"} /\ o \in Attempt => Len(todo[o]) = 1
      /\ pc[o] = "working" => todo[o] = <<>>

Exclusion == \A l \in active, m \in active : l # m => ~Conflicts(l, m)

\* Every path that o was called for is covered by a lease it has, or by one
\* that it is about to acquire.
Covered(o, p) ==
    \/ \E l \in active : l.owner = o /\ l.exclusive = exclusive[o] /\ <<p, l.path>> \in Within
    \/ \E i \in 1..Len(todo[o]) : <<p, todo[o][i]>> \in Within

Covers ==
    \A o \in Owner :
      pc[o] \in {"admitted", "waiting", "working"} => \A p \in asked[o] : Covered(o, p)

\* Only waiting owners are in the queue, and only they sleep.
Queue ==
    /\ asleep \subseteq Waiting
    /\ \A o \in Owner : ahead[o] \subseteq Waiting
    /\ SleepersAreBlocked

\* An attempt refers to its lease as long as it has it.
Retained ==
    \A a \in Attempt :
      /\ refs[a] > 0 => pc[a] \in {"working", "sealed"}
      /\ pc[a] \in {"working", "sealed", "releasing"} => Held(a) # {}
      /\ pc[a] = "working" <=> open[a]
      /\ open[a] => refs[a] > 0
      /\ refs[a] <= count[a] + 1 /\ count[a] <= MaxRetain

InUse == {a \in Action : pc[a] # "idle"}

Budgets ==
    /\ IsFiniteSet(Waiting) /\ Cardinality(Waiting) <= MaxWaiting
    /\ IsFiniteSet(InUse) /\ Cardinality(InUse) <= MaxAction

IInv ==
    /\ Typed /\ Lists
    /\ Exclusion /\ Covers /\ Queue
    /\ Retained /\ Budgets /\ ClosedIsOver

-----------------------------------------------------------------------------
(* Lists of paths.                                                         *)

\* The tail of a list has every element but the first.
LEMMA TailFacts ==
    ASSUME NEW s \in Seq(Path), Len(s) > 0
    PROVE  /\ Tail(s) \in Seq(Path) /\ Len(Tail(s)) = Len(s) - 1
           /\ Head(s) = s[1] /\ s[1] \in Path
           /\ \A i \in 2..Len(s) : s[i] = Tail(s)[i - 1]
  OBVIOUS

\* What WithExclusiveWorkspaces acquires covers what it was called for.
LEMMA PreparedCovers ==
    ASSUME NEW p \in Path, NEW q \in Path
    PROVE  /\ Prepared(p, q) \in Seq(Path)
           /\ Len(Prepared(p, q)) \in {1, 2}
           /\ \A r \in {p, q} :
                \E i \in 1..Len(Prepared(p, q)) : <<r, Prepared(p, q)[i]>> \in Within
<1> DEFINE first  == IF Rank[p] <= Rank[q] THEN p ELSE q
<1> DEFINE second == IF Rank[p] <= Rank[q] THEN q ELSE p
<1>1. /\ first \in Path /\ second \in Path /\ Rank[first] <= Rank[second]
      /\ {first, second} = {p, q}
  BY PathAssumption
<1>2. <<first, first>> \in Within /\ <<second, second>> \in Within
  BY <1>1, PathAssumption
<1>3. Prepared(p, q) = IF Overlaps(first, second) THEN <<first>> ELSE <<first, second>>
  BY DEF Prepared
<1> HIDE DEF first, second
<1>4. CASE Overlaps(first, second)
  <2>1. <<second, first>> \in Within
    <3>1. CASE <<first, second>> \in Within
      BY <3>1, <1>1, <1>2, PathAssumption
    <3> QED
      BY <1>4, <3>1 DEF Overlaps
  <2>2. Prepared(p, q) = <<first>>
    BY <1>3, <1>4
  <2>3. <<first>> \in Seq(Path) /\ Len(<<first>>) = 1 /\ <<first>>[1] = first
    BY <1>1
  <2> QED
    BY <1>1, <1>2, <2>1, <2>2, <2>3
<1>5. CASE ~Overlaps(first, second)
  <2>2. Prepared(p, q) = <<first, second>>
    BY <1>3, <1>5
  <2>3. /\ <<first, second>> \in Seq(Path) /\ Len(<<first, second>>) = 2
        /\ <<first, second>>[1] = first /\ <<first, second>>[2] = second
    BY <1>1
  <2> QED
    BY <1>1, <1>2, <2>2, <2>3
<1> QED
  BY <1>4, <1>5

-----------------------------------------------------------------------------
(* Every step keeps the types and the lists.                               *)

\* A step of the system is one of these.
Steps ==
    \/ \E a \in Attempt, p \in Path, x \in BOOLEAN : EnterAttempt(a, p, x)
    \/ \E a \in Action, p \in Path, q \in Path : EnterAction(a, p, q)
    \/ \E a \in Attempt : Retain(a) \/ Return(a) \/ Seal(a) \/ Release(a)
    \/ \E a \in Action : Applied(a) \/ Unlock(a) \/ Leave(a)
    \/ \E o \in Owner : Refuse(o) \/ GiveUp(o) \/ Sleep(o) \/ Grant(o) \/ Cancel(o)
    \/ Close \/ CloseReturns

\* The cases of the proofs below are complete.
LEMMA NextIsSteps == Next => Steps
  BY DEF Next, Steps, AttemptStep, ActionStep, Acquire

\* Entering keeps the types, and the list entered with is sound.
LEMMA EnterFacts ==
    ASSUME Typed, NEW o \in Owner, NEW P \in SUBSET Path, NEW L \in Seq(Path),
           NEW x \in BOOLEAN, Enter(o, P, L, x)
    PROVE  Typed'
  BY DEF Typed, LeasePoints, Enter, retainVars

\* The request of an owner with something to acquire is a lease.
LEMMA WantedIsLease ==
    ASSUME Typed, NEW o \in Owner, Len(todo[o]) > 0
    PROVE  /\ Wanted(o) \in Lease /\ Wanted(o).owner = o
           /\ Wanted(o).exclusive = exclusive[o] /\ Wanted(o).path = todo[o][1]
<1>1. todo[o] \in Seq(Path)
  BY DEF Typed
<1>2. Head(todo[o]) = todo[o][1] /\ todo[o][1] \in Path
  BY <1>1, TailFacts
<1> QED
  BY <1>2 DEF Wanted, Lease, Typed

\* An owner that looks has something to acquire.
LEMMA LookerHasList ==
    ASSUME Lists, NEW o \in Owner, Looks(o)
    PROVE  Len(todo[o]) > 0
  BY DEF Lists, Looks

\* Every step keeps the types.
LEMMA TypedKept ==
    ASSUME Typed, Lists, Retained, Next
    PROVE  Typed'
<1> USE DEF LeasePoints, ownerVars, retainVars
<1>1. ASSUME NEW a \in Attempt, NEW p \in Path, NEW x \in BOOLEAN, EnterAttempt(a, p, x)
      PROVE  Typed'
  <2>1. a \in Owner /\ {p} \in SUBSET Path /\ <<p>> \in Seq(Path)
    BY DEF Owner
  <2> QED
    BY <1>1, <2>1, EnterFacts DEF EnterAttempt
<1>2. ASSUME NEW a \in Action, NEW p \in Path, NEW q \in Path, EnterAction(a, p, q)
      PROVE  Typed'
  <2>1. a \in Owner /\ {p, q} \in SUBSET Path /\ Prepared(p, q) \in Seq(Path)
    BY PreparedCovers DEF Owner
  <2> QED
    BY <1>2, <2>1, EnterFacts DEF EnterAction
<1>3. ASSUME NEW a \in Attempt, Retain(a)
      PROVE  Typed'
  BY <1>3 DEF Typed, Retain
<1>4. ASSUME NEW a \in Attempt, Return(a)
      PROVE  Typed'
  <2>1. refs[a] - 1 \in Nat /\ pc[a] \in LeasePoints
    BY <1>4 DEF Typed, Return, Owner
  <2> QED
    BY <1>4, <2>1 DEF Typed, Return, Drop
<1>5. ASSUME NEW a \in Attempt, Seal(a)
      PROVE  Typed'
  <2>1. refs[a] - 1 \in Nat
    BY <1>5 DEF Typed, Seal, Retained
  <2> QED
    BY <1>5, <2>1 DEF Typed, Seal, Drop
<1>6. ASSUME NEW a \in Attempt, Release(a)
      PROVE  Typed'
  BY <1>6 DEF Typed, Release, LetGo, Forget
<1>7. ASSUME NEW a \in Action, Applied(a) \/ Unlock(a) \/ Leave(a)
      PROVE  Typed'
  BY <1>7 DEF Typed, Applied, Unlock, Leave, LetGo, Forget
<1>8. ASSUME NEW o \in Owner, Refuse(o) \/ GiveUp(o)
      PROVE  Typed'
  <2>1. <<>> \in Seq(Path)
    OBVIOUS
  <2>2. ahead' \in [Owner -> SUBSET Owner] /\ asleep' \subseteq Owner
    BY <1>8 DEF Typed, Refuse, GiveUp, Without
  <2>3. Unserved(o)
    BY <1>8 DEF Refuse, GiveUp
  <2>4. ownerVars' = ownerVars \/ Forget(o)
    BY <2>3 DEF Unserved
  <2> QED
    BY <2>1, <2>2, <2>3, <2>4 DEF Typed, Unserved, Forget
<1>9. ASSUME NEW o \in Owner, Sleep(o)
      PROVE  Typed'
  <2>1. InFrontOf(o) \in SUBSET Owner
    BY DEF InFrontOf, Typed, Waiting
  <2> QED
    BY <1>9, <2>1 DEF Typed, Sleep
<1>10. ASSUME NEW o \in Owner, Grant(o)
       PROVE  Typed'
  <2>1. Wanted(o) \in Lease /\ Tail(todo[o]) \in Seq(Path)
    <3>1. Len(todo[o]) > 0 /\ todo[o] \in Seq(Path)
      BY <1>10, LookerHasList DEF Grant, Typed
    <3> QED
      BY <3>1, WantedIsLease, TailFacts
  <2>2. Without(o) \in [Owner -> SUBSET Owner]
    BY DEF Without, Typed
  <2>3. open' \in [Attempt -> BOOLEAN] /\ refs' \in [Attempt -> Nat] /\ count' \in [Attempt -> Nat]
    <3>1. CASE o \in Attempt
      <4>1. /\ open' = [open EXCEPT ![o] = TRUE] /\ refs' = [refs EXCEPT ![o] = 1]
            /\ count' = count
        BY <1>10, <3>1 DEF Grant
      <4> QED
        BY <4>1 DEF Typed
    <3>2. CASE o \notin Attempt
      BY <1>10, <3>2 DEF Grant, Typed
    <3> QED
      BY <3>1, <3>2
  <2> QED
    BY <1>10, <2>1, <2>2, <2>3 DEF Typed, Grant
<1>11. ASSUME NEW o \in Owner, Cancel(o)
       PROVE  Typed'
  BY <1>11 DEF Typed, Cancel
<1>12. CASE Close
  BY <1>12 DEF Typed, Close
<1>13. CASE CloseReturns
  BY <1>13 DEF Typed, CloseReturns
<1> QED
  BY <1>1, <1>2, <1>3, <1>4, <1>5, <1>6, <1>7, <1>8, <1>9, <1>10, <1>11, <1>12, <1>13,
     NextIsSteps DEF Steps

\* Every step keeps the lists in order.
LEMMA ListsKept ==
    ASSUME Typed, Lists, Next
    PROVE  Lists'
<1> USE DEF LeasePoints, ownerVars, retainVars
<1>1. ASSUME NEW o \in Owner, NEW P \in SUBSET Path, NEW L \in Seq(Path), NEW x \in BOOLEAN,
             Enter(o, P, L, x), Len(L) \in {1, 2}, o \in Attempt => Len(L) = 1
      PROVE  Lists'
  <2>1. todo' = [todo EXCEPT ![o] = L] /\ pc' = [pc EXCEPT ![o] = "admitted"]
    BY <1>1 DEF Enter
  <2>2. \A q \in Owner : todo'[q] = IF q = o THEN L ELSE todo[q]
    BY <2>1 DEF Typed
  <2>3. \A q \in Owner : pc'[q] = IF q = o THEN "admitted" ELSE pc[q]
    BY <2>1 DEF Typed
  <2>4. /\ Len(L) <= 2 /\ Len(L) > 0 /\ (o \in Attempt => Len(L) = 1)
    <3> HIDE DEF LeasePoints, ownerVars, retainVars
    <3>1. CASE Len(L) = 1
      BY <3>1
    <3>2. CASE Len(L) = 2
      BY <1>1, <3>2
    <3> QED
      BY <1>1, <3>1, <3>2
  <2> SUFFICES ASSUME NEW q \in Owner
               PROVE  /\ Len(todo'[q]) <= 2
                      /\ pc'[q] \in {"admitted", "waiting"} => Len(todo'[q]) > 0
                      /\ pc'[q] \in {"admitted", "waiting"} /\ q \in Attempt => Len(todo'[q]) = 1
                      /\ pc'[q] = "working" => todo'[q] = <<>>
    BY DEF Lists
  <2>5. CASE q = o
    <3>1. todo'[q] = L /\ pc'[q] = "admitted"
      BY <2>2, <2>3, <2>5
    <3> QED
      BY <2>4, <2>5, <3>1
  <2>6. CASE q # o
    <3>1. todo'[q] = todo[q] /\ pc'[q] = pc[q]
      BY <2>2, <2>3, <2>6
    <3> QED
      BY <3>1 DEF Lists
  <2> QED
    BY <2>5, <2>6
<1>2. ASSUME NEW a \in Attempt, NEW p \in Path, NEW x \in BOOLEAN, EnterAttempt(a, p, x)
      PROVE  Lists'
  <2>1. a \in Owner /\ {p} \in SUBSET Path /\ <<p>> \in Seq(Path) /\ Len(<<p>>) = 1
    BY DEF Owner
  <2> QED
    BY <1>1, <1>2, <2>1 DEF EnterAttempt
<1>3. ASSUME NEW a \in Action, NEW p \in Path, NEW q \in Path, EnterAction(a, p, q)
      PROVE  Lists'
  <2>1. /\ a \in Owner /\ {p, q} \in SUBSET Path /\ Prepared(p, q) \in Seq(Path)
        /\ Len(Prepared(p, q)) \in {1, 2} /\ a \notin Attempt
    BY PreparedCovers, OwnerAssumption DEF Owner
  <2> QED
    BY <1>1, <1>3, <2>1 DEF EnterAction
<1>4. ASSUME NEW a \in Attempt, Retain(a)
      PROVE  Lists'
  BY <1>4 DEF Lists, Retain
<1>5. ASSUME NEW a \in Attempt, Return(a) \/ Seal(a)
      PROVE  Lists'
  <2>1. todo' = todo
    BY <1>5 DEF Return, Seal, Drop
  <2>2. \A o \in Owner : pc'[o] \in {pc[o], "releasing", "sealed"}
    BY <1>5 DEF Return, Seal, Drop, Typed
  <2> QED
    BY <2>1, <2>2 DEF Lists
<1>6. ASSUME NEW a \in Owner, Release(a) \/ Applied(a) \/ Unlock(a) \/ Leave(a)
      PROVE  Lists'
  <2>1. todo' = todo
    BY <1>6 DEF Release, Applied, Unlock, Leave, LetGo
  <2>2. \A o \in Owner : pc'[o] \in {pc[o], "idle", "leaving"}
    BY <1>6 DEF Release, Applied, Unlock, Leave, LetGo, Typed
  <2> QED
    BY <2>1, <2>2 DEF Lists
<1>7. ASSUME NEW o \in Owner, Refuse(o) \/ GiveUp(o)
      PROVE  Lists'
  <2>1. Unserved(o)
    BY <1>7 DEF Refuse, GiveUp
  <2>2. Len(<<>>) = 0
    OBVIOUS
  <2> QED
    BY <2>1, <2>2 DEF Lists, Unserved, Typed
<1>8. ASSUME NEW o \in Owner, Sleep(o)
      PROVE  Lists'
  BY <1>8 DEF Lists, Sleep, Looks, Typed
<1>9. ASSUME NEW o \in Owner, Grant(o)
      PROVE  Lists'
  <2>1. /\ Len(todo[o]) > 0 /\ Len(todo[o]) <= 2 /\ todo[o] \in Seq(Path)
        /\ o \in Attempt => Len(todo[o]) = 1
    BY <1>9, LookerHasList DEF Grant, Typed, Lists, Looks
  <2>2. Tail(todo[o]) \in Seq(Path) /\ Len(Tail(todo[o])) = Len(todo[o]) - 1
    BY <2>1, TailFacts
  <2>3. Tail(todo[o]) = <<>> <=> Len(Tail(todo[o])) = 0
    BY <2>2, EmptySeq
  <2>4. Len(Tail(todo[o])) <= 1 /\ (o \in Attempt => Tail(todo[o]) = <<>>)
    BY <2>1, <2>2, <2>3
  <2>5. Len(Tail(todo[o])) \in Nat
    BY <2>2
  <2>6. /\ todo' = [todo EXCEPT ![o] = Tail(todo[o])]
        /\ pc' = [pc EXCEPT ![o] = IF Tail(todo[o]) = <<>> THEN "working" ELSE "admitted"]
    BY <1>9 DEF Grant
  <2> HIDE DEF LeasePoints
  <2> QED
    BY <2>3, <2>4, <2>5, <2>6 DEF Lists, Typed
<1>10. ASSUME NEW o \in Owner, Cancel(o)
       PROVE  Lists'
  BY <1>10 DEF Lists, Cancel
<1>11. CASE Close \/ CloseReturns
  BY <1>11 DEF Lists, Close, CloseReturns
<1> QED
  BY <1>2, <1>3, <1>4, <1>5, <1>6, <1>7, <1>8, <1>9, <1>10, <1>11, NextIsSteps
  DEF Steps, Owner

-----------------------------------------------------------------------------
(* Mutual exclusion.                                                       *)

\* Granting a request that is not blocked keeps the leases apart.
LEMMA ExclusionKept ==
    ASSUME Typed, Lists, Exclusion, Next
    PROVE  Exclusion'
<1>1. CASE active' \subseteq active
  BY <1>1 DEF Exclusion, Conflicts, Overlaps
<1>2. ASSUME NEW o \in Owner, Grant(o)
      PROVE  Exclusion'
  <2> DEFINE w == Wanted(o)
  <2>1. active' = active \cup {w}
    BY <1>2 DEF Grant
  <2>2. \A l \in active : ~Conflicts(l, w)
    BY <1>2 DEF Grant, Blocked
  <2> HIDE DEF w
  <2>3. \A l \in active : ~Conflicts(w, l)
    BY <2>2 DEF Conflicts, Overlaps
  <2> QED
    BY <2>1, <2>2, <2>3 DEF Exclusion, Conflicts, Overlaps
<1>3. active' \subseteq active \/ \E o \in Owner : Grant(o)
  BY NextIsSteps DEF Steps, EnterAttempt, EnterAction, Enter, Retain, Return, Seal, Drop,
     Release, LetGo, Applied, Unlock, Leave, Refuse, GiveUp, Unserved, Sleep, Cancel, Close,
     CloseReturns
<1> QED
  BY <1>1, <1>2, <1>3

\* A step covers what it covered if it keeps the lists, the flags and the
\* leases of an owner.
LEMMA CoveredStays ==
    ASSUME NEW o \in Owner, NEW p \in Path, Covered(o, p),
           todo'[o] = todo[o], exclusive'[o] = exclusive[o],
           \A l \in active : l.owner = o => l \in active'
    PROVE  Covered(o, p)'
  BY DEF Covered

\* Acquiring the paths of the list one by one keeps everything covered.
LEMMA CoversKept ==
    ASSUME Typed, Lists, Covers, Next
    PROVE  Covers'
<1> DEFINE Live == {"admitted", "waiting", "working"}
<1> DEFINE Stays(o) ==
      /\ pc[o] \in Live /\ asked'[o] = asked[o] /\ todo'[o] = todo[o]
      /\ exclusive'[o] = exclusive[o] /\ \A l \in active : l.owner = o => l \in active'
<1>1. ASSUME NEW o \in Owner, Stays(o)
      PROVE  \A p \in asked'[o] : Covered(o, p)'
  <2>1. \A p \in asked[o] : p \in Path /\ Covered(o, p)
    BY <1>1 DEF Covers, Typed
  <2> QED
    BY <1>1, <2>1, CoveredStays
<1>2. ASSUME \A o \in Owner : pc'[o] \in Live => Stays(o)
      PROVE  Covers'
  BY <1>1, <1>2 DEF Covers
<1> HIDE DEF Live
<1>3. ASSUME NEW o \in Owner, NEW P \in SUBSET Path, NEW L \in Seq(Path), NEW x \in BOOLEAN,
             Enter(o, P, L, x), \A p \in P : \E i \in 1..Len(L) : <<p, L[i]>> \in Within
      PROVE  Covers'
  <2>1. \A q \in Owner : q # o /\ pc'[q] \in Live => Stays(q)
    BY <1>3 DEF Enter, Typed
  <2>2. asked'[o] = P /\ todo'[o] = L
    BY <1>3 DEF Enter, Typed
  <2>3. \A p \in asked'[o] : Covered(o, p)'
    BY <1>3, <2>2 DEF Covered
  <2> QED
    BY <1>1, <2>1, <2>3 DEF Covers, Live
<1>4. ASSUME NEW a \in Attempt, NEW p \in Path, NEW x \in BOOLEAN, EnterAttempt(a, p, x)
      PROVE  Covers'
  <2>1. a \in Owner /\ {p} \in SUBSET Path /\ <<p>> \in Seq(Path) /\ Len(<<p>>) = 1
    BY DEF Owner
  <2>2. <<p, <<p>>[1]>> \in Within
    BY PathAssumption
  <2> QED
    BY <1>3, <1>4, <2>1, <2>2 DEF EnterAttempt
<1>5. ASSUME NEW a \in Action, NEW p \in Path, NEW q \in Path, EnterAction(a, p, q)
      PROVE  Covers'
  <2>1. a \in Owner /\ {p, q} \in SUBSET Path
    BY DEF Owner
  <2> QED
    BY <1>3, <1>5, <2>1, PreparedCovers DEF EnterAction
<1>6. ASSUME NEW a \in Attempt, Retain(a) \/ Return(a) \/ Seal(a)
      PROVE  Covers'
  <2>1. UNCHANGED <<asked, todo, exclusive, active>>
    BY <1>6 DEF Retain, Return, Seal, Drop, ownerVars
  <2>2. \A o \in Owner : pc'[o] \in {pc[o], "sealed", "releasing"}
    BY <1>6 DEF Retain, Return, Seal, Drop, Typed
  <2> QED
    BY <1>2, <2>1, <2>2 DEF Live
<1>7. ASSUME NEW a \in Owner, Applied(a)
      PROVE  Covers'
  <2>1. UNCHANGED <<asked, todo, exclusive, active>>
    BY <1>7 DEF Applied, ownerVars
  <2>2. \A o \in Owner : pc'[o] \in {pc[o], "leaving"}
    BY <1>7 DEF Applied, Typed
  <2> QED
    BY <1>2, <2>1, <2>2 DEF Live
<1>8. ASSUME NEW a \in Owner, Release(a) \/ Unlock(a) \/ Leave(a) \/ Refuse(a) \/ GiveUp(a)
      PROVE  Covers'
  <2>1. /\ pc'[a] \notin Live
        /\ \A o \in Owner : o # a =>
             pc'[o] = pc[o] /\ asked'[o] = asked[o] /\ todo'[o] = todo[o] /\ exclusive'[o] = exclusive[o]
    <3>1. CASE Release(a)
      BY <3>1 DEF Release, LetGo, Forget, Typed, Live
    <3>2. CASE Unlock(a)
      BY <3>2 DEF Unlock, LetGo, ownerVars, Typed, Live
    <3>3. CASE Leave(a)
      BY <3>3 DEF Leave, Forget, Typed, Live
    <3>4. CASE Refuse(a) \/ GiveUp(a)
      <4>1. Unserved(a)
        BY <3>4 DEF Refuse, GiveUp
      <4>2. UNCHANGED ownerVars \/ Forget(a)
        BY <4>1 DEF Unserved
      <4> QED
        BY <4>1, <4>2 DEF Unserved, Forget, ownerVars, Typed, Live
    <3> QED
      BY <1>8, <3>1, <3>2, <3>3, <3>4
  <2>2. \A l \in active : l.owner # a => l \in active'
    BY <1>8 DEF Release, LetGo, Unlock, Leave, Refuse, GiveUp, Unserved, Held
  <2> QED
    BY <1>2, <2>1, <2>2
<1>9. ASSUME NEW o \in Owner, Sleep(o) \/ Cancel(o)
      PROVE  Covers'
  <2>1. UNCHANGED <<asked, todo, exclusive, active>>
    BY <1>9 DEF Sleep, Cancel, ownerVars
  <2>2. \A q \in Owner : pc'[q] \in Live => pc[q] \in Live
    BY <1>9 DEF Sleep, Looks, Cancel, Typed, Live
  <2> QED
    BY <1>2, <2>1, <2>2
<1>10. ASSUME NEW o \in Owner, Grant(o)
       PROVE  Covers'
  <2>1. /\ UNCHANGED <<asked, exclusive>> /\ active' = active \cup {Wanted(o)}
        /\ todo' = [todo EXCEPT ![o] = Tail(todo[o])]
        /\ pc[o] \in Live /\ \A q \in Owner : q # o => pc'[q] = pc[q]
    BY <1>10 DEF Grant, Looks, ownerVars, Typed, Live
  <2>2. \A q \in Owner : q # o /\ pc'[q] \in Live => Stays(q)
    BY <2>1 DEF Typed
  <2>3. ASSUME NEW p \in asked'[o]
        PROVE  Covered(o, p)'
    <3>1. p \in Path /\ Covered(o, p)
      BY <2>1 DEF Covers, Typed, Live
    <3>2. CASE \E l \in active : l.owner = o /\ l.exclusive = exclusive[o] /\ <<p, l.path>> \in Within
      BY <2>1, <3>2 DEF Covered
    <3>3. ASSUME NEW i \in 1..Len(todo[o]), <<p, todo[o][i]>> \in Within
          PROVE  Covered(o, p)'
      <4>1. Len(todo[o]) > 0 /\ todo[o] \in Seq(Path)
        BY <1>10, LookerHasList DEF Grant, Typed
      <4>2. CASE i = 1
        <5>1. /\ Wanted(o) \in active' /\ Wanted(o).owner = o
              /\ Wanted(o).exclusive = exclusive'[o] /\ Wanted(o).path = todo[o][i]
          BY <2>1, <4>1, <4>2, WantedIsLease
        <5> QED
          BY <3>3, <5>1 DEF Covered
      <4>3. CASE i # 1
        <5>1. /\ i \in 2..Len(todo[o]) /\ todo[o][i] = Tail(todo[o])[i - 1]
              /\ i - 1 \in 1..Len(Tail(todo[o]))
          BY <4>1, <4>3, TailFacts
        <5>2. todo'[o] = Tail(todo[o])
          BY <2>1 DEF Typed
        <5> QED
          BY <3>3, <5>1, <5>2 DEF Covered
      <4> QED
        BY <4>2, <4>3
    <3> QED
      BY <3>1, <3>2, <3>3 DEF Covered
  <2> QED
    BY <1>1, <2>2, <2>3 DEF Covers, Live
<1>11. CASE Close \/ CloseReturns
  <2>1. UNCHANGED <<pc, asked, todo, exclusive, active>>
    BY <1>11 DEF Close, CloseReturns, ownerVars
  <2> QED
    BY <1>2, <2>1
<1> QED
  BY <1>4, <1>5, <1>6, <1>7, <1>8, <1>9, <1>10, <1>11, NextIsSteps DEF Steps, Owner

-----------------------------------------------------------------------------
(* The queue.                                                              *)

\* A sleeper stays blocked by what blocked it, if that and its request stay.
LEMMA QueueStays ==
    ASSUME Typed, Queue, ahead' = ahead,
           asleep' = {} \/ (asleep' = asleep /\ active \subseteq active'),
           \A q \in Waiting : pc'[q] = pc[q] /\ todo'[q] = todo[q] /\ exclusive'[q] = exclusive[q]
    PROVE  Queue'
<1>1. Waiting \subseteq Waiting'
  BY DEF Waiting
<1>2. \A q \in Waiting : Wanted(q)' = Wanted(q)
  BY DEF Wanted
<1>3. asleep' \subseteq Waiting' /\ \A o \in Owner : ahead'[o] \subseteq Waiting'
  BY <1>1 DEF Queue
<1>4. ASSUME NEW o \in asleep, asleep' = asleep, active \subseteq active'
      PROVE  Blocked(o)'
  <2>1. /\ o \in Owner /\ o \in Waiting /\ Wanted(o)' = Wanted(o)
        /\ InFrontOf(o) = ahead[o] /\ InFrontOf(o)' = ahead[o] /\ ahead[o] \subseteq Waiting
    BY <1>2 DEF Queue, InFrontOf, Waiting
  <2>2. CASE \E l \in active : Conflicts(l, Wanted(o))
    BY <1>4, <2>1, <2>2 DEF Blocked, Conflicts, Overlaps
  <2>3. CASE \E w \in ahead[o] : Conflicts(Wanted(w), Wanted(o))
    <3>1. PICK w \in ahead[o] : Conflicts(Wanted(w), Wanted(o))
      BY <2>3
    <3>2. Wanted(w)' = Wanted(w)
      BY <1>2, <2>1
    <3>3. Conflicts(Wanted(w)', Wanted(o)')
      BY <2>1, <3>1, <3>2 DEF Conflicts, Overlaps
    <3> QED
      BY <2>1, <3>3 DEF Blocked, Conflicts, Overlaps
  <2> QED
    BY <2>1, <2>2, <2>3 DEF Queue, SleepersAreBlocked, Blocked
<1> QED
  BY <1>3, <1>4 DEF Queue, SleepersAreBlocked

\* An owner that joins the queue is blocked, and nobody else notices.
LEMMA QueueKeptBySleep ==
    ASSUME Typed, Queue, NEW o \in Owner, Sleep(o)
    PROVE  Queue'
<1>1. /\ pc'[o] = "waiting" /\ \A q \in Owner : q # o => pc'[q] = pc[q]
      /\ ahead'[o] = InFrontOf(o) /\ \A q \in Owner : q # o => ahead'[q] = ahead[q]
      /\ asleep' = asleep \cup {o} /\ active' = active /\ Blocked(o)
  BY DEF Sleep, Typed
<1>2. Waiting' = Waiting \cup {o}
  BY <1>1 DEF Waiting
<1>3. \A q \in Owner : Wanted(q)' = Wanted(q)
  BY DEF Sleep, Wanted, ownerVars
<1>4. asleep' \subseteq Waiting' /\ \A q \in Owner : ahead'[q] \subseteq Waiting'
  BY <1>1, <1>2 DEF Queue, InFrontOf
<1>5. ASSUME NEW q \in asleep'
      PROVE  Blocked(q)'
  <2>1. q \in Owner /\ Blocked(q) /\ InFrontOf(q)' = InFrontOf(q) /\ Wanted(q)' = Wanted(q)
    BY <1>1, <1>3 DEF Queue, SleepersAreBlocked, InFrontOf, Waiting
  <2>2. InFrontOf(q) \subseteq Owner
    BY <2>1 DEF InFrontOf, Waiting, Typed
  <2>3. CASE \E l \in active : Conflicts(l, Wanted(q))
    BY <1>1, <2>1, <2>3 DEF Blocked, Conflicts, Overlaps
  <2>4. CASE \E w \in InFrontOf(q) : Conflicts(Wanted(w), Wanted(q))
    <3>1. PICK w \in InFrontOf(q) : Conflicts(Wanted(w), Wanted(q))
      BY <2>4
    <3>2. Conflicts(Wanted(w)', Wanted(q)')
      BY <1>3, <2>1, <2>2, <3>1 DEF Conflicts, Overlaps
    <3> QED
      BY <2>1, <3>2 DEF Blocked, Conflicts, Overlaps
  <2> QED
    BY <2>1, <2>3, <2>4 DEF Blocked
<1> QED
  BY <1>4, <1>5 DEF Queue, SleepersAreBlocked

\* Whoever was blocked by a request is blocked by its lease once it is granted.
LEMMA QueueKeptByGrant ==
    ASSUME Typed, Lists, Queue, NEW o \in Owner, Grant(o)
    PROVE  Queue'
<1>1. /\ pc'[o] # "waiting" /\ \A q \in Owner : q # o => pc'[q] = pc[q]
      /\ \A q \in Owner : q # o => todo'[q] = todo[q] /\ exclusive'[q] = exclusive[q]
      /\ asleep' = asleep /\ active' = active \cup {Wanted(o)}
  BY DEF Grant, Typed, ownerVars
<1>2. \A q \in Owner : q # o => ahead'[q] = ahead[q] \ {o}
  BY DEF Grant, Without
<1>3. ahead'[o] = {}
  BY DEF Grant, Without
<1>4. Waiting' = Waiting \ {o}
  BY <1>1 DEF Waiting
<1>5. o \notin asleep
  BY DEF Grant, Looks, Awake, Queue, Waiting
<1>6. asleep' \subseteq Waiting' /\ \A q \in Owner : ahead'[q] \subseteq Waiting'
  BY <1>1, <1>2, <1>3, <1>4, <1>5 DEF Queue
<1>7. \A q \in Owner : q # o => Wanted(q)' = Wanted(q)
  BY <1>1 DEF Wanted
<1>8. ASSUME NEW q \in asleep
      PROVE  Blocked(q)'
  <2>1. /\ q \in Owner /\ q # o /\ Blocked(q) /\ Wanted(q)' = Wanted(q)
        /\ InFrontOf(q) = ahead[q] /\ InFrontOf(q)' = ahead[q] \ {o} /\ ahead[q] \subseteq Owner
    BY <1>1, <1>2, <1>5, <1>7 DEF Queue, SleepersAreBlocked, InFrontOf, Waiting, Typed
  <2>2. CASE \E l \in active' : Conflicts(l, Wanted(q))
    BY <2>1, <2>2 DEF Blocked, Conflicts, Overlaps
  <2>3. ASSUME NEW w \in ahead[q], w # o, Conflicts(Wanted(w), Wanted(q))
        PROVE  Blocked(q)'
    <3>1. Conflicts(Wanted(w)', Wanted(q)')
      BY <1>7, <2>1, <2>3 DEF Conflicts, Overlaps
    <3> QED
      BY <2>1, <2>3, <3>1 DEF Blocked, Conflicts, Overlaps
  <2> QED
    BY <1>1, <2>1, <2>2, <2>3 DEF Blocked
<1> QED
  BY <1>1, <1>6, <1>8 DEF Queue, SleepersAreBlocked

\* Every step keeps the queue in order, and loses no wake-up.
LEMMA QueueKept ==
    ASSUME Typed, Lists, Queue, Retained, Next
    PROVE  Queue'
<1> USE DEF ownerVars, retainVars
<1>1. ASSUME NEW o \in Owner, NEW P, NEW L, NEW x, Enter(o, P, L, x)
      PROVE  Queue'
  BY <1>1, QueueStays DEF Enter, Admitted, Waiting, Typed
<1>2. ASSUME NEW a \in Attempt, Retain(a) \/ Return(a) \/ Seal(a)
      PROVE  Queue'
  <2>1. pc[a] \in {"working", "sealed"} \/ pc' = pc
    BY <1>2 DEF Retain, Return, Seal, Retained, Typed
  <2>2. \A q \in Waiting : pc'[q] = pc[q]
    BY <1>2, <2>1 DEF Retain, Return, Seal, Drop, Waiting, Typed
  <2> QED
    BY <1>2, <2>2, QueueStays DEF Retain, Return, Seal, Drop
<1>3. ASSUME NEW a \in Owner, Release(a) \/ Unlock(a)
      PROVE  Queue'
  <2>1. asleep' = {} /\ ahead' = ahead /\ todo' = todo
    BY <1>3 DEF Release, Unlock, LetGo
  <2>2. \A q \in Waiting : pc'[q] = pc[q] /\ exclusive'[q] = exclusive[q]
    BY <1>3 DEF Release, Unlock, Forget, Waiting, Typed
  <2>3. \A q \in Waiting : pc'[q] = pc[q] /\ todo'[q] = todo[q] /\ exclusive'[q] = exclusive[q]
    BY <2>1, <2>2
  <2> QED
    BY <2>1, <2>3, QueueStays
<1>4. ASSUME NEW a \in Owner, Applied(a) \/ Leave(a)
      PROVE  Queue'
  BY <1>4, QueueStays DEF Applied, Leave, Forget, Waiting, Typed
<1>5. ASSUME NEW o \in Owner, Refuse(o)
      PROVE  Queue'
  <2>1. UNCHANGED ownerVars \/ Forget(o)
    BY <1>5 DEF Refuse, Unserved
  <2>2. \A q \in Waiting : q # o /\ pc'[q] = pc[q] /\ todo'[q] = todo[q]
    BY <1>5 DEF Refuse, Unserved, Waiting, Typed
  <2>3. \A q \in Waiting : exclusive'[q] = exclusive[q]
    BY <2>1, <2>2 DEF Forget, Waiting, Typed
  <2> QED
    BY <1>5, <2>2, <2>3, QueueStays DEF Refuse, Unserved
<1>6. ASSUME NEW o \in Owner, GiveUp(o)
      PROVE  Queue'
  <2>1. asleep' = {} /\ \A q \in Owner : ahead'[q] \subseteq Waiting \ {o}
    BY <1>6 DEF GiveUp, Without, Queue
  <2>2. Waiting \ {o} \subseteq Waiting'
    BY <1>6 DEF GiveUp, Unserved, Waiting, Typed
  <2> QED
    BY <2>1, <2>2 DEF Queue, SleepersAreBlocked
<1>7. ASSUME NEW o \in Owner, Cancel(o)
      PROVE  Queue'
  BY <1>7, QueueStays DEF Cancel
<1>8. CASE Close \/ CloseReturns
  BY <1>8, QueueStays DEF Close, CloseReturns
<1> QED
  BY <1>1, <1>2, <1>3, <1>4, <1>5, <1>6, <1>7, <1>8, QueueKeptBySleep, QueueKeptByGrant,
     NextIsSteps DEF Steps, Owner, EnterAttempt, EnterAction

-----------------------------------------------------------------------------
(* Leases that are retained.                                               *)

\* What one attempt refers to does not change if nothing of it does.
LEMMA RetainedStays ==
    ASSUME NEW a \in Attempt, Retained,
           /\ pc'[a] = pc[a] /\ open'[a] = open[a] /\ refs'[a] = refs[a] /\ count'[a] = count[a]
           /\ Held(a) \subseteq active'
    PROVE  /\ refs'[a] > 0 => pc'[a] \in {"working", "sealed"}
           /\ pc'[a] \in {"working", "sealed", "releasing"} => Held(a)' # {}
           /\ pc'[a] = "working" <=> open'[a]
           /\ open'[a] => refs'[a] > 0
           /\ refs'[a] <= count'[a] + 1 /\ count'[a] <= MaxRetain
  BY DEF Retained, Held

\* Every step keeps the references and the leases together.
LEMMA RetainedKept ==
    ASSUME Typed, Lists, Retained, Next
    PROVE  Retained'
<1> USE DEF ownerVars, retainVars
<1> DEFINE Same(a) ==
      /\ pc'[a] = pc[a] /\ open'[a] = open[a] /\ refs'[a] = refs[a] /\ count'[a] = count[a]
      /\ Held(a) \subseteq active'
<1> DEFINE Good(a) ==
      /\ refs'[a] > 0 => pc'[a] \in {"working", "sealed"}
      /\ pc'[a] \in {"working", "sealed", "releasing"} => Held(a)' # {}
      /\ pc'[a] = "working" <=> open'[a]
      /\ open'[a] => refs'[a] > 0
      /\ refs'[a] <= count'[a] + 1 /\ count'[a] <= MaxRetain
<1>1. ASSUME NEW o, \A a \in Attempt : a # o => Same(a), o \in Attempt => Good(o)
      PROVE  Retained'
  <2>1. \A a \in Attempt : Good(a)
    BY <1>1, RetainedStays
  <2> QED
    BY <2>1 DEF Retained
<1>2. /\ Attempt \subseteq Owner /\ \A a \in Attempt, b \in Action : a # b
      /\ \A a \in Attempt : /\ refs[a] \in Nat /\ count[a] \in Nat /\ open[a] \in BOOLEAN
                            /\ pc[a] \in LeasePoints
  BY OwnerAssumption DEF Owner, Typed
<1>3. ASSUME NEW o \in Owner, NEW P, NEW L, NEW x, Enter(o, P, L, x)
      PROVE  Retained'
  <2>1. \A a \in Attempt : a # o => Same(a)
    BY <1>3, <1>2 DEF Enter, Typed, Held
  <2>2. ASSUME o \in Attempt
        PROVE  Good(o)
    <3>1. pc[o] = "idle" /\ pc'[o] = "admitted"
      BY <1>3 DEF Enter, Admitted, Typed
    <3>2. refs'[o] = refs[o] /\ open'[o] = open[o] /\ count'[o] = count[o]
      BY <1>3 DEF Enter
    <3> QED
      BY <1>2, <2>2, <3>1, <3>2 DEF Retained
  <2> HIDE DEF Same, Good
  <2> QED
    BY <1>1, <2>1, <2>2
<1>4. ASSUME NEW a \in Attempt, Retain(a)
      PROVE  Retained'
  <2>1. /\ pc' = pc /\ active' = active /\ open' = open
        /\ refs' = [refs EXCEPT ![a] = @ + 1] /\ count' = [count EXCEPT ![a] = @ + 1]
        /\ open[a] /\ count[a] < MaxRetain
    BY <1>4 DEF Retain, MayRetain
  <2>2. \A b \in Attempt : b # a => Same(b)
    BY <2>1 DEF Typed, Held
  <2>3. refs'[a] = refs[a] + 1 /\ count'[a] = count[a] + 1
    BY <2>1 DEF Typed
  <2>4. Good(a)
    BY <1>2, <2>1, <2>3, BudgetAssumption DEF Retained, Held
  <2> HIDE DEF Same, Good
  <2> QED
    BY <1>1, <2>2, <2>4
<1>5. ASSUME NEW a \in Attempt, Return(a)
      PROVE  Retained'
  <2>1. /\ refs' = [refs EXCEPT ![a] = @ - 1]
        /\ pc' = [pc EXCEPT ![a] = IF refs[a] = 1 THEN "releasing" ELSE pc[a]]
        /\ active' = active /\ open' = open /\ count' = count
        /\ refs[a] > IF open[a] THEN 1 ELSE 0
    BY <1>5 DEF Return, Drop
  <2>2. \A b \in Attempt : b # a => Same(b)
    BY <1>2, <2>1 DEF Typed, Held
  <2>3. refs'[a] = refs[a] - 1 /\ pc'[a] = IF refs[a] = 1 THEN "releasing" ELSE pc[a]
    BY <1>2, <2>1 DEF Typed
  <2>4. refs[a] > 0 /\ pc[a] \in {"working", "sealed"} /\ Held(a) # {} /\ Held(a)' = Held(a)
    BY <1>2, <2>1 DEF Retained, Held
  <2>5. refs[a] = 1 => ~open[a]
    BY <2>1
  <2>6. /\ pc[a] = "working" <=> open[a]
        /\ refs[a] <= count[a] + 1 /\ count[a] <= MaxRetain
    BY DEF Retained
  <2>7. open[a] => refs[a] > 1
    BY <2>1
  <2>8. Good(a)
    BY <1>2, <2>1, <2>3, <2>4, <2>5, <2>6, <2>7, BudgetAssumption
  <2> HIDE DEF Same, Good
  <2> QED
    BY <1>1, <2>2, <2>8
<1>6. ASSUME NEW a \in Attempt, Seal(a)
      PROVE  Retained'
  <2>1. /\ refs' = [refs EXCEPT ![a] = @ - 1]
        /\ pc' = [pc EXCEPT ![a] = IF refs[a] = 1 THEN "releasing" ELSE "sealed"]
        /\ active' = active /\ open' = [open EXCEPT ![a] = FALSE] /\ count' = count
        /\ pc[a] = "working"
    BY <1>6 DEF Seal, Drop
  <2>2. \A b \in Attempt : b # a => Same(b)
    BY <1>2, <2>1 DEF Typed, Held
  <2>3. /\ refs'[a] = refs[a] - 1 /\ ~open'[a]
        /\ pc'[a] = IF refs[a] = 1 THEN "releasing" ELSE "sealed"
    BY <1>2, <2>1 DEF Typed
  <2>4. /\ refs[a] > 0 /\ Held(a) # {} /\ Held(a)' = Held(a)
        /\ refs[a] <= count[a] + 1 /\ count[a] <= MaxRetain
    BY <1>2, <2>1 DEF Retained, Held
  <2>5. Good(a)
    BY <1>2, <2>1, <2>3, <2>4, BudgetAssumption
  <2> HIDE DEF Same, Good
  <2> QED
    BY <1>1, <2>2, <2>5
<1>7. ASSUME NEW a \in Attempt, Release(a)
      PROVE  Retained'
  <2>1. /\ pc' = [pc EXCEPT ![a] = "idle"] /\ count' = [count EXCEPT ![a] = 0]
        /\ open' = open /\ refs' = refs /\ pc[a] = "releasing"
        /\ \A l \in active : l.owner # a => l \in active'
    BY <1>7 DEF Release, LetGo, Held
  <2>2. \A b \in Attempt : b # a => Same(b)
    BY <1>2, <2>1 DEF Typed, Held
  <2>3. pc'[a] = "idle" /\ count'[a] = 0
    BY <1>2, <2>1 DEF Typed
  <2>4. refs'[a] = 0 /\ ~open'[a]
    BY <1>2, <2>1 DEF Retained
  <2>5. Good(a)
    BY <2>3, <2>4, BudgetAssumption
  <2> HIDE DEF Same, Good
  <2> QED
    BY <1>1, <2>2, <2>5
<1>8. ASSUME NEW a \in Action, Applied(a) \/ Unlock(a) \/ Leave(a)
      PROVE  Retained'
  <2>1. UNCHANGED retainVars /\ \A l \in active : l.owner # a => l \in active'
    BY <1>8 DEF Applied, Unlock, Leave, LetGo, Held
  <2>2. \A b \in Owner : b # a => pc'[b] = pc[b]
    BY <1>8 DEF Applied, Unlock, Leave, Typed
  <2>3. \A b \in Attempt : b # a => Same(b)
    BY <1>2, <2>1, <2>2 DEF Held
  <2> HIDE DEF Same, Good
  <2> QED
    BY <1>1, <1>2, <2>3
<1>9. ASSUME NEW o \in Owner, Refuse(o) \/ GiveUp(o) \/ Sleep(o)
      PROVE  Retained'
  <2>1. UNCHANGED retainVars /\ active' = active
    BY <1>9 DEF Refuse, GiveUp, Sleep, Unserved
  <2>2. /\ \A b \in Owner : b # o => pc'[b] = pc[b]
        /\ pc[o] \in {"admitted", "waiting"} /\ pc'[o] \in {"idle", "leaving", "waiting"}
    BY <1>9 DEF Refuse, GiveUp, Sleep, Unserved, Looks, Typed
  <2>3. \A b \in Attempt : b # o => Same(b)
    BY <1>2, <2>1, <2>2 DEF Held
  <2>4. o \in Attempt => Good(o)
    BY <1>2, <2>1, <2>2 DEF Retained
  <2> HIDE DEF Same, Good
  <2> QED
    BY <1>1, <2>3, <2>4
<1>10. ASSUME NEW o \in Owner, Grant(o)
       PROVE  Retained'
  <2>1. /\ active' = active \cup {Wanted(o)} /\ pc[o] \in {"admitted", "waiting"}
        /\ \A b \in Owner : b # o => pc'[b] = pc[b]
        /\ pc'[o] = IF Tail(todo[o]) = <<>> THEN "working" ELSE "admitted"
    BY <1>10 DEF Grant, Looks, Typed
  <2>2. \A b \in Attempt :
          b # o => open'[b] = open[b] /\ refs'[b] = refs[b] /\ count'[b] = count[b]
    <3>1. CASE o \in Attempt
      <4>1. open' = [open EXCEPT ![o] = TRUE] /\ refs' = [refs EXCEPT ![o] = 1] /\ count' = count
        BY <1>10, <3>1 DEF Grant
      <4> QED
        BY <4>1 DEF Typed
    <3>2. CASE o \notin Attempt
      BY <1>10, <3>2 DEF Grant
    <3> QED
      BY <3>1, <3>2
  <2>3. \A b \in Attempt : b # o => Same(b)
    BY <1>2, <2>1, <2>2 DEF Held
  <2>4. ASSUME o \in Attempt
        PROVE  Good(o)
    <3>1. open' = [open EXCEPT ![o] = TRUE] /\ refs' = [refs EXCEPT ![o] = 1] /\ count' = count
      BY <1>10, <2>4 DEF Grant
    <3>2. open'[o] /\ refs'[o] = 1 /\ count'[o] = count[o] /\ count[o] <= MaxRetain
      BY <2>4, <3>1 DEF Typed, Retained
    <3>3. Len(todo[o]) = 1 /\ todo[o] \in Seq(Path)
      BY <2>1, <2>4 DEF Lists, Typed
    <3>4. Tail(todo[o]) \in Seq(Path) /\ Len(Tail(todo[o])) = 0
      <4>1. Len(todo[o]) > 0
        BY <3>3
      <4>2. Tail(todo[o]) \in Seq(Path) /\ Len(Tail(todo[o])) = Len(todo[o]) - 1
        BY <3>3, <4>1, TailFacts
      <4> QED
        BY <3>3, <4>2
    <3>5. pc'[o] = "working"
      BY <2>1, <3>4, EmptySeq
    <3>6. Held(o)' # {}
      <4>1. Wanted(o) \in active' /\ Wanted(o).owner = o
        BY <2>1 DEF Wanted
      <4> QED
        BY <4>1 DEF Held
    <3> QED
      BY <1>2, <2>4, <3>2, <3>5, <3>6
  <2> HIDE DEF Same, Good
  <2> QED
    BY <1>1, <2>3, <2>4
<1>11. CASE (\E o \in Owner : Cancel(o)) \/ Close \/ CloseReturns
  BY <1>11 DEF Cancel, Close, CloseReturns, Retained, Held
<1> QED
  BY <1>2, <1>3, <1>4, <1>5, <1>6, <1>7, <1>8, <1>9, <1>10, <1>11, NextIsSteps
  DEF Steps, Owner, EnterAttempt, EnterAction

-----------------------------------------------------------------------------
(* The budgets, and the end.                                               *)

\* A budget stays kept if at most one is added where there is a place.
LEMMA BudgetStays ==
    ASSUME NEW S, NEW T, NEW o, NEW n \in Nat, IsFiniteSet(S), Cardinality(S) <= n,
           T \subseteq S \/ (T \subseteq S \cup {o} /\ Cardinality(S) < n)
    PROVE  IsFiniteSet(T) /\ Cardinality(T) <= n
<1>1. CASE T \subseteq S
  <2>1. IsFiniteSet(T) /\ Cardinality(T) <= Cardinality(S)
    BY <1>1, FS_Subset
  <2>2. Cardinality(S) \in Nat /\ Cardinality(T) \in Nat
    BY <2>1, FS_CardinalityType
  <2> QED
    BY <2>1, <2>2
<1>2. CASE T \subseteq S \cup {o} /\ Cardinality(S) < n
  <2>1. /\ IsFiniteSet(S \cup {o})
        /\ Cardinality(S \cup {o}) = IF o \in S THEN Cardinality(S) ELSE Cardinality(S) + 1
    BY FS_AddElement
  <2>2. IsFiniteSet(T) /\ Cardinality(T) <= Cardinality(S \cup {o})
    BY <1>2, <2>1, FS_Subset
  <2>3. Cardinality(S) \in Nat /\ Cardinality(T) \in Nat
    BY <2>2, FS_CardinalityType
  <2> QED
    BY <1>2, <2>1, <2>2, <2>3
<1> QED
  BY <1>1, <1>2

\* Every step stays within the budgets.
LEMMA BudgetsKept ==
    ASSUME Typed, Retained, Budgets, Next
    PROVE  Budgets'
<1> USE DEF ownerVars, retainVars
<1>1. /\ MaxWaiting \in Nat /\ MaxAction \in Nat
      /\ Attempt \subseteq Owner /\ Action \subseteq Owner
      /\ \A a \in Attempt : a \notin Action
  BY BudgetAssumption, OwnerAssumption DEF Owner
<1>2. ASSUME NEW o,
             \/ Waiting' \subseteq Waiting
             \/ (Waiting' \subseteq Waiting \cup {o} /\ Cardinality(Waiting) < MaxWaiting),
             \/ InUse' \subseteq InUse
             \/ (InUse' \subseteq InUse \cup {o} /\ Cardinality(InUse) < MaxAction)
      PROVE  Budgets'
  BY <1>1, <1>2, BudgetStays DEF Budgets
<1>3. ASSUME \A o \in Owner : /\ pc'[o] = "waiting" => pc[o] = "waiting"
                              /\ pc'[o] # "idle" => pc[o] # "idle"
      PROVE  Budgets'
  <2>1. Waiting' \subseteq Waiting /\ InUse' \subseteq InUse
    BY <1>1, <1>3 DEF Waiting, InUse
  <2> QED
    BY <1>2, <2>1
<1>4. ASSUME NEW a \in Attempt, NEW P, NEW L, NEW x, Enter(a, P, L, x)
      PROVE  Budgets'
  <2>1. /\ \A o \in Owner : o # a => pc'[o] = pc[o]
        /\ pc'[a] = "admitted" /\ a \notin Action
    BY <1>1, <1>4 DEF Enter, Typed
  <2>2. Waiting' \subseteq Waiting /\ InUse' \subseteq InUse
    BY <1>1, <2>1 DEF Waiting, InUse
  <2> QED
    BY <1>2, <2>2
<1>5. ASSUME NEW a \in Action, NEW p, NEW q, EnterAction(a, p, q)
      PROVE  Budgets'
  <2>1. \A o \in Owner : pc'[o] = IF o = a THEN "admitted" ELSE pc[o]
    BY <1>1, <1>5 DEF EnterAction, Enter, Typed
  <2>2. Waiting' \subseteq Waiting /\ InUse' \subseteq InUse \cup {a}
    BY <1>1, <2>1 DEF Waiting, InUse
  <2>3. Cardinality(InUse) < MaxAction
    BY <1>5 DEF EnterAction, HasPlace, InUse
  <2> QED
    BY <1>2, <2>2, <2>3
<1>6. ASSUME NEW a \in Attempt, Retain(a) \/ Return(a) \/ Seal(a) \/ Release(a)
      PROVE  Budgets'
  <2>1. pc[a] \in {"working", "sealed", "releasing"} \/ pc' = pc
    BY <1>6 DEF Retain, Return, Seal, Release, Retained, Typed
  <2>2. \A o \in Owner : pc'[o] \in {pc[o], "idle"} \/ (o = a /\ pc'[o] \in {"releasing", "sealed"})
    BY <1>6 DEF Retain, Return, Seal, Drop, Release, Typed
  <2> QED
    BY <1>3, <2>1, <2>2
<1>7. ASSUME NEW a \in Action, Applied(a) \/ Unlock(a) \/ Leave(a)
      PROVE  Budgets'
  <2>1. \A o \in Owner : pc'[o] = pc[o] \/ pc'[o] = "idle" \/ (pc'[o] = "leaving" /\ pc[o] = "working")
    BY <1>7 DEF Applied, Unlock, Leave, Typed
  <2> QED
    BY <1>3, <2>1
<1>8. ASSUME NEW o \in Owner, Refuse(o) \/ GiveUp(o) \/ Grant(o)
      PROVE  Budgets'
  <2>1. /\ pc[o] \in {"admitted", "waiting"}
        /\ \A q \in Owner : q # o => pc'[q] = pc[q]
        /\ pc'[o] \in {"idle", "leaving", "working", "admitted"}
    BY <1>8 DEF Refuse, GiveUp, Grant, Unserved, Looks, Typed
  <2> QED
    BY <1>3, <2>1
<1>9. ASSUME NEW o \in Owner, Sleep(o)
      PROVE  Budgets'
  <2>1. /\ \A q \in Owner : q # o => pc'[q] = pc[q]
        /\ pc'[o] = "waiting" /\ pc[o] # "idle"
        /\ pc[o] = "waiting" \/ Cardinality(Waiting) < MaxWaiting
    BY <1>9 DEF Sleep, Looks, Typed
  <2>2. Waiting' \subseteq Waiting \cup {o} /\ InUse' \subseteq InUse
    BY <1>1, <2>1 DEF Waiting, InUse
  <2>3. pc[o] = "waiting" => Waiting' \subseteq Waiting
    BY <2>1 DEF Waiting
  <2> QED
    BY <1>2, <2>1, <2>2, <2>3
<1>10. CASE (\E o \in Owner : Cancel(o)) \/ Close \/ CloseReturns
  BY <1>3, <1>10 DEF Cancel, Close, CloseReturns
<1> QED
  BY <1>1, <1>4, <1>5, <1>6, <1>7, <1>8, <1>9, <1>10, NextIsSteps DEF Steps, EnterAttempt

\* Nobody becomes busy again once Close has returned.
LEMMA ClosedKept ==
    ASSUME Typed, Retained, ClosedIsOver, Next
    PROVE  ClosedIsOver'
<1> USE DEF ownerVars, retainVars
<1>1. ASSUME Busy' \subseteq Busy, state' = state
      PROVE  ClosedIsOver'
  BY <1>1 DEF ClosedIsOver
<1>2. CASE state # "closed" /\ state' # "closed"
  BY <1>2 DEF ClosedIsOver
<1>3. CASE CloseReturns
  <2>1. Busy = {} /\ Busy' = Busy
    BY <1>3 DEF CloseReturns, Busy
  <2> QED
    BY <2>1 DEF ClosedIsOver
<1>4. ASSUME NEW a \in Owner,
             \/ a \in Attempt /\ (Retain(a) \/ Return(a) \/ Seal(a) \/ Release(a))
             \/ Applied(a) \/ Unlock(a) \/ Leave(a)
             \/ Refuse(a) \/ GiveUp(a) \/ Sleep(a) \/ Grant(a) \/ Cancel(a)
      PROVE  ClosedIsOver'
  <2>1. state' = state
    BY <1>4 DEF Retain, Return, Seal, Drop, Release, LetGo, Applied, Unlock, Leave, Refuse,
       GiveUp, Unserved, Sleep, Grant, Cancel
  <2>2. \A o \in Owner : o # a => pc'[o] = pc[o]
    BY <1>4 DEF Retain, Return, Seal, Drop, Release, Applied, Unlock, Leave, Refuse,
       GiveUp, Unserved, Sleep, Grant, Cancel, Typed
  <2>3. a \in Busy \/ pc'[a] \in {pc[a], "idle", "sealed", "releasing"}
    BY <1>4 DEF Retain, Return, Seal, Drop, Release, Applied, Unlock, Leave, Refuse,
       GiveUp, Unserved, Sleep, Grant, Cancel, Looks, Typed, Busy
  <2>4. Busy' \subseteq Busy
    BY <2>2, <2>3 DEF Busy
  <2> QED
    BY <1>1, <2>1, <2>4
<1>5. Close => state # "closed" /\ state' # "closed"
  BY DEF Close
<1>6. \A o, P, L, x : Enter(o, P, L, x) => state # "closed" /\ state' # "closed"
  BY DEF Enter, Admitted
<1> QED
  BY <1>2, <1>3, <1>4, <1>5, <1>6, NextIsSteps DEF Steps, Owner, EnterAttempt, EnterAction

-----------------------------------------------------------------------------
(* The invariant.                                                          *)

\* The registry starts in order.
LEMMA InvInit == Init => IInv
<1> SUFFICES ASSUME Init PROVE IInv
  OBVIOUS
<1>1. <<>> \in Seq(Path) /\ Len(<<>>) = 0
  OBVIOUS
<1>2. Typed /\ Lists
  BY <1>1 DEF Init, Typed, LeasePoints, Lists
<1>3. Waiting = {} /\ InUse = {} /\ Busy = {}
  BY DEF Init, Waiting, InUse, Busy, Owner
<1>4. Budgets
  BY <1>3, FS_EmptySet, BudgetAssumption DEF Budgets
<1>5. Exclusion /\ Covers /\ Queue /\ SleepersAreBlocked
  BY DEF Init, Exclusion, Covers, Queue, SleepersAreBlocked
<1>6. Retained
  BY BudgetAssumption DEF Init, Retained, Owner
<1> QED
  BY <1>2, <1>3, <1>4, <1>5, <1>6 DEF IInv, ClosedIsOver

\* Every step keeps it in order.
LEMMA InvNext == IInv /\ [Next]_vars => IInv'
<1> SUFFICES ASSUME IInv, [Next]_vars PROVE IInv'
  OBVIOUS
<1>1. CASE Next
  BY <1>1, TypedKept, ListsKept, ExclusionKept, CoversKept, QueueKept, RetainedKept,
     BudgetsKept, ClosedKept DEF IInv
<1>2. CASE UNCHANGED vars
  <2> USE <1>2 DEF vars, ownerVars, retainVars
  <2>1. Typed' /\ Lists' /\ Exclusion'
    BY DEF IInv, Typed, Lists, Exclusion, Conflicts, Overlaps
  <2>2. Covers'
    BY DEF IInv, Covers, Covered
  <2>3. Waiting' = Waiting /\ InUse' = InUse /\ Busy' = Busy
    BY DEF Waiting, InUse, Busy
  <2>4. Queue'
    BY QueueStays DEF IInv, Waiting
  <2>5. Retained'
    BY DEF IInv, Retained, Held
  <2>6. Budgets' /\ ClosedIsOver'
    BY <2>3 DEF IInv, Budgets, ClosedIsOver
  <2> QED
    BY <2>1, <2>2, <2>4, <2>5, <2>6 DEF IInv
<1> QED
  BY <1>1, <1>2

\* The registry is always in order.
THEOREM LeaseInvariant == Spec => []IInv
  BY InvInit, InvNext, PTL DEF Spec

-----------------------------------------------------------------------------
(* What it implies.                                                        *)

\* The registry has its shape and keeps to its budgets.
THEOREM LeaseTypes == Spec => []LeaseTypeOK
<1>1. ASSUME IInv PROVE LeaseTypeOK
  <2>1. /\ refs \in [Attempt -> 0..(MaxRetain + 1)]
        /\ count \in [Attempt -> 0..MaxRetain]
    <3>1. \A a \in Attempt : refs[a] \in 0..(MaxRetain + 1) /\ count[a] \in 0..MaxRetain
      BY <1>1, BudgetAssumption DEF IInv, Typed, Retained
    <3> QED
      BY <1>1, <3>1 DEF IInv, Typed
  <2>2. \A o \in Owner : Len(todo[o]) <= 2
    BY <1>1 DEF IInv, Lists
  <2> QED
    BY <1>1, <2>1, <2>2 DEF IInv, Typed, LeasePoints, Budgets, InUse, LeaseTypeOK
<1> QED
  BY <1>1, LeaseInvariant, PTL

\* While an attempt or action works exclusively, nobody else has a lease on
\* anything that overlaps a path it was called for.
THEOREM LeaseWorkIsExclusive == Spec => []WorkIsExclusive
<1>1. ASSUME IInv PROVE WorkIsExclusive
  <2> SUFFICES ASSUME NEW o \in Owner, pc[o] = "working", exclusive[o],
                      NEW p \in asked[o], NEW l \in active, l.owner # o
               PROVE  ~Overlaps(l.path, p)
    BY DEF WorkIsExclusive
  <2>1. Covered(o, p) /\ Len(todo[o]) = 0
    BY <1>1, EmptySeq DEF IInv, Covers, Lists
  <2>2. 1..Len(todo[o]) = {}
    BY <2>1
  <2>3. PICK m \in active :
          m.owner = o /\ m.exclusive = exclusive[o] /\ <<p, m.path>> \in Within
    BY <2>1, <2>2 DEF Covered
  <2>4. m.exclusive
    BY <2>3
  <2>5. ~Overlaps(l.path, m.path)
    BY <1>1, <2>3, <2>4 DEF IInv, Exclusion, Conflicts
  <2>6. p \in Path /\ l.path \in Path /\ m.path \in Path
    BY <1>1 DEF IInv, Typed, Lease
  <2>7. ~(<<l.path, p>> \in Within)
    BY <2>3, <2>5, <2>6, PathAssumption DEF Overlaps
  <2>8. ~(<<p, l.path>> \in Within)
    BY <2>3, <2>5, <2>6, PathAssumption DEF Overlaps
  <2> QED
    BY <2>7, <2>8 DEF Overlaps
<1> QED
  BY <1>1, LeaseInvariant, PTL

\* No wake-up is lost, although granting a request notifies nobody.
THEOREM LeaseSleepersAreBlocked == Spec => []SleepersAreBlocked
<1>1. IInv => SleepersAreBlocked
  BY DEF IInv, Queue
<1> QED
  BY <1>1, LeaseInvariant, PTL

\* A lease stays active as long as anything holds a reference to it.
THEOREM LeaseRetainedStaysActive == Spec => []RetainedStaysActive
<1>1. IInv => RetainedStaysActive
  BY DEF IInv, Retained, RetainedStaysActive
<1> QED
  BY <1>1, LeaseInvariant, PTL

\* Once Close has returned, no attempt or action works or will.
THEOREM LeaseClosedIsOver == Spec => []ClosedIsOver
<1>1. IInv => ClosedIsOver
  BY DEF IInv
<1> QED
  BY <1>1, LeaseInvariant, PTL

\* A lease lasts as long as anything refers to it, and no work outlives Close.
THEOREM LeaseLeasesLast == Spec => []LeasesLast
<1> QED
  BY LeaseRetainedStaysActive, LeaseClosedIsOver, PTL DEF LeasesLast

-----------------------------------------------------------------------------
(* Automations.                                                            *)

Row    == [draft : Draft \cup {None}, route : Route \cup {None}, enabled : BOOLEAN, next : Nat, running : BOOLEAN]
Agreed == [draft : Draft \cup {None}, route : Route \cup {None}]
Phases == {"off", "idle", "due", "listed", "starting", "claiming", "skipping", "pausing"}

\* Types.
RowsTyped ==
    /\ row \in [Automation -> Row] /\ seen \in [Automation -> Agreed] /\ consent \in [Automation -> Agreed]
    /\ quiet \in [Automation -> Nat] /\ userRev \subseteq Automation
TurnsTyped ==
    /\ route \in [Session -> Route] /\ sess \in [Session -> {"idle", "running", "waiting"}]
    /\ turnOf \in [Session -> Automation \cup {None}]
    /\ run \in [Session -> {"none", "admitting", "executing", "leaving"}]
TickTyped ==
    /\ tick \in [at : Phases, time : Nat, todo : SUBSET Automation, cur : Automation \cup {None}]
    /\ tickRev \subseteq Automation /\ closed \in {"no", "closing", "closed"} /\ now \in Nat \ {0}

\* The ticker looks back, is at an automation, and is gone once Close returned.
TickHolds ==
    /\ tick.time <= now
    /\ tick.at \in {"starting", "claiming", "skipping", "pausing"} => tick.cur \in Automation
    /\ closed = "closed" => tick.at = "off"

\* The live turn of an automation is one of its session.
TurnsHold == \A s \in Session : turnOf[s] # None => sess[s] # "idle" /\ SessionOf[turnOf[s]] = s

\* A row is whole or absent, runs with its turn, is scheduled within an interval
\* of now and a whole one after it was last quiet, and is what its users saw.
RowHolds(a) ==
    /\ row[a] = NoRow \/ (row[a].draft \in Draft /\ row[a].route \in Route)
    /\ row[a].running <=> turnOf[SessionOf[a]] = a
    /\ IF row[a].enabled /\ ~row[a].running THEN row[a].next \in 1..(now + Every(a)) ELSE row[a].next = 0
    /\ row[a].enabled /\ ~row[a].running => row[a].next >= quiet[a] + Every(a)
    /\ row[a].enabled => consent[a] = Shown(row[a])
    /\ a \in userRev => seen[a] = Shown(row[a])

Rows == {a \in Automation : Exists(a)}
BudgetHolds == IsFiniteSet(Rows) /\ Cardinality(Rows) <= MaxAutomation

AInv ==
    /\ RowsTyped /\ TurnsTyped /\ TickTyped /\ TickHolds /\ TurnsHold /\ BudgetHolds
    /\ \A a \in Automation : RowHolds(a)

LEMMA NoRowTyped == NoRow \in Row /\ NoConsent \in Agreed /\ ~NoRow.enabled /\ ~NoRow.running /\ NoRow.next = 0
  BY DEF NoRow, NoConsent, Row, Agreed

\* A row that exists has a prompt, and with it an interval of a minute or more.
LEMMA WholeRows ==
  ASSUME RowsTyped, NEW a \in Automation, RowHolds(a)
  PROVE  /\ Exists(a) => row[a].draft \in Draft /\ row[a].route \in Route
         /\ row[a].enabled => Exists(a)
         /\ row[a].running => Exists(a)
         /\ row[a].draft \in Draft => Every(a) \in Nat \ {0}
  BY NoRowTyped, AutomationAssumption DEF RowHolds, Exists, Every, RowsTyped, Row

LEMMA AutomationStarts == AutomationInit => AInv
  <1> SUFFICES ASSUME AutomationInit PROVE AInv
    OBVIOUS
  <1> USE AutomationAssumption, NoRowTyped DEF AutomationInit
  <1>1. RowsTyped
    BY DEF RowsTyped
  <1>2. TurnsTyped
    BY DEF TurnsTyped
  <1>3. TickTyped
    BY DEF TickTyped, Off, Phases
  <1>4. TickHolds /\ TurnsHold
    BY DEF TickHolds, TurnsHold, Off
  <1>5. Rows = {}
    BY DEF Rows, Exists
  <1>6. BudgetHolds
    BY <1>5, FS_EmptySet DEF BudgetHolds
  <1>7. \A a \in Automation : RowHolds(a)
    BY DEF RowHolds
  <1> QED BY <1>1, <1>2, <1>3, <1>4, <1>6, <1>7 DEF AInv

\* A row that a step leaves alone stays in order while the clock advances.
LEMMA RowKept ==
  ASSUME RowsTyped, NEW a \in Automation, RowHolds(a), now \in Nat, now' \in Nat, now <= now',
         row'[a] = row[a], consent'[a] = consent[a] \/ ~row[a].enabled, seen'[a] = seen[a], quiet'[a] = quiet[a],
         a \in userRev' => a \in userRev, turnOf'[SessionOf[a]] = a <=> turnOf[SessionOf[a]] = a
  PROVE  RowHolds(a)'
  <1>1. row[a].enabled => Every(a) \in Nat \ {0}
    BY WholeRows
  <1>2. Every(a)' = Every(a)
    BY DEF Every
  <1>3. row[a].next \in 1..(now + Every(a)) /\ row[a].enabled => row[a].next \in 1..(now' + Every(a))
    BY <1>1
  <1> QED BY <1>2, <1>3 DEF RowHolds, RowsTyped, Row, Shown

\* A step that writes no row.
LEMMA RowsKept ==
  ASSUME AInv, UNCHANGED <<row, userRev, consent, quiet, seen>>, now' \in Nat \ {0}, now <= now',
         \A a \in Automation : turnOf'[SessionOf[a]] = a <=> turnOf[SessionOf[a]] = a
  PROVE  RowsTyped' /\ BudgetHolds' /\ \A a \in Automation : RowHolds(a)'
  <1>1. RowsTyped'
    BY DEF AInv, RowsTyped
  <1>2. BudgetHolds'
    BY DEF AInv, BudgetHolds, Rows, Exists
  <1>3. ASSUME NEW a \in Automation PROVE RowHolds(a)'
    BY RowKept DEF AInv, TickTyped
  <1> QED BY <1>1, <1>2, <1>3

\* Fewer rows, or one more where the budget allows.
LEMMA FewerRows ==
  ASSUME AInv, Rows' \subseteq Rows
  PROVE  BudgetHolds'
  <1>1. IsFiniteSet(Rows') /\ Cardinality(Rows') <= Cardinality(Rows)
    BY FS_Subset DEF AInv, BudgetHolds
  <1> QED BY <1>1, FS_CardinalityType, AutomationAssumption DEF AInv, BudgetHolds

LEMMA OneMoreRow ==
  ASSUME AInv, NEW a \in Automation, Rows' \subseteq Rows \cup {a}, MayCreate
  PROVE  BudgetHolds'
  <1>0. IsFiniteSet(Rows) /\ Cardinality(Rows) \in Nat
    BY FS_CardinalityType DEF AInv, BudgetHolds
  <1>1. IsFiniteSet(Rows \cup {a}) /\ Cardinality(Rows \cup {a}) <= Cardinality(Rows) + 1
    BY <1>0, CardPlus
  <1>2. IsFiniteSet(Rows') /\ Cardinality(Rows') <= Cardinality(Rows \cup {a})
    BY <1>1, FS_Subset
  <1>3. Cardinality(Rows) < MaxAutomation
    BY DEF MayCreate, Rows
  <1> QED BY <1>1, <1>2, <1>3, FS_CardinalityType, AutomationAssumption DEF AInv, BudgetHolds

\* What has to hold of the row that is written for a.
MayWrite(a, r, q) ==
    /\ r \in Row /\ q \in Nat
    /\ r = NoRow \/ (r.draft \in Draft /\ r.route \in Route)
    /\ IF r.enabled /\ ~r.running THEN r.next \in 1..(now + Interval[r.draft]) ELSE r.next = 0
    /\ r.enabled /\ ~r.running => r.next >= q + Interval[r.draft]
    /\ r.enabled => row[a].enabled /\ Shown(r) = Shown(row[a])

OthersKeepTurns(a) == \A b \in Automation \ {a} : turnOf'[SessionOf[b]] = b <=> turnOf[SessionOf[b]] = b

LEMMA RowWritten ==
  ASSUME AInv, NEW a \in Automation, NEW r, Write(a, r), UNCHANGED <<seen, now>>,
         NEW q, quiet' = [quiet EXCEPT ![a] = q], MayWrite(a, r, q),
         r.running <=> turnOf'[SessionOf[a]] = a, OthersKeepTurns(a),
         r = NoRow \/ Exists(a) \/ MayCreate
  PROVE  RowsTyped' /\ BudgetHolds' /\ tickRev' \subseteq Automation /\ \A b \in Automation : RowHolds(b)'
  <1>1. /\ row' = [row EXCEPT ![a] = r]
        /\ consent' = [consent EXCEPT ![a] = IF r.enabled THEN @ ELSE NoConsent]
        /\ userRev' = userRev \ {a} /\ tickRev' = tickRev \ {a}
    BY DEF Write
  <1>2. RowsTyped'
    BY <1>1, NoRowTyped DEF AInv, RowsTyped, MayWrite
  <1>3. BudgetHolds'
    <2>1. CASE r = NoRow \/ Exists(a)
      <3>1. Rows' \subseteq Rows
        BY <1>1, <2>1 DEF Rows, Exists, AInv, RowsTyped
      <3> QED BY <3>1, FewerRows
    <2>2. CASE MayCreate
      <3>1. Rows' \subseteq Rows \cup {a}
        BY <1>1 DEF Rows, Exists, AInv, RowsTyped
      <3> QED BY <3>1, <2>2, OneMoreRow
    <2> QED BY <2>1, <2>2
  <1>4. RowHolds(a)'
    <2>1. row'[a] = r /\ quiet'[a] = q /\ (r.enabled => consent'[a] = consent[a]) /\ a \notin userRev'
      BY <1>1 DEF AInv, RowsTyped
    <2>2. Every(a)' = Interval[r.draft] /\ now' = now
      BY <2>1 DEF Every
    <2>3. r.enabled => consent[a] = Shown(row[a])
      BY DEF MayWrite, AInv, RowHolds
    <2> QED BY <2>1, <2>2, <2>3 DEF RowHolds, MayWrite
  <1>5. ASSUME NEW b \in Automation \ {a} PROVE RowHolds(b)'
    <2>1. row'[b] = row[b] /\ consent'[b] = consent[b] /\ quiet'[b] = quiet[b] /\ (b \in userRev' => b \in userRev)
      BY <1>1 DEF AInv, RowsTyped
    <2> QED BY <2>1, RowKept DEF AInv, TickTyped, OthersKeepTurns
  <1> QED BY <1>1, <1>2, <1>3, <1>4, <1>5 DEF AInv, TickTyped

-----------------------------------------------------------------------------
(* The step lemmas of automations, by what a step writes.                  *)

\* A user edits: creates, changes, deletes or pauses a row.
LEMMA EditHolds ==
  ASSUME AInv, NEW a \in Automation, NEW r \in Row, Edit(a, r), ~r.enabled, r.next = 0,
         r = NoRow \/ (r.draft \in Draft /\ r.route \in Route), r.running <=> row[a].running,
         r = NoRow \/ Exists(a) \/ MayCreate
  PROVE  AInv'
  <1> USE DEF Edit
  <1>1. quiet' = [quiet EXCEPT ![a] = quiet[a]] /\ quiet[a] \in Nat
    BY DEF AInv, RowsTyped
  <1>2. MayWrite(a, r, quiet[a])
    BY <1>1 DEF MayWrite
  <1>3. UNCHANGED <<seen, now, turnOf>>
    BY DEF sessions
  <1>4. r.running <=> turnOf'[SessionOf[a]] = a
    BY <1>3 DEF AInv, RowHolds
  <1>o. OthersKeepTurns(a)
    BY <1>3 DEF OthersKeepTurns
  <1>5. RowsTyped' /\ BudgetHolds' /\ tickRev' \subseteq Automation /\ \A b \in Automation : RowHolds(b)'
    BY <1>1, <1>2, <1>3, <1>4, <1>o, RowWritten
  <1>6. TurnsTyped' /\ TurnsHold' /\ TickHolds'
    BY DEF AInv, TurnsTyped, TurnsHold, TickHolds, sessions
  <1>7. TickTyped'
    BY <1>5 DEF AInv, TickTyped
  <1> QED BY <1>5, <1>6, <1>7 DEF AInv

LEMMA RouteTyped == ASSUME AInv, NEW a \in Automation PROVE route[SessionOf[a]] \in Route
  BY AutomationAssumption DEF AInv, TurnsTyped

LEMMA PausedTyped ==
  ASSUME NEW r \in Row
  PROVE  /\ Paused(r) \in Row /\ ~Paused(r).enabled /\ Paused(r).next = 0 /\ Paused(r).running = r.running
         /\ Paused(r).draft = r.draft /\ Paused(r).route = r.route
  BY DEF Paused, Row

LEMMA CreateHolds ==
  ASSUME AInv, NEW a \in Automation, NEW d \in Draft, CreateAutomation(a, d)
  PROVE  AInv'
  <1> PICK r : r = [NoRow EXCEPT !.draft = d, !.route = route[SessionOf[a]]]
    OBVIOUS
  <1>1. r \in Row /\ ~r.enabled /\ r.next = 0 /\ ~r.running /\ r.draft \in Draft /\ r.route \in Route
    BY RouteTyped, NoRowTyped DEF Row, NoRow
  <1>2. Edit(a, r) /\ ~row[a].running /\ MayCreate
    BY NoRowTyped DEF CreateAutomation, Exists
  <1> QED BY <1>1, <1>2, EditHolds

LEMMA UpdateHolds ==
  ASSUME AInv, NEW a \in Automation, NEW d \in Draft, UpdateAutomation(a, d)
  PROVE  AInv'
  <1> PICK r : r = [Paused(row[a]) EXCEPT !.draft = d, !.route = route[SessionOf[a]]]
    OBVIOUS
  <1>0. row[a] \in Row
    BY DEF AInv, RowsTyped
  <1>1. /\ r \in Row /\ ~r.enabled /\ r.next = 0 /\ r.draft \in Draft /\ r.route \in Route
        /\ r.running = row[a].running
    BY <1>0, RouteTyped, PausedTyped DEF Row
  <1>2. Edit(a, r) /\ Exists(a)
    BY DEF UpdateAutomation, Current
  <1> QED BY <1>1, <1>2, EditHolds

LEMMA DeleteHolds ==
  ASSUME AInv, NEW a \in Automation, DeleteAutomation(a)
  PROVE  AInv'
  BY EditHolds, NoRowTyped DEF DeleteAutomation

LEMMA DisableHolds ==
  ASSUME AInv, NEW a \in Automation, Disable(a)
  PROVE  AInv'
  <1> PICK r : r = Paused(row[a])
    OBVIOUS
  <1>0. row[a] \in Row /\ Exists(a) /\ Edit(a, r)
    BY DEF AInv, RowsTyped, Disable, Current
  <1>1. r \in Row /\ ~r.enabled /\ r.next = 0 /\ r.running = row[a].running
    BY <1>0, PausedTyped
  <1>2. r.draft \in Draft /\ r.route \in Route
    BY <1>0, PausedTyped, WholeRows DEF AInv
  <1> QED BY <1>0, <1>1, <1>2, EditHolds

\* Enabling takes the consent to what was seen, and counts from now.
LEMMA EnableHolds ==
  ASSUME AInv, NEW a \in Automation, Enable(a)
  PROVE  AInv'
  <1> USE DEF Enable
  <1>0. row[a] \in Row /\ Exists(a) /\ row[a].draft \in Draft /\ Every(a) \in Nat \ {0} /\ now \in Nat \ {0}
    BY WholeRows DEF AInv, RowsTyped, TickTyped, Current
  <1> PICK n : n = now + Every(a)
    OBVIOUS
  <1>n. n \in Nat /\ n \in 1..(now + Every(a)) /\ n >= now + Every(a)
    BY <1>0
  <1> PICK r : r = [row[a] EXCEPT !.enabled = TRUE, !.next = n]
    OBVIOUS
  <1>1. /\ r \in Row /\ r.enabled /\ r.next = n /\ r.running = row[a].running
        /\ r.draft = row[a].draft /\ r.route = row[a].route
    BY <1>0, <1>n DEF Row
  <1>2. row' = [row EXCEPT ![a] = r]
    BY DEF AInv, RowsTyped
  <1>3. RowsTyped'
    BY <1>0, <1>1, <1>2 DEF AInv, RowsTyped
  <1>4. BudgetHolds'
    <2>1. Rows' \subseteq Rows
      BY <1>0, <1>2 DEF Rows, Exists, AInv, RowsTyped
    <2> QED BY <2>1, FewerRows
  <1>5. TurnsTyped' /\ TurnsHold' /\ TickHolds' /\ TickTyped'
    BY DEF AInv, TurnsTyped, TurnsHold, TickHolds, TickTyped, sessions
  <1>6. RowHolds(a)'
    <2>1. row'[a] = r /\ consent'[a] = seen[a] /\ quiet'[a] = now /\ a \notin userRev' /\ now' = now /\ turnOf' = turnOf
      BY <1>2 DEF AInv, RowsTyped, sessions
    <2>2. Every(a)' = Every(a) /\ Shown(row'[a]) = Shown(row[a])
      BY <1>1, <2>1 DEF Every, Shown
    <2>3. seen[a] = Shown(row[a]) /\ ~row[a].running
      BY DEF AInv, RowHolds, Current
    <2>4. ~r.running /\ r.draft \in Draft /\ r.route \in Route
      BY <1>0, <1>1, <2>3, WholeRows DEF AInv
    <2>5. r.next \in 1..(now + Every(a)) /\ r.next >= now + Every(a)
      BY <1>n, <1>1
    <2>6. turnOf[SessionOf[a]] # a
      BY <2>3 DEF AInv, RowHolds
    <2> QED BY <1>1, <2>1, <2>2, <2>3, <2>4, <2>5, <2>6 DEF RowHolds
  <1>7. ASSUME NEW b \in Automation \ {a} PROVE RowHolds(b)'
    <2>1. /\ row'[b] = row[b] /\ consent'[b] = consent[b] /\ quiet'[b] = quiet[b] /\ (b \in userRev' => b \in userRev)
          /\ UNCHANGED <<seen, now, turnOf>>
      BY <1>2 DEF AInv, RowsTyped, sessions
    <2>2. RowsTyped /\ RowHolds(b) /\ now \in Nat /\ now <= now
      BY DEF AInv, TickTyped
    <2> QED BY <2>1, <2>2, RowKept
  <1> QED BY <1>3, <1>4, <1>5, <1>6, <1>7 DEF AInv

LEMMA ViewHolds ==
  ASSUME AInv, NEW a \in Automation, View(a)
  PROVE  AInv'
  <1> USE DEF View
  <1>1. RowsTyped' /\ TurnsTyped' /\ TurnsHold' /\ TickHolds' /\ TickTyped' /\ BudgetHolds'
    BY DEF AInv, RowsTyped, TurnsTyped, TurnsHold, TickHolds, TickTyped, BudgetHolds, Rows, Exists, sessions, Shown,
           Agreed, Row
  <1>2. RowHolds(a)'
    BY DEF AInv, RowsTyped, RowHolds, Every, sessions
  <1>3. ASSUME NEW b \in Automation \ {a} PROVE RowHolds(b)'
    BY RowKept DEF AInv, RowsTyped, TickTyped, sessions
  <1> QED BY <1>1, <1>2, <1>3 DEF AInv

-----------------------------------------------------------------------------
Ticks == [at : Phases, time : Nat, todo : SUBSET Automation, cur : Automation \cup {None}]

\* The ticker, as far as it writes no row.
LEMMA TickerTyped ==
  ASSUME AInv, Start \/ TickBegins \/ TickLists \/ TickReads \/ TickEnters \/ TickFails \/ TickStops
  PROVE  tick' \in Ticks /\ tick'.time <= now
         /\ (tick'.at \in {"starting", "claiming", "skipping", "pausing"} => tick'.cur \in Automation)
         /\ (closed = "closed" => tick'.at = "off")
         /\ tickRev' \subseteq Automation
  <1>0. /\ tick \in Ticks /\ now \in Nat \ {0} /\ tick.time <= now
        /\ tick.at \in {"starting", "claiming", "skipping", "pausing"} => tick.cur \in Automation
        /\ closed = "closed" => tick.at = "off"
        /\ tickRev \subseteq Automation
    BY DEF AInv, TickTyped, TickHolds, Ticks
  <1>o. Off \in Ticks /\ Off.time = 0 /\ Off.at = "off" /\ [Off EXCEPT !.at = "idle"] \in Ticks
        /\ [Off EXCEPT !.at = "idle"].time = 0 /\ [Off EXCEPT !.at = "idle"].at = "idle"
    BY DEF Off, Ticks, Phases
  <1>p. ASSUME NEW p \in Phases
        PROVE  LET t == [tick EXCEPT !.at = p] IN
                 t \in Ticks /\ t.at = p /\ t.time = tick.time /\ t.cur = tick.cur /\ t.todo = tick.todo
    BY <1>0 DEF Ticks
  <1>1. CASE Start
    <2>1. tick' = [tick EXCEPT !.at = "idle"] /\ tickRev' = tickRev /\ closed = "no"
      BY <1>1 DEF Start, rows, At
    <2> QED BY <2>1, <1>0, <1>p DEF Phases
  <1>2. CASE TickBegins
    <2>1. tick' = [tick EXCEPT !.at = "due", !.time = now] /\ tickRev' = tickRev /\ closed = "no"
      BY <1>2 DEF TickBegins, rows, At
    <2>2. tick' \in Ticks /\ tick'.at = "due" /\ tick'.time = now
      BY <2>1, <1>0 DEF Phases, Ticks
    <2> QED BY <2>1, <2>2, <1>0
  <1>3. CASE TickLists
    <2> PICK due \in SUBSET Automation : due = {a \in Automation : Due(a, tick.time)}
      OBVIOUS
    <2>1. tick' = [tick EXCEPT !.at = "listed", !.todo = due] /\ tickRev' = due /\ closed = "no"
      BY <1>3 DEF TickLists, At
    <2>2. tick' \in Ticks /\ tick'.at = "listed" /\ tick'.time = tick.time
      BY <2>1, <1>0 DEF Phases, Ticks
    <2> QED BY <2>1, <2>2, <1>0
  <1>4. CASE TickReads
    <2>1. closed = "no" /\ tickRev' = tickRev
      BY <1>4 DEF TickReads, At, rows
    <2>2. CASE tick' = [Off EXCEPT !.at = "idle"]
      BY <2>1, <2>2, <1>0, <1>o
    <2>3. CASE tick' # [Off EXCEPT !.at = "idle"]
      <3>1. PICK a \in tick.todo : tick' = [tick EXCEPT !.cur = a,
                           !.at = IF row[a].route \in Configured THEN "starting" ELSE "pausing"]
        BY <1>4, <2>3 DEF TickReads
      <3> PICK p \in Phases : p = IF row[a].route \in Configured THEN "starting" ELSE "pausing"
        BY DEF Phases
      <3>2. tick' = [tick EXCEPT !.cur = a, !.at = p] /\ a \in Automation
        BY <3>1, <1>0 DEF Ticks
      <3> QED BY <2>1, <3>2, <1>0 DEF Ticks
    <2> QED BY <2>2, <2>3
  <1>5. CASE TickEnters
    <2>1. PICK p \in {"claiming", "skipping"} : tick' = [tick EXCEPT !.at = p] /\ tickRev' = tickRev /\ closed = "no"
      BY <1>5 DEF TickEnters, At, rows, Phase
    <2>2. tick.cur \in Automation /\ p \in Phases
      BY <1>0, <1>5 DEF TickEnters, At, Phases
    <2> QED BY <2>1, <2>2, <1>0, <1>p
  <1>6. CASE TickFails
    <2>1. tick' = [tick EXCEPT !.at = "pausing"] /\ tickRev' = tickRev /\ closed = "no"
      BY <1>6 DEF TickFails, At, rows, Phase
    <2>2. tick.cur \in Automation
      BY <1>0, <1>6 DEF TickFails, At
    <2> QED BY <2>1, <2>2, <1>0, <1>p DEF Phases
  <1>7. CASE TickStops
    <2>1. tick' = Off /\ tickRev' = tickRev
      BY <1>7 DEF TickStops, rows
    <2> QED BY <2>1, <1>0, <1>o
  <1> QED BY <1>1, <1>2, <1>3, <1>4, <1>5, <1>6, <1>7

LEMMA TickerHolds ==
  ASSUME AInv, Start \/ TickBegins \/ TickLists \/ TickReads \/ TickEnters \/ TickFails \/ TickStops
  PROVE  AInv'
  <1>1. UNCHANGED <<row, userRev, consent, quiet, seen, now, turnOf, sess, route, closed>>
    BY DEF Start, TickBegins, TickLists, TickReads, TickEnters, TickFails, TickStops, rows, sessions
  <1>2. RowsTyped' /\ BudgetHolds' /\ \A a \in Automation : RowHolds(a)'
    BY <1>1, RowsKept DEF AInv, TickTyped
  <1>4. run' \in [Session -> {"none", "admitting", "executing", "leaving"}]
    BY DEF AInv, TurnsTyped, Start, TickBegins, TickLists, TickReads, TickEnters, TickFails, TickStops, rows, sessions
  <1>5. TickTyped' /\ TickHolds'
    BY <1>1, TickerTyped DEF AInv, TickTyped, TickHolds, Ticks
  <1>6. TurnsHold' /\ TurnsTyped'
    BY <1>1, <1>4 DEF AInv, TurnsHold, TurnsTyped
  <1> QED BY <1>2, <1>5, <1>6 DEF AInv

\* From an item the ticker goes back to its list.
LEMMA NextItemTyped ==
  ASSUME AInv, NextItem, UNCHANGED <<closed, now>>, tickRev' \subseteq Automation, closed # "closed" \/ tick.at # "off"
  PROVE  TickTyped' /\ TickHolds'
  <1>0. tick \in Ticks /\ tick.time <= now /\ closed # "closed"
    BY DEF AInv, TickTyped, TickHolds, Ticks
  <1> PICK left \in SUBSET Automation : left = tick.todo \ {tick.cur}
    BY <1>0 DEF Ticks
  <1>1. tick' = [tick EXCEPT !.at = "listed", !.todo = left, !.cur = None]
    BY DEF NextItem
  <1>2. tick' \in Ticks /\ tick'.at = "listed" /\ tick'.time = tick.time
    BY <1>0, <1>1 DEF Ticks, Phases
  <1> QED BY <1>0, <1>2 DEF AInv, TickTyped, TickHolds, Ticks

\* Close, the clock and the runtime's table.
LEMMA OthersHold ==
  ASSUME AInv, NEW s \in Session,
         \/ CoordinatorClose \/ CoordinatorCloseReturns \/ Advance \/ LeaveRun(s) \/ Execute(s) \/ BecomeLead(s)
         \/ \E r \in Route : Switch(s, r)
  PROVE  AInv'
  <1>1. UNCHANGED <<row, userRev, consent, quiet, seen, turnOf, tickRev, tick>> /\ now' \in {now, now + 1}
    BY DEF CoordinatorClose, CoordinatorCloseReturns, Advance, LeaveRun, Execute, BecomeLead, Switch, rows, sessions
  <1>2. now \in Nat \ {0} /\ now' \in Nat \ {0} /\ now <= now'
    BY <1>1 DEF AInv, TickTyped
  <1>3. RowsTyped' /\ BudgetHolds' /\ \A a \in Automation : RowHolds(a)'
    BY <1>1, <1>2, RowsKept
  <1>4. closed' \in {"no", "closing", "closed"} /\ (closed' = "closed" => tick.at = "off")
    BY DEF AInv, TickTyped, TickHolds, CoordinatorClose, CoordinatorCloseReturns, Advance, LeaveRun, Execute,
           BecomeLead, Switch, TickerGone
  <1>5. TickTyped' /\ TickHolds'
    BY <1>1, <1>2, <1>4 DEF AInv, TickTyped, TickHolds
  <1>6. TurnsTyped'
    BY DEF AInv, TurnsTyped, CoordinatorClose, CoordinatorCloseReturns, Advance, LeaveRun, Execute, BecomeLead, Switch,
           sessions
  <1>7. TurnsHold'
    BY DEF AInv, TurnsTyped, TurnsHold, CoordinatorClose, CoordinatorCloseReturns, Advance, LeaveRun, Execute,
           BecomeLead, Switch, sessions
  <1> QED BY <1>3, <1>5, <1>6, <1>7 DEF AInv

\* Of a row that is still due, the next time may be an interval from the tick.
LEMMA DueTimes ==
  ASSUME AInv, NEW a \in Automation, StillDue(a)
  PROVE  /\ row[a].enabled /\ ~row[a].running /\ Exists(a) /\ row[a] \in Row /\ Every(a) \in Nat \ {0}
         /\ row[a].draft \in Draft /\ row[a].route \in Route
         /\ quiet[a] + Every(a) <= row[a].next /\ row[a].next <= tick.time
         /\ tick.time \in Nat /\ quiet[a] \in Nat /\ tick.time <= now /\ now \in Nat \ {0}
  <1>1. row[a].enabled /\ ~row[a].running /\ row[a] \in Row /\ tick.time \in Nat /\ quiet[a] \in Nat
    BY DEF StillDue, Due, AInv, RowsTyped, TickTyped
  <1>2. Exists(a) /\ row[a].draft \in Draft /\ row[a].route \in Route /\ Every(a) \in Nat \ {0}
    BY <1>1, WholeRows DEF AInv
  <1>3. row[a].next \in 1..tick.time
    BY DEF StillDue, Due
  <1> QED BY <1>1, <1>2, <1>3 DEF AInv, RowHolds, TickHolds, TickTyped, Row

LEMMA SkippedMayWrite ==
  ASSUME AInv, NEW a \in Automation, StillDue(a)
  PROVE  MayWrite(a, Skipped(a), quiet[a]) /\ ~Skipped(a).running
  <1>1. /\ row[a].enabled /\ ~row[a].running /\ row[a] \in Row /\ row[a].draft \in Draft /\ row[a].route \in Route
        /\ Every(a) \in Nat \ {0} /\ Every(a) = Interval[row[a].draft]
        /\ quiet[a] + Every(a) <= tick.time /\ tick.time \in Nat /\ quiet[a] \in Nat /\ tick.time <= now /\ now \in Nat
    BY DueTimes DEF Every, Row
  <1> PICK n : n = tick.time + Every(a)
    OBVIOUS
  <1>2. n \in Nat /\ n \in 1..(now + Every(a)) /\ n >= quiet[a] + Every(a)
    BY <1>1
  <1> PICK r : r = [row[a] EXCEPT !.next = n]
    OBVIOUS
  <1>3. /\ r \in Row /\ r.enabled /\ ~r.running /\ r.next = n /\ r.draft = row[a].draft /\ r.route = row[a].route
    BY <1>1, <1>2 DEF Row
  <1>4. Skipped(a) = r
    BY DEF Skipped
  <1>5. MayWrite(a, r, quiet[a])
    BY <1>1, <1>2, <1>3 DEF MayWrite, Shown
  <1> QED BY <1>3, <1>4, <1>5

LEMMA PausedMayWrite ==
  ASSUME AInv, NEW a \in Automation, row[a].enabled
  PROVE  MayWrite(a, Paused(row[a]), quiet[a]) /\ Paused(row[a]).running = row[a].running
  <1>1. row[a] \in Row /\ quiet[a] \in Nat /\ row[a].draft \in Draft /\ row[a].route \in Route
    BY WholeRows DEF AInv, RowsTyped
  <1> QED BY <1>1, PausedTyped DEF MayWrite

\* The ticker writes the row it is at, and no turn changes.
LEMMA TickWrites ==
  ASSUME AInv, NEW a \in Automation, a = tick.cur, NEW r, Write(a, r), NextItem, Exists(a),
         UNCHANGED <<quiet, sessions, seen, closed, now>>,
         run' \in [Session -> {"none", "admitting", "executing", "leaving"}],
         MayWrite(a, r, quiet[a]), r.running <=> row[a].running, tick.at # "off"
  PROVE  AInv'
  <1>1. quiet' = [quiet EXCEPT ![a] = quiet[a]]
    BY DEF AInv, RowsTyped
  <1>2. turnOf' = turnOf /\ (r.running <=> turnOf'[SessionOf[a]] = a)
    BY DEF sessions, AInv, RowHolds
  <1>o. OthersKeepTurns(a)
    BY <1>2 DEF OthersKeepTurns
  <1>3. RowsTyped' /\ BudgetHolds' /\ tickRev' \subseteq Automation /\ \A b \in Automation : RowHolds(b)'
    BY <1>1, <1>2, <1>o, RowWritten
  <1>4. TickTyped' /\ TickHolds'
    BY <1>3, NextItemTyped
  <1>5. TurnsTyped' /\ TurnsHold'
    BY DEF AInv, TurnsTyped, TurnsHold, sessions
  <1> QED BY <1>3, <1>4, <1>5 DEF AInv

\* The ticker goes on without having written anything.
LEMMA TickGoesOn ==
  ASSUME AInv, NextItem, UNCHANGED <<rows, sessions, seen, closed, now>>, tick.at # "off",
         run' \in [Session -> {"none", "admitting", "executing", "leaving"}]
  PROVE  AInv'
  <1>1. RowsTyped' /\ BudgetHolds' /\ \A a \in Automation : RowHolds(a)'
    BY RowsKept DEF AInv, TickTyped, rows, sessions
  <1>2. TickTyped' /\ TickHolds'
    BY NextItemTyped DEF AInv, TickTyped, rows
  <1>3. TurnsTyped' /\ TurnsHold'
    BY DEF AInv, TurnsTyped, TurnsHold, sessions
  <1> QED BY <1>1, <1>2, <1>3 DEF AInv

LEMMA RunTyped ==
  ASSUME AInv, NEW s, NEW x \in {"none", "admitting", "executing", "leaving"}
  PROVE  [run EXCEPT ![s] = x] \in [Session -> {"none", "admitting", "executing", "leaving"}]
  BY DEF AInv, TurnsTyped

LEMMA RefusesHolds ==
  ASSUME AInv, NEW a \in Automation, a = tick.cur, Refuses(a), UNCHANGED <<sessions, seen, closed, now>>, tick.at # "off"
  PROVE  AInv'
  <1>1. NextItem /\ run' \in [Session -> {"none", "admitting", "executing", "leaving"}]
    BY RunTyped DEF Refuses
  <1>2. CASE ~StillDue(a)
    BY <1>1, <1>2, TickGoesOn DEF Refuses
  <1>3. CASE StillDue(a) /\ ~RouteHolds(a)
    <2>1. Write(a, Paused(row[a])) /\ UNCHANGED quiet
      BY <1>3 DEF Refuses
    <2>2. Exists(a) /\ row[a].enabled
      BY <1>3, DueTimes
    <2> QED BY <1>1, <2>1, <2>2, PausedMayWrite, TickWrites
  <1>4. CASE StillDue(a) /\ RouteHolds(a)
    <2>1. Write(a, Skipped(a)) /\ UNCHANGED quiet
      BY <1>4 DEF Refuses
    <2>2. Exists(a) /\ ~row[a].running
      BY <1>4, DueTimes
    <2> QED BY <1>1, <1>4, <2>1, <2>2, SkippedMayWrite, TickWrites
  <1> QED BY <1>2, <1>3, <1>4

LEMMA TickSkipsHolds ==
  ASSUME AInv, TickSkips
  PROVE  AInv'
  <1>1. /\ tick.cur \in Automation /\ NextItem /\ tick.at # "off"
        /\ run' \in [Session -> {"none", "admitting", "executing", "leaving"}]
    BY DEF TickSkips, At, AInv, TickHolds, TurnsTyped
  <1>2. CASE StillDue(tick.cur)
    <2>1. Exists(tick.cur) /\ ~row[tick.cur].running
      BY <1>1, <1>2, DueTimes
    <2> QED BY <1>1, <1>2, <2>1, SkippedMayWrite, TickWrites DEF TickSkips
  <1>3. CASE ~StillDue(tick.cur)
    BY <1>1, <1>3, TickGoesOn DEF TickSkips
  <1> QED BY <1>2, <1>3

LEMMA TickPausesHolds ==
  ASSUME AInv, TickPauses
  PROVE  AInv'
  <1>1. /\ tick.cur \in Automation /\ NextItem /\ tick.at # "off"
        /\ run' \in [Session -> {"none", "admitting", "executing", "leaving"}]
    BY DEF TickPauses, At, AInv, TickHolds, TurnsTyped
  <1>2. CASE tick.cur \in tickRev /\ row[tick.cur].enabled /\ ~row[tick.cur].running
    <2>1. Exists(tick.cur)
      BY <1>1, <1>2, WholeRows DEF AInv
    <2> QED BY <1>1, <1>2, <2>1, PausedMayWrite, TickWrites DEF TickPauses
  <1>3. CASE ~(tick.cur \in tickRev /\ row[tick.cur].enabled /\ ~row[tick.cur].running)
    BY <1>1, <1>3, TickGoesOn DEF TickPauses
  <1> QED BY <1>2, <1>3

LEMMA TickClaimsHolds ==
  ASSUME AInv, TickClaims
  PROVE  AInv'
  <1>1. tick.cur \in Automation
    BY DEF TickClaims, AInv, TickHolds
  <1> PICK a \in Automation : a = tick.cur
    BY <1>1
  <1>2. CASE ~Starts(a) /\ Refuses(a) /\ UNCHANGED sessions
    BY <1>1, <1>2, RefusesHolds DEF TickClaims
  <1>3. CASE Starts(a) /\ ~(Refuses(a) /\ UNCHANGED sessions /\ ~Starts(a))
    <2> PICK r : r = [row[a] EXCEPT !.running = TRUE, !.next = 0]
      OBVIOUS
    <2> PICK s \in Session : s = SessionOf[a]
      BY AutomationAssumption
    <2>1. /\ Write(a, r) /\ sess' = [sess EXCEPT ![s] = "running"] /\ turnOf' = [turnOf EXCEPT ![s] = a]
          /\ run' = [run EXCEPT ![s] = "executing"] /\ NextItem /\ UNCHANGED <<quiet, route, lead, seen, closed, now>>
          /\ tick.at # "off"
      BY <1>3 DEF TickClaims
    <2>2. /\ row[a] \in Row /\ row[a].enabled /\ ~row[a].running /\ Exists(a)
          /\ row[a].draft \in Draft /\ row[a].route \in Route /\ quiet[a] \in Nat /\ sess[s] = "idle"
      BY <1>3, DueTimes DEF Starts, Occupied
    <2>3. /\ r \in Row /\ r.running /\ r.next = 0 /\ r.enabled /\ r.draft = row[a].draft /\ r.route = row[a].route
      BY <2>2 DEF Row
    <2>4. MayWrite(a, r, quiet[a])
      BY <2>2, <2>3 DEF MayWrite, Shown
    <2>5. turnOf[s] = None /\ turnOf'[s] = a
      BY <2>1, <2>2 DEF AInv, TurnsTyped, TurnsHold
    <2>6. OthersKeepTurns(a)
      BY <2>1, <2>5, AutomationAssumption DEF AInv, TurnsTyped, OthersKeepTurns
    <2>7. quiet' = [quiet EXCEPT ![a] = quiet[a]]
      BY <2>1 DEF AInv, RowsTyped
    <2>8. /\ r.running <=> turnOf'[SessionOf[a]] = a
          /\ UNCHANGED <<seen, now>>
          /\ r = NoRow \/ Exists(a) \/ MayCreate
      BY <2>1, <2>2, <2>3, <2>5
    <2>9. RowsTyped' /\ BudgetHolds' /\ tickRev' \subseteq Automation /\ \A b \in Automation : RowHolds(b)'
      BY <2>1, <2>2, <2>4, <2>6, <2>7, <2>8, RowWritten
    <2>10. TickTyped' /\ TickHolds'
      BY <2>1, <2>9, NextItemTyped
    <2>11. TurnsTyped'
      BY <2>1 DEF AInv, TurnsTyped
    <2>12. TurnsHold'
      BY <2>1, <2>2 DEF AInv, TurnsTyped, TurnsHold
    <2> QED BY <2>9, <2>10, <2>11, <2>12 DEF AInv
  <1> QED BY <1>2, <1>3 DEF TickClaims

\* What settleAutomation writes for the outcome of a turn, counted from now.
LEMMA SettledMayWrite ==
  ASSUME AInv, NEW a \in Automation, row[a].running, NEW out \in {"succeeded", "failed", "abandoned", "waiting"}
  PROVE  /\ MayWrite(a, Settled(row[a], out), now)
         /\ Settled(row[a], out).running <=> out = "waiting"
  <1>1. /\ row[a] \in Row /\ Exists(a) /\ row[a].draft \in Draft /\ row[a].route \in Route /\ now \in Nat \ {0}
        /\ Interval[row[a].draft] \in Nat \ {0} /\ row[a].next = 0
    BY WholeRows DEF AInv, RowsTyped, TickTyped, Every, RowHolds
  <1>2. CASE out = "waiting"
    BY <1>1, <1>2 DEF Settled, MayWrite
  <1>3. CASE out = "succeeded"
    <2> PICK n : n = IF row[a].enabled THEN now + Interval[row[a].draft] ELSE 0
      OBVIOUS
    <2>1. n \in Nat
      BY <1>1
    <2> PICK r : r = [row[a] EXCEPT !.running = FALSE, !.next = n]
      OBVIOUS
    <2>2. Settled(row[a], out) = r
      BY <1>3 DEF Settled
    <2>3. /\ r \in Row /\ r.draft = row[a].draft /\ r.route = row[a].route /\ r.next = n /\ ~r.running
          /\ r.enabled <=> row[a].enabled
      BY <1>1, <2>1 DEF Row
    <2>4. MayWrite(a, r, now)
      <3>1. CASE r.enabled
        <4>1. n = now + Interval[row[a].draft] /\ n \in 1..(now + Interval[row[a].draft])
          BY <1>1, <2>3, <3>1
        <4> QED BY <1>1, <2>3, <3>1, <4>1 DEF MayWrite, Shown
      <3>2. CASE ~r.enabled
        BY <1>1, <2>3, <3>2 DEF MayWrite, Shown
      <3> QED BY <3>1, <3>2
    <2> QED BY <1>3, <2>2, <2>3, <2>4
  <1>4. CASE out \in {"failed", "abandoned"}
    <2> PICK p : p = Paused(row[a])
      OBVIOUS
    <2>1. p \in Row /\ ~p.enabled /\ p.next = 0 /\ p.draft = row[a].draft /\ p.route = row[a].route
      BY <1>1, PausedTyped
    <2> PICK r : r = [p EXCEPT !.running = FALSE]
      OBVIOUS
    <2>2. r \in Row /\ ~r.enabled /\ ~r.running /\ r.next = 0 /\ r.draft = row[a].draft /\ r.route = row[a].route
      BY <2>1 DEF Row
    <2>3. Settled(row[a], out) = r
      BY <1>4 DEF Settled
    <2> QED BY <1>1, <1>4, <2>2, <2>3 DEF MayWrite
  <1> QED BY <1>2, <1>3, <1>4

\* A turn gets an outcome, and the row of its automation with it.
LEMMA EndsHolds ==
  ASSUME AInv, NEW s \in Session, NEW out \in {"succeeded", "failed", "abandoned", "waiting"}, Ends(s, out),
         sess[s] # "idle", run' \in [Session -> {"none", "admitting", "executing", "leaving"}]
  PROVE  AInv'
  <1>1. /\ sess' = [sess EXCEPT ![s] = IF out = "waiting" THEN "waiting" ELSE "idle"]
        /\ turnOf' = [turnOf EXCEPT ![s] = IF out = "waiting" THEN @ ELSE None]
        /\ UNCHANGED <<route, lead, tick, seen, closed, now>>
    BY DEF Ends
  <1>2. TurnsTyped'
    BY <1>1 DEF AInv, TurnsTyped
  <1>3. TurnsHold'
    BY <1>1 DEF AInv, TurnsTyped, TurnsHold
  <1>4. now \in Nat \ {0} /\ tickRev \subseteq Automation
    BY DEF AInv, TickTyped
  <1>5. CASE turnOf[s] = None
    <2>1. UNCHANGED rows /\ turnOf' = turnOf
      BY <1>1, <1>5 DEF Ends, AInv, TurnsTyped
    <2>2. RowsTyped' /\ BudgetHolds' /\ \A a \in Automation : RowHolds(a)'
      BY <1>1, <1>4, <2>1, RowsKept DEF rows
    <2>3. TickTyped' /\ TickHolds'
      BY <1>1, <2>1 DEF AInv, TickTyped, TickHolds, rows
    <2> QED BY <1>2, <1>3, <2>2, <2>3 DEF AInv
  <1>6. CASE turnOf[s] # None
    <2>1. turnOf[s] \in Automation /\ SessionOf[turnOf[s]] = s
      BY <1>6 DEF AInv, TurnsTyped, TurnsHold
    <2> PICK a \in Automation : a = turnOf[s]
      BY <2>1
    <2> PICK r : r = Settled(row[a], out)
      OBVIOUS
    <2>2. row[a].running /\ Write(a, r) /\ quiet' = [quiet EXCEPT ![a] = now]
      BY <1>6 DEF Ends
    <2>3. MayWrite(a, r, now) /\ (r.running <=> out = "waiting") /\ Exists(a)
      BY <2>2, SettledMayWrite, WholeRows DEF AInv
    <2>4. turnOf'[SessionOf[a]] = a <=> out = "waiting"
      BY <1>1, <2>1, AutomationAssumption DEF AInv, TurnsTyped
    <2>5. OthersKeepTurns(a)
      BY <1>1, <2>1, AutomationAssumption DEF AInv, TurnsTyped, OthersKeepTurns
    <2>6. r.running <=> turnOf'[SessionOf[a]] = a
      BY <2>3, <2>4
    <2>7. RowsTyped' /\ BudgetHolds' /\ tickRev' \subseteq Automation /\ \A b \in Automation : RowHolds(b)'
      BY <1>1, <2>2, <2>3, <2>5, <2>6, RowWritten
    <2>8. TickTyped' /\ TickHolds'
      BY <1>1, <2>7 DEF AInv, TickTyped, TickHolds
    <2> QED BY <1>2, <1>3, <2>7, <2>8 DEF AInv
  <1> QED BY <1>5, <1>6

LEMMA FinishTurnHolds ==
  ASSUME AInv, NEW s \in Session, NEW out \in {"succeeded", "failed", "waiting"}, FinishTurn(s, out)
  PROVE  AInv'
  BY EndsHolds, RunTyped DEF FinishTurn

LEMMA AbandonWaitingTurnHolds ==
  ASSUME AInv, NEW s \in Session, AbandonWaitingTurn(s)
  PROVE  AInv'
  <1>1. Ends(s, "abandoned") /\ sess[s] # "idle" /\ run' \in [Session -> {"none", "admitting", "executing", "leaving"}]
    BY DEF AbandonWaitingTurn, AInv, TurnsTyped
  <1> QED BY <1>1, EndsHolds

\* What recoverAutomations makes of a row: as it was, paused, or counted from now.
LEMMA RecoveredTyped ==
  ASSUME AInv, NEW a \in Automation, NEW over
  PROVE  LET r == Recovered(a, over) IN
         /\ r \in Row /\ r.draft = row[a].draft /\ r.route = row[a].route
         /\ r.enabled => row[a].enabled
         /\ r.running <=> (row[a].running /\ SessionOf[a] \notin over)
         /\ r = NoRow => row[a] = NoRow
         /\ r = NoRow \/ (r.draft \in Draft /\ r.route \in Route)
         /\ IF r.enabled /\ ~r.running THEN r.next = now + Every(a) /\ r.next \in 1..(now + Every(a)) ELSE r.next = 0
  <1>0. /\ row[a] \in Row /\ now \in Nat \ {0}
        /\ row[a] = NoRow \/ (row[a].draft \in Draft /\ row[a].route \in Route)
        /\ row[a].enabled \/ row[a].running => Exists(a) /\ row[a].draft \in Draft /\ row[a].route \in Route
                                               /\ Every(a) \in Nat \ {0}
        /\ IF row[a].enabled /\ ~row[a].running THEN TRUE ELSE row[a].next = 0
    BY WholeRows DEF AInv, RowsTyped, TickTyped, RowHolds
  <1>n. None \notin Draft /\ ~NoRow.enabled /\ ~NoRow.running /\ NoRow.draft = None
    BY AutomationAssumption DEF NoRow
  <1>1. CASE row[a].running /\ SessionOf[a] \in over
    <2> PICK p : p = Paused(row[a])
      OBVIOUS
    <2>1. p \in Row /\ ~p.enabled /\ p.next = 0 /\ p.draft = row[a].draft /\ p.route = row[a].route
      BY <1>0, PausedTyped
    <2> PICK r : r = [p EXCEPT !.running = FALSE]
      OBVIOUS
    <2>2. r \in Row /\ ~r.enabled /\ ~r.running /\ r.next = 0 /\ r.draft = row[a].draft /\ r.route = row[a].route
      BY <2>1 DEF Row
    <2>3. Recovered(a, over) = r
      BY <1>1 DEF Recovered
    <2> QED BY <1>0, <1>n, <1>1, <2>2, <2>3
  <1>2. CASE row[a].enabled /\ ~row[a].running
    <2> PICK n : n = now + Every(a)
      OBVIOUS
    <2>1. n \in Nat /\ n \in 1..(now + Every(a)) /\ n > 0
      BY <1>0, <1>2
    <2> PICK r : r = [row[a] EXCEPT !.next = n]
      OBVIOUS
    <2>2. r \in Row /\ r.enabled /\ ~r.running /\ r.next = n /\ r.draft = row[a].draft /\ r.route = row[a].route
      BY <1>0, <1>2, <2>1 DEF Row
    <2>3. Recovered(a, over) = r
      BY <1>2 DEF Recovered
    <2> QED BY <1>0, <1>n, <1>2, <2>1, <2>2, <2>3
  <1>3. CASE ~(row[a].running /\ SessionOf[a] \in over) /\ ~(row[a].enabled /\ ~row[a].running)
    <2>1. Recovered(a, over) = row[a]
      BY <1>3 DEF Recovered
    <2> QED BY <1>0, <1>3, <2>1
  <1> QED BY <1>1, <1>2, <1>3

LEMMA RestartHolds ==
  ASSUME AInv, NEW waits \in SUBSET Session, Restart(waits)
  PROVE  AInv'
  <1> PICK over \in SUBSET Session : over = {s \in Session : sess[s] = "running"} \ waits
    OBVIOUS
  <1>0. /\ row' = [a \in Automation |-> Recovered(a, over)]
        /\ sess' = [s \in Session |-> CASE s \in over -> "idle" [] s \in waits -> "waiting" [] OTHER -> sess[s]]
        /\ turnOf' = [s \in Session |-> IF s \in over THEN None ELSE turnOf[s]]
        /\ userRev' = {a \in userRev : row'[a] = row[a] /\ ~row[a].enabled}
        /\ consent' = [a \in Automation |-> IF row'[a].enabled THEN consent[a] ELSE NoConsent]
        /\ quiet' = [a \in Automation |-> now]
        /\ run' = [s \in Session |-> "none"] /\ tick' = Off /\ tickRev' = {} /\ closed' = "no"
        /\ UNCHANGED <<route, lead, seen, now>>
    BY DEF Restart
  <1>1. ASSUME NEW a \in Automation
        PROVE  /\ row'[a] \in Row /\ row'[a].draft = row[a].draft /\ row'[a].route = row[a].route
               /\ row'[a].enabled => row[a].enabled
               /\ row'[a].running <=> (row[a].running /\ SessionOf[a] \notin over)
               /\ row'[a] = NoRow => row[a] = NoRow
               /\ row'[a] = NoRow \/ (row'[a].draft \in Draft /\ row'[a].route \in Route)
               /\ IF row'[a].enabled /\ ~row'[a].running
                  THEN row'[a].next = now + Every(a) /\ row'[a].next \in 1..(now + Every(a)) ELSE row'[a].next = 0
               /\ row[a] = NoRow => row'[a] = NoRow
    <2>1. row'[a] = Recovered(a, over)
      BY <1>0
    <2>2. row[a] = NoRow => Recovered(a, over) = NoRow
      BY NoRowTyped DEF Recovered
    <2> QED BY <2>1, <2>2, RecoveredTyped
  <1>2. RowsTyped'
    <2>1. row' \in [Automation -> Row] /\ consent' \in [Automation -> Agreed]
      BY <1>0, <1>1, NoRowTyped DEF AInv, RowsTyped
    <2> QED BY <1>0, <2>1 DEF AInv, RowsTyped, TickTyped
  <1>3. BudgetHolds'
    <2>1. Rows' \subseteq Rows
      BY <1>1 DEF Rows, Exists
    <2> QED BY <2>1, FewerRows
  <1>4. TickTyped' /\ TickHolds'
    BY <1>0 DEF AInv, TickTyped, TickHolds, Off, Phases
  <1>5. TurnsTyped'
    <2>1. \A s \in Session : sess'[s] \in {"idle", "running", "waiting"} /\ turnOf'[s] \in Automation \cup {None}
      BY <1>0 DEF AInv, TurnsTyped
    <2> QED BY <1>0, <2>1 DEF AInv, TurnsTyped
  <1>6. TurnsHold'
    BY <1>0 DEF AInv, TurnsTyped, TurnsHold
  <1>7. ASSUME NEW a \in Automation PROVE RowHolds(a)'
    <2>1. row'[a].running <=> turnOf'[SessionOf[a]] = a
      <3>1. row[a].running <=> turnOf[SessionOf[a]] = a
        BY DEF AInv, RowHolds
      <3>2. SessionOf[a] \in Session /\ None # a
        BY AutomationAssumption
      <3>3. turnOf'[SessionOf[a]] = a <=> (turnOf[SessionOf[a]] = a /\ SessionOf[a] \notin over)
        BY <1>0, <3>2
      <3> QED BY <1>1, <3>1, <3>3
    <2>2. Every(a)' = Every(a) /\ Shown(row'[a]) = Shown(row[a]) /\ quiet'[a] = now /\ now' = now
      BY <1>0, <1>1 DEF Every, Shown
    <2>3. row'[a].enabled => consent'[a] = Shown(row'[a])
      BY <1>0, <1>1, <2>2 DEF AInv, RowHolds
    <2>4. a \in userRev' => seen'[a] = Shown(row'[a])
      BY <1>0, <2>2 DEF AInv, RowHolds
    <2>5. now \in Nat /\ row'[a].next \in Nat
      BY <1>1 DEF AInv, TickTyped, Row
    <2>6. row'[a].enabled /\ ~row'[a].running => row'[a].next >= now + Every(a)
      <3>1. ASSUME row'[a].enabled, ~row'[a].running PROVE row'[a].next >= now + Every(a)
        <4>1. Every(a) \in Nat
          BY <1>1, <3>1, WholeRows DEF AInv
        <4> QED BY <1>1, <3>1, <4>1, <2>5
      <3> QED BY <3>1
    <2>7. IF row'[a].enabled /\ ~row'[a].running THEN row'[a].next \in 1..(now + Every(a)) ELSE row'[a].next = 0
      BY <1>1
    <2> QED BY <1>1, <2>1, <2>2, <2>3, <2>4, <2>6, <2>7 DEF RowHolds
  <1> QED BY <1>2, <1>3, <1>4, <1>5, <1>6, <1>7 DEF AInv

-----------------------------------------------------------------------------
(* Every step of automations.                                              *)

LEMMA AutomationStep ==
  ASSUME AInv, [AutomationNext]_automationVars
  PROVE  AInv'
  <1>1. CASE UNCHANGED automationVars
    BY <1>1 DEF automationVars, rows, sessions, AInv, RowsTyped, TurnsTyped, TickTyped, TickHolds, TurnsHold, BudgetHolds,
                Rows, Exists, RowHolds, Every
  <1>2. ASSUME NEW a \in Automation, User(a) PROVE AInv'
    BY <1>2, CreateHolds, UpdateHolds, DeleteHolds, DisableHolds, EnableHolds, ViewHolds DEF User
  <1>3. ASSUME NEW s \in Session, Turns(s) PROVE AInv'
    <2>1. CASE \E out \in {"succeeded", "failed"} : FinishTurn(s, out)
      BY <2>1, FinishTurnHolds
    <2>2. CASE FinishTurn(s, "waiting") \/ AbandonWaitingTurn(s)
      BY <2>2, FinishTurnHolds, AbandonWaitingTurnHolds
    <2>3. CASE LeaveRun(s) \/ Execute(s) \/ BecomeLead(s) \/ \E r \in Route : Switch(s, r)
      BY <2>3, OthersHold
    <2> QED BY <1>3, <2>1, <2>2, <2>3 DEF Turns
  <1>4. CASE Start \/ TickFails \/ TickBegins \/ TickLists \/ TickReads \/ TickEnters \/ TickStops
    BY <1>4, TickerHolds
  <1>5. CASE TickClaims \/ TickSkips \/ TickPauses
    BY <1>5, TickClaimsHolds, TickSkipsHolds, TickPausesHolds
  <1>6. CASE Advance \/ CoordinatorClose \/ CoordinatorCloseReturns
    <2>1. UNCHANGED <<row, userRev, consent, quiet, seen, turnOf, sess, route, run, tickRev, tick>> /\ now' \in {now, now + 1}
      BY <1>6 DEF Advance, CoordinatorClose, CoordinatorCloseReturns, rows, sessions
    <2>2. now \in Nat \ {0} /\ now' \in Nat \ {0} /\ now <= now'
      BY <2>1 DEF AInv, TickTyped
    <2>3. RowsTyped' /\ BudgetHolds' /\ \A a \in Automation : RowHolds(a)'
      BY <2>1, <2>2, RowsKept
    <2>4. closed' \in {"no", "closing", "closed"} /\ (closed' = "closed" => tick.at = "off")
      BY <1>6 DEF AInv, TickTyped, TickHolds, Advance, CoordinatorClose, CoordinatorCloseReturns, TickerGone
    <2>5. TickTyped' /\ TickHolds' /\ TurnsTyped' /\ TurnsHold'
      BY <2>1, <2>2, <2>4 DEF AInv, TickTyped, TickHolds, TurnsTyped, TurnsHold
    <2> QED BY <2>3, <2>5 DEF AInv
  <1>7. ASSUME NEW waits \in SUBSET Session, Restart(waits) PROVE AInv'
    BY <1>7, RestartHolds
  <1> QED BY <1>1, <1>2, <1>3, <1>4, <1>5, <1>6, <1>7 DEF AutomationNext, Ticker

\* Rows, turns, ticker and history stay in order: a row runs with its turn, is
\* scheduled within an interval of now and a whole one after it was last quiet,
\* and is what its users saw.
THEOREM AutomationInvariant == AutomationSpec => []AInv
  BY AutomationStarts, AutomationStep, PTL DEF AutomationSpec

LEMMA InOrder == AInv => NoneIsStranded
  <1> SUFFICES ASSUME AInv PROVE NoneIsStranded
    OBVIOUS
  <1>1. RunningMatchesTurn /\ EnabledIsScheduled
    BY DEF AInv, RowHolds, RunningMatchesTurn, EnabledIsScheduled
  <1>2. \A a \in Automation : Exists(a) => row[a].draft \in Draft /\ row[a].route \in Route
    BY DEF AInv, RowHolds, Exists
  <1>3. AutomationTypeOK
    BY <1>2 DEF AutomationTypeOK, AInv, RowsTyped, TurnsTyped, TickTyped, BudgetHolds, Rows
  <1> QED BY <1>1, <1>3 DEF NoneIsStranded

\* For any number of automations, sessions and prompts: a row is marked running
\* exactly as long as the live turn of its session is its own, and an enabled one
\* always has a next time.
THEOREM AutomationNoneIsStranded == AutomationSpec => []NoneIsStranded
  BY AutomationInvariant, InOrder, PTL

-----------------------------------------------------------------------------
(* What begins a scheduled turn.                                           *)

\* A write of a row that did not run, or runs as before, begins nothing.
LEMMA WriteBegins ==
  ASSUME RowsTyped, NEW a \in Automation, NEW r, Write(a, r), r.running => row[a].running, NEW b \in Automation
  PROVE  ~Began(b)
  BY DEF Write, Began, RowsTyped

LEMMA SettledRuns ==
  ASSUME NEW r \in Row, NEW out
  PROVE  Settled(r, out).running => r.running
  BY DEF Settled, Paused, Row

LEMMA UserBegins ==
  ASSUME AInv, NEW a \in Automation, User(a), NEW b \in Automation
  PROVE  ~Began(b)
  <1>0. RowsTyped /\ row[a] \in Row
    BY DEF AInv, RowsTyped
  <1>1. CASE View(a)
    BY <1>1 DEF View, Began
  <1>2. CASE Enable(a)
    BY <1>0, <1>2 DEF Enable, Began, RowsTyped, Row
  <1>3. CASE Disable(a)
    BY <1>0, <1>3, PausedTyped, WriteBegins DEF Disable, Edit
  <1>4. CASE DeleteAutomation(a)
    BY <1>0, <1>4, NoRowTyped, WriteBegins DEF DeleteAutomation, Edit
  <1>5. ASSUME NEW d \in Draft, CreateAutomation(a, d) PROVE ~Began(b)
    <2> PICK r : r = [NoRow EXCEPT !.draft = d, !.route = route[SessionOf[a]]]
      OBVIOUS
    <2>1. Write(a, r) /\ ~r.running
      BY <1>5 DEF CreateAutomation, Edit, NoRow
    <2> QED BY <1>0, <2>1, WriteBegins
  <1>6. ASSUME NEW d \in Draft, UpdateAutomation(a, d) PROVE ~Began(b)
    <2> PICK p : p = Paused(row[a])
      OBVIOUS
    <2> PICK r : r = [p EXCEPT !.draft = d, !.route = route[SessionOf[a]]]
      OBVIOUS
    <2>1. p \in Row /\ p.running = row[a].running
      BY <1>0, PausedTyped
    <2>2. Write(a, r) /\ r.running = row[a].running
      BY <1>6, <2>1 DEF UpdateAutomation, Edit, Row
    <2> QED BY <1>0, <2>2, WriteBegins
  <1> QED BY <1>1, <1>2, <1>3, <1>4, <1>5, <1>6 DEF User

LEMMA TickerBegins ==
  ASSUME AInv, Start \/ Ticker \/ TickFails, NEW b \in Automation, Began(b)
  PROVE  TickClaims /\ b = tick.cur /\ Starts(b)
  <1>0. RowsTyped
    BY DEF AInv
  <1>p. ASSUME NEW a \in Automation PROVE Paused(row[a]).running = row[a].running /\ Skipped(a).running = row[a].running
    <2>1. row[a] \in Row
      BY DEF AInv, RowsTyped
    <2> QED BY <2>1, PausedTyped DEF Skipped, Row
  <1>c. tick.at \in {"starting", "claiming", "skipping", "pausing"} => tick.cur \in Automation
    BY DEF AInv, TickHolds
  <1>1. ~(Start \/ TickBegins \/ TickLists \/ TickReads \/ TickEnters \/ TickFails \/ TickStops)
    BY DEF Began, Start, TickBegins, TickLists, TickReads, TickEnters, TickFails, TickStops, rows
  <1>2. ASSUME TickSkips PROVE FALSE
    <2>1. tick.cur \in Automation
      BY <1>2, <1>c DEF TickSkips, At
    <2>2. UNCHANGED rows \/ Write(tick.cur, Skipped(tick.cur))
      BY <1>2 DEF TickSkips
    <2> QED BY <1>0, <1>p, <2>1, <2>2, WriteBegins DEF rows, Began
  <1>3. ASSUME TickPauses PROVE FALSE
    <2>1. tick.cur \in Automation
      BY <1>3, <1>c DEF TickPauses, At
    <2>2. UNCHANGED rows \/ Write(tick.cur, Paused(row[tick.cur]))
      BY <1>3 DEF TickPauses
    <2> QED BY <1>0, <1>p, <2>1, <2>2, WriteBegins DEF rows, Began
  <1>4. TickClaims
    BY <1>1, <1>2, <1>3 DEF Ticker
  <1>5. tick.cur \in Automation
    BY <1>4, <1>c DEF TickClaims
  <1> PICK a \in Automation : a = tick.cur
    BY <1>5
  <1>6. ASSUME Refuses(a) PROVE FALSE
    <2>1. UNCHANGED rows \/ Write(a, Skipped(a)) \/ Write(a, Paused(row[a]))
      BY <1>6 DEF Refuses
    <2> QED BY <1>0, <1>p, <2>1, WriteBegins DEF rows, Began
  <1>7. Starts(a) /\ Write(a, [row[a] EXCEPT !.running = TRUE, !.next = 0])
    BY <1>4, <1>6 DEF TickClaims
  <1>8. b = a
    BY <1>0, <1>7 DEF Write, Began, RowsTyped
  <1> QED BY <1>4, <1>7, <1>8

LEMMA TurnsBegin ==
  ASSUME AInv, NEW s \in Session, Turns(s), NEW b \in Automation
  PROVE  ~Began(b)
  <1>0. RowsTyped
    BY DEF AInv
  <1>1. CASE LeaveRun(s) \/ Execute(s) \/ BecomeLead(s) \/ \E r \in Route : Switch(s, r)
    BY <1>1 DEF LeaveRun, Execute, BecomeLead, Switch, rows, Began
  <1>2. ASSUME NEW out, Ends(s, out) PROVE ~Began(b)
    <2>1. CASE turnOf[s] = None
      BY <1>2, <2>1 DEF Ends, rows, Began
    <2>2. CASE turnOf[s] # None
      <3> PICK a \in Automation : a = turnOf[s]
        BY <2>2 DEF AInv, TurnsTyped
      <3> PICK r : r = Settled(row[a], out)
        OBVIOUS
      <3>1. Write(a, r) /\ row[a] \in Row
        BY <1>2, <2>2, <1>0 DEF Ends, RowsTyped
      <3> QED BY <1>0, <3>1, SettledRuns, WriteBegins
    <2> QED BY <2>1, <2>2
  <1> QED BY <1>1, <1>2 DEF Turns, FinishTurn, AbandonWaitingTurn

LEMMA RestartBegins ==
  ASSUME AInv, NEW waits \in SUBSET Session, Restart(waits), NEW b \in Automation
  PROVE  ~Began(b)
  <1> PICK over : over = {s \in Session : sess[s] = "running"} \ waits
    OBVIOUS
  <1>1. row'[b] = Recovered(b, over)
    BY DEF Restart
  <1> QED BY <1>1, RecoveredTyped DEF Began

LEMMA OnlyClaims ==
  ASSUME AInv, [AutomationNext]_automationVars, NEW b \in Automation, Began(b)
  PROVE  TickClaims /\ b = tick.cur /\ Starts(b)
  <1>1. ~UNCHANGED automationVars
    BY DEF automationVars, rows, Began
  <1>2. ~(Advance \/ CoordinatorClose \/ CoordinatorCloseReturns)
    BY DEF Advance, CoordinatorClose, CoordinatorCloseReturns, rows, Began
  <1>3. Start \/ Ticker \/ TickFails
    BY <1>1, <1>2, UserBegins, TurnsBegin, RestartBegins DEF AutomationNext
  <1> QED BY <1>3, TickerBegins

LEMMA StepsAreWanted ==
  ASSUME AInv, [AutomationNext]_automationVars
  PROVE  RunsAreConsented /\ RunsAreSpaced /\ ClosedStartsNothing
  <1>1. ASSUME NEW b \in Automation, Began(b)
        PROVE  /\ consent[b] = Shown(row[b]) /\ route[SessionOf[b]] = consent[b].route
               /\ tick.time >= quiet[b] + Every(b) /\ tick.time < row[b].next + Every(b)
               /\ closed # "closed"
    <2>1. TickClaims /\ Starts(b)
      BY <1>1, OnlyClaims
    <2>2. StillDue(b) /\ RouteHolds(b) /\ ~Missed(b)
      BY <2>1 DEF Starts
    <2>3. /\ row[b].enabled /\ quiet[b] + Every(b) <= row[b].next /\ row[b].next <= tick.time
          /\ tick.time \in Nat /\ quiet[b] \in Nat /\ Every(b) \in Nat /\ row[b].next \in Nat
      BY <2>2, DueTimes DEF Row
    <2>4. consent[b] = Shown(row[b]) /\ Shown(row[b]).route = row[b].route
      BY <2>3 DEF AInv, RowHolds, Shown
    <2>5. ~(tick.time - row[b].next >= Every(b))
      BY <2>2 DEF Missed
    <2>6. tick.time >= quiet[b] + Every(b) /\ tick.time < row[b].next + Every(b)
      BY <2>3, <2>5
    <2>7. closed # "closed"
      BY <2>1 DEF TickClaims, AInv, TickHolds
    <2> QED BY <2>2, <2>4, <2>6, <2>7 DEF RouteHolds
  <1> QED BY <1>1 DEF RunsAreConsented, RunsAreSpaced, ClosedStartsNothing

\* For any number of automations, sessions and prompts: a scheduled turn begins
\* only by the ticker's claim, with the prompt and the route its user agreed to, a
\* whole interval or more after the automation was last quiet and less than two
\* intervals late, and never once Close has returned.
THEOREM AutomationRunsAreWanted == AutomationSpec => RunsAreWanted
  <1>1. AInv /\ [AutomationNext]_automationVars => [RunsAreConsented /\ RunsAreSpaced /\ ClosedStartsNothing]_automationVars
    BY StepsAreWanted
  <1> QED BY <1>1, AutomationInvariant, PTL DEF AutomationSpec, RunsAreWanted

-----------------------------------------------------------------------------
(* Durable waits.                                                          *)

Req      == [id : Nat, action : Gated \cup {External}, answer : {"", "yes", "no"}]
Snapshot == [rev : Nat, status : {"idle", "running", "waiting", "interrupted"}, reqs : SUBSET Req, grants : SUBSET Req]
Rounds   == [n : Nat, status : {"none", "running", "waiting", "done"},
             attempt : {"none", "running", "waiting", "done"}, receipt : Nat]
Claims   == [at : {"none", "ask", "miss", "bad", "run", "over", "stop"}, action : Gated \cup {External}, id : Nat]
Points   == {"off", "open", "drive", "model", "tools", "stop", "out", "closed", "recorded"}
Outcomes == {"", "failed", "succeeded", "suspended"}
Runs     == [pc : Points, resume : Nat, outcome : Outcomes, receipt : Nat, cancelled : BOOLEAN, calls : [Call -> Claims]]
Users    == [at : {"idle", "shown", "picked", "held", "reset"}, kind : {"", "resolve", "abandon"}, seen : Snapshot, n : Nat]
Entries  == [turn : Nat, answer : {"", "yes", "no"}, told : Nat, used : Nat]
Past     == [faults : Nat, dirty : BOOLEAN, given : SUBSET Nat]

WaitTyped ==
    /\ rec \in Snapshot /\ IsFiniteSet(rec.reqs) /\ IsFiniteSet(rec.grants) /\ lease \in Client \cup {Nobody, "engine"}
    /\ turn \in Rounds /\ exec \in Runs /\ client \in [Client -> Users] /\ log \in Seq(Entries) /\ hist \in Past

\* The record: its budgets, and what its status means.
RecordHolds ==
    /\ Cardinality(rec.reqs) <= MaxRequest /\ Cardinality(rec.grants) <= MaxRequest
    /\ rec.status = "idle" => rec.reqs = {} /\ rec.grants = {}
    /\ rec.status = "waiting" => rec.reqs # {}
    /\ rec.rev = 0 => rec.status = "idle"

HasAnswer(q) == q.answer # ""

\* Every request and grant is one of the log, which says what became of it.
LogHolds ==
    /\ \A q \in rec.reqs \cup rec.grants :
         q.id \in DOMAIN log /\ log[q.id].answer = q.answer /\ log[q.id].used = 0
    /\ \A q \in rec.reqs : log[q.id].told = 0
    /\ \A q \in rec.grants : log[q.id].told = 1
    /\ \A p \in rec.reqs \cup rec.grants, q \in rec.reqs \cup rec.grants : p.id = q.id => p = q
    /\ \A i \in DOMAIN log : log[i].told <= 1 /\ (log[i].told = 1 => HasAnswer(log[i]))

\* A call that may run its tool has the only claim on an approval of this turn.
ClaimHolds(k) ==
    /\ exec.calls[k].id \in DOMAIN log
    /\ log[exec.calls[k].id].used = 0 /\ log[exec.calls[k].id].answer = "yes"
    /\ log[exec.calls[k].id].told = 1 /\ log[exec.calls[k].id].turn = turn.n
    /\ \A q \in rec.reqs \cup rec.grants : q.id # exec.calls[k].id
    /\ \A j \in Call : exec.calls[j].at = "run" /\ exec.calls[j].id = exec.calls[k].id => j = k

CallsHold == exec.pc = "tools" => \A k \in Call : exec.calls[k].at = "run" => ClaimHolds(k)

Working == exec.pc \in {"model", "tools", "stop"}

\* The lease: of the engine from opening to closing, of a user in a call.
LeaseHolds ==
    /\ exec.pc \in {"drive", "model", "tools", "stop", "out"} => lease = "engine"
    /\ \A c \in Client : client[c].at \in {"held", "reset"} => lease = c

\* A run that works has the record to itself, and no unfinished work behind it.
WorkHolds ==
    /\ Working => rec.status = "running" /\ ~hist.dirty
    /\ ~Working => (hist.dirty <=> rec.status \in {"running", "interrupted"})

\* Which point of a run goes with which turn.
TurnHolds ==
    /\ exec.pc # "off" <=> turn.status = "running"
    /\ turn.status = "running" /\ exec.pc # "recorded" => turn.attempt = "running"
    /\ exec.pc = "recorded" => turn.attempt \in {"waiting", "done"}
    /\ turn.status = "none" => turn.attempt = "none"
    /\ turn.status = "waiting" => turn.attempt = "waiting"
    /\ turn.attempt = "waiting" /\ turn.status = "done" => turn.n \in hist.given
    /\ turn.receipt <= rec.rev /\ exec.receipt <= rec.rev /\ exec.resume <= rec.rev

Ours == \A q \in rec.reqs \cup rec.grants : log[q.id].turn = turn.n

\* A run that ended suspended, until its turn says so.
Suspending ==
    \/ exec.pc \in {"out", "closed"} /\ exec.outcome = "suspended"
    \/ exec.pc = "recorded" /\ turn.attempt = "waiting"

\* Whose requests the record has: those of the turn that works, suspends or waits.
CheckpointHolds ==
    /\ Working => Ours
    /\ exec.pc \in {"open", "drive"} /\ rec.status = "waiting" /\ rec.rev = exec.resume => Ours
    /\ Suspending => rec.status = "waiting" /\ Ours
    /\ turn.status = "waiting" => rec.status = "waiting" \/ turn.n \in hist.given
    /\ turn.status = "waiting" /\ rec.status = "waiting" => Ours

\* What a user has seen is the record as it is, or an older one, and older than
\* what a run has written.
SeenHold(c) == client[c].at # "idle" =>
    /\ client[c].seen.rev <= rec.rev /\ (client[c].seen.rev = rec.rev => client[c].seen = rec)
    /\ client[c].n <= turn.n
    /\ Working \/ Suspending => client[c].seen.rev < rec.rev
    /\ client[c].at = "reset" /\ client[c].n = turn.n => turn.n \in hist.given

SeenHolds == \A c \in Client : SeenHold(c)

WInv ==
    /\ WaitTyped /\ RecordHolds /\ LogHolds /\ CallsHold /\ LeaseHolds /\ WorkHolds /\ TurnHolds
    /\ CheckpointHolds /\ SeenHolds

-----------------------------------------------------------------------------
LEMMA NoRunTyped ==
  /\ NoRun \in Runs /\ NoRun.pc = "off" /\ NoRun.resume = 0 /\ NoRun.receipt = 0
  /\ Blank \in Snapshot /\ Blank.rev = 0 /\ Blank.status = "idle" /\ Blank.reqs = {} /\ Blank.grants = {}
  /\ Away \in Users /\ Away.at = "idle" /\ NoCall \in Claims /\ NoCall.at = "none"
  <1>1. NoCall \in Claims /\ NoCall.at = "none"
    BY DEF NoCall, Claims
  <1>2. Blank \in Snapshot /\ Blank.rev = 0 /\ Blank.status = "idle" /\ Blank.reqs = {} /\ Blank.grants = {}
    BY DEF Blank, Snapshot
  <1>3. Away \in Users /\ Away.at = "idle"
    BY <1>2 DEF Away, Users
  <1>4. NoRun \in Runs /\ NoRun.pc = "off" /\ NoRun.resume = 0 /\ NoRun.receipt = 0
    <2>1. [k \in Call |-> NoCall] \in [Call -> Claims]
      BY <1>1
    <2> QED BY <2>1 DEF NoRun, Runs, Points, Outcomes
  <1> QED BY <1>1, <1>2, <1>3, <1>4

LEMMA WaitStarts == WaitInit => WInv
  <1> SUFFICES ASSUME WaitInit PROVE WInv
    OBVIOUS
  <1>0. /\ rec \in Snapshot /\ rec.rev = 0 /\ rec.status = "idle" /\ rec.reqs = {} /\ rec.grants = {} /\ lease = Nobody
        /\ turn \in Rounds /\ turn.n = 0 /\ turn.status = "none" /\ turn.attempt = "none" /\ turn.receipt = 0
        /\ exec \in Runs /\ exec.pc = "off" /\ exec.resume = 0 /\ exec.receipt = 0
        /\ client \in [Client -> Users] /\ (\A c \in Client : client[c].at = "idle")
        /\ log = <<>> /\ log \in Seq(Entries) /\ DOMAIN log = {} /\ hist \in Past /\ ~hist.dirty
    <2>1. rec = Blank /\ lease = Nobody /\ exec = NoRun /\ client = [c \in Client |-> Away] /\ log = <<>>
      BY DEF WaitInit
    <2>2. turn = [n |-> 0, status |-> "none", attempt |-> "none", receipt |-> 0]
          /\ hist = [faults |-> 0, dirty |-> FALSE, given |-> {}]
      BY DEF WaitInit
    <2>3. hist \in Past /\ ~hist.dirty
      BY <2>2 DEF Past
    <2>4. turn \in Rounds /\ turn.n = 0 /\ turn.status = "none" /\ turn.attempt = "none" /\ turn.receipt = 0
      BY <2>2 DEF Rounds
    <2>5. client \in [Client -> Users] /\ (\A c \in Client : client[c].at = "idle")
      BY <2>1, NoRunTyped
    <2>6. log = <<>> /\ log \in Seq(Entries) /\ DOMAIN log = {}
      BY <2>1
    <2> QED BY <2>1, <2>3, <2>4, <2>5, <2>6, NoRunTyped
  <1>1. WaitTyped
    BY <1>0, FS_EmptySet DEF WaitTyped
  <1>2. RecordHolds
    BY <1>0, FS_EmptySet, WaitAssumption DEF RecordHolds
  <1>3. LogHolds /\ CallsHold /\ LeaseHolds /\ WorkHolds
    BY <1>0 DEF LogHolds, CallsHold, LeaseHolds, WorkHolds, Working
  <1>4. TurnHolds /\ CheckpointHolds
    BY <1>0 DEF TurnHolds, CheckpointHolds, Working, Suspending, Ours
  <1>5. SeenHolds
    BY <1>0 DEF SeenHolds, SeenHold
  <1> QED BY <1>1, <1>2, <1>3, <1>4, <1>5 DEF WInv

-----------------------------------------------------------------------------
(* What the parts of a step write.                                         *)

LEMMA Committed ==
  ASSUME rec.rev \in Nat, NEW r \in Snapshot, Commit(r)
  PROVE  /\ rec' \in Snapshot /\ rec'.rev = rec.rev + 1 /\ rec'.status = r.status
         /\ rec'.reqs = r.reqs /\ rec'.grants = r.grants
  BY DEF Commit, Snapshot

LEMMA Ended ==
  ASSUME exec \in Runs, NEW outcome \in Outcomes, NEW point \in Points, EndWith(outcome, point)
  PROVE  /\ exec' \in Runs /\ exec'.pc = point /\ exec'.outcome = outcome
         /\ exec'.resume = 0 /\ exec'.receipt = 0
  BY NoRunTyped DEF EndWith, Runs

LEMMA Went ==
  ASSUME exec \in Runs, NEW point \in Points, Goto(point)
  PROVE  /\ exec' \in Runs /\ exec'.pc = point /\ exec'.outcome = exec.outcome /\ exec'.calls = exec.calls
         /\ exec'.resume = exec.resume /\ exec'.receipt = exec.receipt
  BY DEF Goto, Runs

\* What a user goes on looking at.
Follows(c) ==
    \/ client'[c].at = "idle"
    \/ /\ client[c].at # "idle" /\ client'[c].seen = client[c].seen /\ client'[c].n = client[c].n
       /\ client'[c].at = "reset" => client[c].at = "reset"

LEMMA SeenKept ==
  ASSUME WInv, \A c \in Client : Follows(c), rec' = rec \/ rec'.rev = rec.rev + 1,
         rec' = rec => ((Working \/ Suspending)' => Working \/ Suspending),
         turn'.n \in {turn.n, turn.n + 1}, hist.given \subseteq hist'.given
  PROVE  SeenHolds'
  <1>1. ASSUME NEW c \in Client PROVE SeenHold(c)'
    <2>1. CASE client'[c].at = "idle"
      BY <2>1 DEF SeenHold
    <2>2. CASE client'[c].at # "idle"
      <3>1. /\ client'[c].seen = client[c].seen /\ client'[c].n = client[c].n
            /\ client'[c].at = "reset" => client[c].at = "reset"
            /\ client[c].at # "idle" /\ SeenHold(c)
        BY <2>2 DEF Follows, WInv, SeenHolds
      <3>2. client[c].seen.rev \in Nat /\ rec.rev \in Nat /\ client[c].n \in Nat /\ turn.n \in Nat
        BY DEF WInv, WaitTyped, Users, Snapshot, Rounds
      <3> PICK seenRev \in Nat, seenN \in Nat : seenRev = client[c].seen.rev /\ seenN = client[c].n
        BY <3>2
      <3>3. /\ seenRev <= rec.rev /\ (seenRev = rec.rev => client[c].seen = rec) /\ seenN <= turn.n
            /\ Working \/ Suspending => seenRev < rec.rev
            /\ client[c].at = "reset" /\ seenN = turn.n => turn.n \in hist.given
        BY <3>1 DEF SeenHold
      <3>4. seenRev <= rec'.rev /\ (seenRev = rec'.rev => client[c].seen = rec')
        BY <3>2, <3>3
      <3>5. (Working \/ Suspending)' => seenRev < rec'.rev
        BY <3>2, <3>3
      <3>6. seenN <= turn'.n /\ (client[c].at = "reset" /\ seenN = turn'.n => turn'.n \in hist'.given)
        BY <3>2, <3>3
      <3> QED BY <3>1, <3>4, <3>5, <3>6 DEF SeenHold
    <2> QED BY <2>1, <2>2
  <1> QED BY <1>1 DEF SeenHolds

\* A step of the engine that writes neither record nor log, inside its work.
LEMMA EngineMoves ==
  ASSUME WInv, UNCHANGED <<rec, lease, turn, client, log, hist>>, exec' \in Runs,
         Working, exec'.pc \in {"model", "tools", "stop"}, exec'.receipt <= rec.rev, exec'.resume <= rec.rev,
         CallsHold'
  PROVE  WInv'
  <1>1. WaitTyped' /\ RecordHolds' /\ LogHolds'
    BY DEF WInv, WaitTyped, RecordHolds, LogHolds
  <1>2. LeaseHolds' /\ WorkHolds'
    BY DEF WInv, LeaseHolds, WorkHolds, Working
  <1>3. TurnHolds'
    BY DEF WInv, TurnHolds, Working
  <1>4. CheckpointHolds'
    BY DEF WInv, CheckpointHolds, Working, Suspending, Ours
  <1>5. SeenHolds'
    BY SeenKept DEF WInv, Follows, WaitTyped, Users
  <1> QED BY <1>1, <1>2, <1>3, <1>4, <1>5 DEF WInv

\* What a run has held of its points stays below the revision.
LEMMA RunBounds ==
  ASSUME WInv
  PROVE  exec \in Runs /\ exec.receipt <= rec.rev /\ exec.resume <= rec.rev /\ 0 <= rec.rev /\ rec.rev \in Nat
         /\ rec \in Snapshot
  BY DEF WInv, WaitTyped, TurnHolds, Snapshot

LEMMA StopsHold ==
  ASSUME WInv, NEW outcome \in Outcomes, Working, EndWith(outcome, "stop"),
         UNCHANGED <<rec, lease, turn, client, log, hist>>
  PROVE  WInv'
  <1>1. exec' \in Runs /\ exec'.pc = "stop" /\ exec'.resume = 0 /\ exec'.receipt = 0
    BY Ended, RunBounds DEF Points
  <1>2. CallsHold'
    BY <1>1 DEF CallsHold
  <1> QED BY <1>1, <1>2, RunBounds, EngineMoves

LEMMA CallToHolds ==
  ASSUME WInv, NEW k \in Call, NEW at \in {"miss", "bad"}, exec.pc = "tools", CallTo(k, at),
         UNCHANGED <<rec, lease, turn, client, log, hist>>
  PROVE  WInv'
  <1>1. /\ exec' \in Runs /\ exec'.pc = "tools" /\ exec'.resume = exec.resume /\ exec'.receipt = exec.receipt
        /\ \A j \in Call : j # k => exec'.calls[j] = exec.calls[j]
        /\ exec'.calls[k].at = at
    BY RunBounds DEF CallTo, Runs, Claims
  <1>2. CallsHold'
    BY <1>1 DEF WInv, CallsHold, ClaimHolds
  <1> QED BY <1>1, <1>2, RunBounds, EngineMoves DEF Working

LEMMA CallToolsHolds ==
  ASSUME WInv, NEW f \in [Call -> Gated \cup {External, "none"}], CallTools(f)
  PROVE  WInv'
  <1> PICK calls : calls = [k \in Call |-> IF f[k] = "none" THEN NoCall ELSE [at |-> "ask", action |-> f[k], id |-> 0]]
    OBVIOUS
  <1>1. \A k \in Call : calls[k] \in Claims /\ calls[k].at # "run"
    BY NoRunTyped DEF Claims
  <1>2. calls \in [Call -> Claims]
    BY <1>1
  <1>3. exec' = [exec EXCEPT !.pc = "tools", !.calls = calls]
    BY DEF CallTools
  <1>4. exec' \in Runs /\ exec'.pc = "tools" /\ exec'.calls = calls /\ exec'.resume = exec.resume
        /\ exec'.receipt = exec.receipt
    BY <1>2, <1>3, RunBounds DEF Runs, Points
  <1>5. CallsHold'
    BY <1>1, <1>4 DEF CallsHold
  <1> QED BY <1>4, <1>5, RunBounds, EngineMoves DEF CallTools, Working

LEMMA WorkStepsHold ==
  ASSUME WInv, Yield \/ Finish \/ Settle \/ Abort
  PROVE  WInv'
  <1>1. CASE \E outcome \in Outcomes : EndWith(outcome, "stop")
    BY <1>1, StopsHold DEF Yield, Finish, Settle, Abort, Working
  <1>2. CASE Settle /\ Goto("model")
    <2>1. exec' \in Runs /\ exec'.pc = "model" /\ exec'.resume = exec.resume /\ exec'.receipt = exec.receipt
      BY <1>2, Went, RunBounds DEF Points
    <2>2. CallsHold'
      BY <2>1 DEF CallsHold
    <2> QED BY <1>2, <2>1, <2>2, RunBounds, EngineMoves DEF Settle, Working
  <1> QED BY <1>1, <1>2 DEF Yield, Finish, Settle, Abort, Outcomes

LEMMA CancelHolds ==
  ASSUME WInv, CancelRun
  PROVE  WInv'
  <1>1. /\ exec' \in Runs /\ exec'.pc = exec.pc /\ exec'.outcome = exec.outcome /\ exec'.calls = exec.calls
        /\ exec'.resume = exec.resume /\ exec'.receipt = exec.receipt
        /\ UNCHANGED <<rec, lease, turn, client, log, hist>>
    BY RunBounds DEF CancelRun, Runs
  <1>2. WaitTyped' /\ RecordHolds' /\ LogHolds'
    BY <1>1 DEF WInv, WaitTyped, RecordHolds, LogHolds
  <1>3. CallsHold' /\ LeaseHolds' /\ WorkHolds'
    BY <1>1 DEF WInv, CallsHold, ClaimHolds, LeaseHolds, WorkHolds, Working
  <1>4. TurnHolds' /\ CheckpointHolds'
    BY <1>1 DEF WInv, TurnHolds, CheckpointHolds, Working, Suspending, Ours
  <1>5. SeenHolds'
    BY <1>1, SeenKept DEF WInv, Follows, WaitTyped, Users, Working, Suspending
  <1> QED BY <1>2, <1>3, <1>4, <1>5 DEF WInv

-----------------------------------------------------------------------------
(* The engine, outside its work.                                           *)

\* Record, log and record's history are as they were.
LEMMA QuietTyped ==
  ASSUME WInv, UNCHANGED <<rec, log>>, lease' \in Client \cup {Nobody, "engine"}, turn' \in Rounds, exec' \in Runs,
         client' \in [Client -> Users], hist' \in Past
  PROVE  WaitTyped' /\ RecordHolds' /\ LogHolds'
  BY DEF WInv, WaitTyped, RecordHolds, LogHolds

LEMMA StartTurnHolds ==
  ASSUME WInv, StartTurn
  PROVE  WInv'
  <1>0. turn.n \in Nat /\ rec.rev \in Nat /\ hist.given \subseteq Nat /\ exec.pc = "off"
    BY DEF WInv, WaitTyped, Rounds, Snapshot, Past, StartTurn
  <1>1. /\ exec' \in Runs /\ exec'.pc = "open" /\ exec'.resume = 0 /\ exec'.receipt = 0
        /\ turn' \in Rounds /\ turn'.n = turn.n + 1 /\ turn'.status = "running" /\ turn'.attempt = "running"
        /\ turn'.receipt = 0 /\ UNCHANGED <<rec, lease, client, log, hist>>
    <2>1. exec' = [NoRun EXCEPT !.pc = "open"] /\ UNCHANGED <<rec, lease, client, log, hist>>
          /\ turn' = [n |-> turn.n + 1, status |-> "running", attempt |-> "running", receipt |-> 0]
      BY DEF StartTurn
    <2>2. exec' \in Runs /\ exec'.pc = "open" /\ exec'.resume = 0 /\ exec'.receipt = 0
      BY <2>1, NoRunTyped DEF Runs, Points
    <2> PICK n \in Nat : n = turn.n + 1
      BY <1>0
    <2>3. turn' = [n |-> n, status |-> "running", attempt |-> "running", receipt |-> 0]
      BY <2>1
    <2>4. turn' \in Rounds /\ turn'.n = n /\ turn'.status = "running" /\ turn'.attempt = "running" /\ turn'.receipt = 0
      BY <2>3 DEF Rounds
    <2> QED BY <2>1, <2>2, <2>4
  <1>2. WaitTyped' /\ RecordHolds' /\ LogHolds'
    BY <1>1, QuietTyped DEF WInv, WaitTyped
  <1>3. CallsHold' /\ LeaseHolds'
    BY <1>1 DEF WInv, CallsHold, LeaseHolds
  <1>4. WorkHolds' /\ TurnHolds'
    BY <1>0, <1>1 DEF WInv, WorkHolds, Working, TurnHolds
  <1>5. CheckpointHolds'
    BY <1>0, <1>1 DEF WInv, RecordHolds, CheckpointHolds, Working, Suspending, Ours
  <1>6. SeenHolds'
    BY <1>0, <1>1, SeenKept DEF WInv, Follows, WaitTyped, Users, Working, Suspending
  <1> QED BY <1>2, <1>3, <1>4, <1>5, <1>6 DEF WInv

LEMMA OpenHolds ==
  ASSUME WInv, Open
  PROVE  WInv'
  <1>0. UNCHANGED <<rec, turn, client, log, hist>> /\ exec.pc = "open" /\ turn.n \in Nat
    BY DEF Open, WInv, WaitTyped, Rounds
  <1>1. CASE lease = Nobody /\ lease' = "engine" /\ Goto("drive")
    <2>1. /\ exec' \in Runs /\ exec'.pc = "drive" /\ exec'.outcome = exec.outcome
          /\ exec'.resume = exec.resume /\ exec'.receipt = exec.receipt
      BY <1>1, Went, RunBounds DEF Points
    <2>2. WaitTyped' /\ RecordHolds' /\ LogHolds'
      BY <1>0, <1>1, <2>1, QuietTyped DEF WInv, WaitTyped
    <2>3. CallsHold' /\ LeaseHolds'
      BY <1>0, <1>1, <2>1, WaitAssumption DEF WInv, CallsHold, LeaseHolds, Nobody
    <2>4. WorkHolds' /\ TurnHolds'
      BY <1>0, <2>1 DEF WInv, WorkHolds, Working, TurnHolds
    <2>5. CheckpointHolds'
      BY <1>0, <2>1 DEF WInv, CheckpointHolds, Working, Suspending, Ours
    <2>6. SeenHolds'
      BY <1>0, <2>1, SeenKept DEF WInv, Follows, WaitTyped, Users, Working, Suspending
    <2> QED BY <2>2, <2>3, <2>4, <2>5, <2>6 DEF WInv
  <1>2. CASE UNCHANGED lease /\ EndWith("failed", "closed")
    <2>1. /\ exec' \in Runs /\ exec'.pc = "closed" /\ exec'.outcome = "failed" /\ exec'.resume = 0 /\ exec'.receipt = 0
      BY <1>2, Ended, RunBounds DEF Points, Outcomes
    <2>2. WaitTyped' /\ RecordHolds' /\ LogHolds'
      BY <1>0, <1>2, <2>1, QuietTyped DEF WInv, WaitTyped
    <2>3. CallsHold' /\ LeaseHolds'
      BY <1>0, <1>2, <2>1 DEF WInv, CallsHold, LeaseHolds
    <2>4. WorkHolds' /\ TurnHolds'
      BY <1>0, <2>1, RunBounds DEF WInv, WorkHolds, Working, TurnHolds
    <2>5. CheckpointHolds'
      BY <1>0, <2>1 DEF WInv, CheckpointHolds, Working, Suspending, Ours
    <2>6. SeenHolds'
      BY <1>0, <2>1, SeenKept DEF WInv, Follows, WaitTyped, Users, Working, Suspending
    <2> QED BY <2>2, <2>3, <2>4, <2>5, <2>6 DEF WInv
  <1> QED BY <1>1, <1>2 DEF Open

\* The record is replaced: what users saw is older.
LEMMA DriveFails ==
  ASSUME WInv, exec.pc = "drive", EndWith("failed", "out"), UNCHANGED <<rec, lease, turn, client, log, hist>>
  PROVE  WInv'
  <1>0. turn.n \in Nat
    BY DEF WInv, WaitTyped, Rounds
  <1>1. /\ exec' \in Runs /\ exec'.pc = "out" /\ exec'.outcome = "failed" /\ exec'.resume = 0 /\ exec'.receipt = 0
    BY Ended, RunBounds DEF Points, Outcomes
  <1>2. WaitTyped' /\ RecordHolds' /\ LogHolds'
    BY <1>1, QuietTyped DEF WInv, WaitTyped
  <1>3. CallsHold' /\ LeaseHolds'
    BY <1>1 DEF WInv, CallsHold, LeaseHolds
  <1>4. WorkHolds' /\ TurnHolds'
    BY <1>1, RunBounds DEF WInv, WorkHolds, Working, TurnHolds
  <1>5. CheckpointHolds'
    BY <1>1 DEF WInv, CheckpointHolds, Working, Suspending, Ours
  <1>6. SeenHolds'
    BY <1>0, <1>1, SeenKept DEF WInv, Follows, WaitTyped, Users, Working, Suspending
  <1> QED BY <1>2, <1>3, <1>4, <1>5, <1>6 DEF WInv

LEMMA ToldLog ==
  ASSUME WInv, log' = Told(rec)
  PROVE  /\ log' \in Seq(Entries) /\ DOMAIN log' = DOMAIN log
         /\ \A i \in DOMAIN log :
              /\ log'[i].turn = log[i].turn /\ log'[i].answer = log[i].answer /\ log'[i].used = log[i].used
              /\ log'[i].told = IF \E q \in rec.reqs : q.id = i THEN log[i].told + 1 ELSE log[i].told
  <1>1. log \in Seq(Entries) /\ Len(log) \in Nat /\ DOMAIN log = 1..Len(log)
    BY DEF WInv, WaitTyped
  <1>2. DOMAIN log' = DOMAIN log
    BY DEF Told
  <1>3. ASSUME NEW i \in DOMAIN log
        PROVE  /\ log'[i] \in Entries
               /\ log'[i].turn = log[i].turn /\ log'[i].answer = log[i].answer /\ log'[i].used = log[i].used
               /\ log'[i].told = IF \E q \in rec.reqs : q.id = i THEN log[i].told + 1 ELSE log[i].told
    <2>1. log[i] \in Entries
      BY <1>1, <1>3
    <2>2. log'[i] = IF \E q \in rec.reqs : q.id = i THEN [log[i] EXCEPT !.told = @ + 1] ELSE log[i]
      BY <1>3 DEF Told
    <2>t. log[i].told \in Nat
      BY <2>1 DEF Entries
    <2> PICK n \in Nat : n = log[i].told + 1
      BY <2>t
    <2>3. [log[i] EXCEPT !.told = n] \in Entries
      BY <2>1 DEF Entries
    <2>4. log'[i] = IF \E q \in rec.reqs : q.id = i THEN [log[i] EXCEPT !.told = n] ELSE log[i]
      BY <2>2
    <2> QED BY <2>1, <2>3, <2>4 DEF Entries
  <1>4. log' \in Seq(Entries)
    <2>1. log' \in [1..Len(log) -> Entries]
      BY <1>1, <1>3 DEF Told
    <2> QED BY <1>1, <2>1
  <1> QED BY <1>2, <1>3, <1>4

\* Requests and grants are of different ids: one has been told, the other not.
LEMMA Apart ==
  ASSUME WInv, NEW p \in rec.reqs, NEW q \in rec.grants
  PROVE  p.id # q.id
  <1>1. log[p.id].told = 0 /\ log[q.id].told = 1
    BY DEF WInv, LogHolds
  <1> QED BY <1>1

AllAnswered == \A q \in rec.reqs : HasAnswer(q)

LEMMA ToldOnce ==
  ASSUME WInv, log' = Told(rec), AllAnswered, NEW i \in DOMAIN log
  PROVE  log'[i].told <= 1 /\ (log'[i].told = 1 => HasAnswer(log'[i]))
  <1>0. /\ log'[i].answer = log[i].answer
        /\ log'[i].told = IF \E q \in rec.reqs : q.id = i THEN log[i].told + 1 ELSE log[i].told
    BY ToldLog
  <1>1. ASSUME NEW q \in rec.reqs, q.id = i PROVE log'[i].told = 1 /\ HasAnswer(log'[i])
    <2>1. log[i].told = 0 /\ log[i].answer = q.answer
      BY <1>1 DEF WInv, LogHolds
    <2>2. log'[i].told = log[i].told + 1
      BY <1>0, <1>1
    <2>3. HasAnswer(log'[i])
      BY <1>0, <2>1 DEF AllAnswered, HasAnswer
    <2> QED BY <2>1, <2>2, <2>3
  <1>2. CASE ~\E q \in rec.reqs : q.id = i
    <2>1. log'[i].told = log[i].told /\ log[i].told <= 1 /\ (log[i].told = 1 => HasAnswer(log[i]))
      BY <1>0, <1>2 DEF WInv, LogHolds
    <2>2. HasAnswer(log[i]) => HasAnswer(log'[i])
      BY <1>0 DEF HasAnswer
    <2> QED BY <2>1, <2>2
  <1>3. CASE \E q \in rec.reqs : q.id = i
    <2>1. log'[i].told = 1 /\ HasAnswer(log'[i])
      BY <1>1, <1>3
    <2> QED BY <2>1
  <1> QED BY <1>2, <1>3

\* What a continued record says: nothing unfinished, and its answers are in.
LEMMA ContinuedRecord ==
  ASSUME WInv, NEW rev \in Nat, Continues(rev)
  PROVE  /\ rec.status \in {"idle", "waiting"}
         /\ rec.status = "waiting" => rec.rev = rev
         /\ AllAnswered
  BY DEF AllAnswered, HasAnswer, Continues, Answered, WInv, RecordHolds

LEMMA DriveHolds ==
  ASSUME WInv, Drive
  PROVE  WInv'
  <1>0. UNCHANGED <<lease, turn, client, hist>> /\ exec.pc = "drive" /\ turn.n \in Nat
    BY DEF Drive, WInv, WaitTyped, Rounds
  <1>1. CASE EndWith("failed", "out") /\ UNCHANGED <<rec, log>>
    BY <1>0, <1>1, DriveFails
  <1>2. CASE /\ Continues(exec.resume) /\ Cardinality(Delivered(rec).grants) <= MaxRequest
             /\ Commit(Delivered(rec)) /\ log' = Told(rec) /\ exec' = [exec EXCEPT !.pc = "model", !.resume = 0]
    <2>0. /\ exec.resume \in Nat /\ rec \in Snapshot /\ rec.rev \in Nat /\ IsFiniteSet(rec.reqs) /\ IsFiniteSet(rec.grants)
          /\ rec.reqs \subseteq Req /\ rec.grants \subseteq Req
      BY DEF WInv, WaitTyped, Runs, Snapshot
    <2>1. rec.status \in {"idle", "waiting"} /\ (rec.status = "waiting" => rec.rev = exec.resume)
          /\ AllAnswered
      BY <1>2, <2>0, ContinuedRecord
    <2> PICK given : given = {q \in rec.reqs : q.action # External}
      OBVIOUS
    <2> PICK grants : grants = rec.grants \cup given
      OBVIOUS
    <2>2. grants \subseteq Req /\ IsFiniteSet(grants) /\ grants \subseteq rec.reqs \cup rec.grants
      <3>1. given \subseteq rec.reqs
        OBVIOUS
      <3>2. IsFiniteSet(given)
        BY <2>0, <3>1, FS_Subset
      <3> QED BY <2>0, <3>1, <3>2, FS_Union
    <2> PICK r : r = [rec EXCEPT !.status = "running", !.reqs = {}, !.grants = grants]
      OBVIOUS
    <2>3. r \in Snapshot /\ r.status = "running" /\ r.reqs = {} /\ r.grants = grants
      BY <2>0, <2>2 DEF Snapshot
    <2>4. Delivered(rec) = r
      BY DEF Delivered
    <2>5. rec' \in Snapshot /\ rec'.rev = rec.rev + 1 /\ rec'.status = "running" /\ rec'.reqs = {} /\ rec'.grants = grants
      BY <1>2, <2>0, <2>3, <2>4, Committed
    <2>6. exec' \in Runs /\ exec'.pc = "model" /\ exec'.resume = 0 /\ exec'.receipt = exec.receipt
      BY <1>2, RunBounds DEF Runs, Points
    <2>7. /\ log' \in Seq(Entries) /\ DOMAIN log' = DOMAIN log
          /\ \A i \in DOMAIN log :
               /\ log'[i].turn = log[i].turn /\ log'[i].answer = log[i].answer /\ log'[i].used = log[i].used
               /\ log'[i].told = IF \E q \in rec.reqs : q.id = i THEN log[i].told + 1 ELSE log[i].told
      BY <1>2, ToldLog
    <2>8. WaitTyped'
      BY <1>0, <2>2, <2>5, <2>6, <2>7, FS_EmptySet DEF WInv, WaitTyped
    <2>9. RecordHolds'
      BY <1>2, <2>0, <2>3, <2>4, <2>5, FS_EmptySet, WaitAssumption DEF RecordHolds
    <2>10. LogHolds'
      <3> USE <2>2, <2>5, <2>7
      <3>1. ASSUME NEW q \in grants
            PROVE  q.id \in DOMAIN log' /\ log'[q.id].answer = q.answer /\ log'[q.id].used = 0
        BY DEF WInv, LogHolds
      <3>2. ASSUME NEW q \in grants PROVE log'[q.id].told = 1
        <4>1. CASE q \in rec.reqs
          <5>1. log[q.id].told = 0 /\ q.id \in DOMAIN log
            BY <4>1 DEF WInv, LogHolds
          <5>2. log'[q.id].told = log[q.id].told + 1
            BY <4>1, <5>1
          <5> QED BY <5>1, <5>2
        <4>2. CASE q \notin rec.reqs
          <5>1. q \in rec.grants /\ log[q.id].told = 1 /\ q.id \in DOMAIN log
            BY <4>2 DEF WInv, LogHolds
          <5>2. ~\E p \in rec.reqs : p.id = q.id
            BY <4>2, <5>1 DEF WInv, LogHolds
          <5> QED BY <5>1, <5>2
        <4> QED BY <4>1, <4>2
      <3>3. ASSUME NEW i \in DOMAIN log PROVE log'[i].told <= 1 /\ (log'[i].told = 1 => HasAnswer(log'[i]))
        BY <1>2, <2>1, <3>3, ToldOnce
      <3>4. \A p, q \in grants : p.id = q.id => p = q
        BY DEF WInv, LogHolds
      <3> QED BY <3>1, <3>2, <3>3, <3>4 DEF LogHolds
    <2>11. CallsHold' /\ LeaseHolds'
      BY <1>0, <2>6 DEF WInv, CallsHold, LeaseHolds
    <2>12. WorkHolds'
      BY <1>0, <2>1, <2>5, <2>6 DEF WInv, WorkHolds, Working
    <2>13. TurnHolds'
      BY <1>0, <2>0, <2>5, <2>6, RunBounds DEF WInv, TurnHolds, WaitTyped, Rounds, Runs
    <2>14. Ours'
      <3>1. ASSUME NEW q \in grants PROVE log'[q.id].turn = turn.n
        <4>1. rec.status = "waiting"
          BY <2>1, <2>2 DEF WInv, RecordHolds
        <4>2. log[q.id].turn = turn.n /\ q.id \in DOMAIN log
          BY <1>0, <2>1, <2>2, <4>1 DEF WInv, CheckpointHolds, Ours, LogHolds
        <4> QED BY <2>7, <4>2
      <3> QED BY <1>0, <2>5, <3>1 DEF Ours
    <2>15. CheckpointHolds'
      BY <1>0, <2>6, <2>14 DEF WInv, CheckpointHolds, Suspending, TurnHolds
    <2>16. SeenHolds'
      <3>1. rec' # rec /\ turn'.n = turn.n /\ hist'.given = hist.given
        BY <1>0, <2>0, <2>5
      <3>2. \A c \in Client : Follows(c)
        BY <1>0 DEF Follows
      <3> QED BY <1>0, <2>5, <3>1, <3>2, SeenKept
    <2> QED BY <2>8, <2>9, <2>10, <2>11, <2>12, <2>13, <2>15, <2>16 DEF WInv
  <1> QED BY <1>1, <1>2 DEF Drive

-----------------------------------------------------------------------------
(* The calls of a batch.                                                   *)

LEMMA OldestIsOne ==
  ASSUME NEW S \in SUBSET Req, S # {}
  PROVE  Oldest(S) \in S
  <1> PICK ids \in SUBSET Nat : ids = {q.id : q \in S}
    BY DEF Req
  <1>1. PICK least \in ids : \A i \in ids : ~(i < least)
    <2>1. ids # {}
      OBVIOUS
    <2>2. PICK x \in ids : \A y \in ids : ~(<<y, x>> \in OpToRel(<, Nat))
      BY <2>1, WFMin, NatLessThanWellFounded
    <2>3. ASSUME NEW y \in ids, y < x PROVE FALSE
      <3>1. <<y, x>> \in OpToRel(<, Nat)
        BY <2>3 DEF OpToRel
      <3> QED BY <2>2, <3>1
    <2> QED BY <2>2, <2>3
  <1>2. PICK q \in S : q.id = least
    BY <1>1
  <1>3. \A p \in S : q.id <= p.id
    <2>1. \A p \in S : p.id \in ids /\ p.id \in Nat /\ ~(p.id < least) /\ least \in Nat
      BY <1>1 DEF Req
    <2> QED BY <1>2, <2>1
  <1> QED BY <1>3 DEF Oldest

\* One request or grant is taken out, or put in place of another.
LEMMA CardMinus ==
  ASSUME NEW S, IsFiniteSet(S), NEW x
  PROVE  IsFiniteSet(S \ {x}) /\ Cardinality(S \ {x}) <= Cardinality(S)
  BY FS_Subset, S \ {x} \subseteq S

LEMMA CardSwap ==
  ASSUME NEW S, NEW q \in S, NEW x, IsFiniteSet(S)
  PROVE  IsFiniteSet((S \ {q}) \cup {x}) /\ Cardinality((S \ {q}) \cup {x}) <= Cardinality(S)
  <1> PICK T : T = S \ {q}
    OBVIOUS
  <1>1. IsFiniteSet(S \ {q}) /\ Cardinality(S \ {q}) = Cardinality(S) - 1 /\ Cardinality(S) \in Nat
    BY FS_RemoveElement, FS_CardinalityType
  <1>2. IsFiniteSet(T \cup {x}) /\ Cardinality(T \cup {x}) <= Cardinality(T) + 1 /\ Cardinality(T \cup {x}) \in Nat
    BY <1>1, CardPlus
  <1> QED BY <1>1, <1>2

LEMMA ConsumeHolds ==
  ASSUME WInv, NEW k \in Call, Consume(k)
  PROVE  WInv'
  <1>0. /\ exec.pc = "tools" /\ exec.calls[k].at = "ask" /\ exec.calls[k] \in Claims /\ exec.calls \in [Call -> Claims]
        /\ UNCHANGED <<lease, turn, client, log, hist>> /\ turn.n \in Nat
        /\ rec \in Snapshot /\ rec.rev \in Nat /\ rec.grants \subseteq Req /\ IsFiniteSet(rec.grants)
    BY DEF Consume, Call_At, WInv, WaitTyped, Runs, Rounds, Snapshot
  <1> PICK a : a = exec.calls[k].action
    OBVIOUS
  <1> PICK q : q = Oldest(Matching(a))
    OBVIOUS
  <1>1. CASE \E at \in {"miss", "bad"} : CallTo(k, at) /\ UNCHANGED rec
    BY <1>0, <1>1, CallToHolds
  <1>2. CASE /\ Matching(a) # {} /\ Commit([rec EXCEPT !.grants = Remaining(q)])
             /\ exec' = [exec EXCEPT !.calls[k] = [@ EXCEPT !.id = q.id, !.at = IF q.answer = "yes" THEN "run" ELSE "over"]]
    <2>1. q \in rec.grants /\ q \in Req /\ q.id \in Nat
      <3> PICK M \in SUBSET rec.grants : M = Matching(a)
        BY DEF Matching
      <3>1. q \in M
        BY <1>0, <1>2, OldestIsOne
      <3> QED BY <1>0, <3>1 DEF Req
    <2> PICK grants : grants = rec.grants \ {q}
      OBVIOUS
    <2>2. grants \subseteq Req /\ grants \subseteq rec.grants /\ q \notin grants /\ IsFiniteSet(grants)
          /\ Cardinality(grants) <= Cardinality(rec.grants)
      BY <1>0, CardMinus
    <2> PICK r : r = [rec EXCEPT !.grants = grants]
      OBVIOUS
    <2>3. r \in Snapshot /\ r.status = rec.status /\ r.reqs = rec.reqs /\ r.grants = grants /\ Commit(r)
      BY <1>0, <1>2, <2>2 DEF Snapshot, Remaining
    <2>4. /\ rec' \in Snapshot /\ rec'.rev = rec.rev + 1 /\ rec'.status = rec.status
          /\ rec'.reqs = rec.reqs /\ rec'.grants = grants
      BY <1>0, <2>3, Committed
    <2> PICK at \in {"run", "over"} : at = IF q.answer = "yes" THEN "run" ELSE "over"
      OBVIOUS
    <2> PICK call : call = [exec.calls[k] EXCEPT !.id = q.id, !.at = at]
      OBVIOUS
    <2>5. call \in Claims /\ call.id = q.id /\ call.at = at
      BY <1>0, <2>1 DEF Claims
    <2>6. exec' = [exec EXCEPT !.calls[k] = call]
      BY <1>2
    <2>7. /\ exec' \in Runs /\ exec'.pc = "tools" /\ exec'.resume = exec.resume /\ exec'.receipt = exec.receipt
          /\ exec'.calls = [exec.calls EXCEPT ![k] = call]
      BY <1>0, <2>5, <2>6, RunBounds DEF Runs
    <2>8. exec'.calls[k] = call /\ \A j \in Call : j # k => exec'.calls[j] = exec.calls[j]
      BY <1>0, <2>7
    <2>9. WaitTyped'
      BY <1>0, <2>2, <2>4, <2>7 DEF WInv, WaitTyped
    <2>10. RecordHolds'
      <3>1. Cardinality(grants) \in Nat /\ Cardinality(rec.grants) \in Nat
        BY <1>0, <2>2, FS_CardinalityType
      <3> QED BY <1>0, <2>2, <2>4, <3>1, WaitAssumption DEF WInv, RecordHolds
    <2>11. LogHolds'
      BY <1>0, <2>2, <2>4 DEF WInv, LogHolds
    <2>12. Ours
      BY <1>0 DEF WInv, CheckpointHolds, Working
    <2>13. CallsHold'
      <3>1. ASSUME NEW j \in Call, j # k, exec'.calls[j].at = "run" PROVE ClaimHolds(j)'
        <4>1. exec.calls[j].at = "run" /\ exec'.calls[j] = exec.calls[j]
          BY <2>8, <3>1
        <4>2. ClaimHolds(j)
          BY <1>0, <4>1 DEF WInv, CallsHold
        <4>3. exec.calls[j].id # q.id
          BY <2>1, <4>2 DEF ClaimHolds
        <4>4. \A i \in Call : exec'.calls[i].at = "run" /\ exec'.calls[i].id = exec'.calls[j].id => i = j
          <5> SUFFICES ASSUME NEW i \in Call, exec'.calls[i].at = "run", exec'.calls[i].id = exec'.calls[j].id
                       PROVE  i = j
            OBVIOUS
          <5>1. i # k
            BY <2>5, <2>8, <4>1, <4>3
          <5>2. exec.calls[i].at = "run" /\ exec.calls[i].id = exec.calls[j].id
            BY <2>8, <4>1, <5>1
          <5> QED BY <4>2, <5>2 DEF ClaimHolds
        <4> QED BY <1>0, <2>2, <2>4, <4>1, <4>2, <4>4 DEF ClaimHolds
      <3>2. ASSUME exec'.calls[k].at = "run" PROVE ClaimHolds(k)'
        <4>1. q.answer = "yes" /\ exec'.calls[k].id = q.id
          BY <2>5, <2>8, <3>2
        <4>2. q.id \in DOMAIN log /\ log[q.id].used = 0 /\ log[q.id].answer = "yes" /\ log[q.id].told = 1
              /\ log[q.id].turn = turn.n
          BY <2>1, <2>12, <4>1 DEF WInv, LogHolds, Ours
        <4>3. \A p \in rec.reqs \cup grants : p.id # q.id
          <5>1. ASSUME NEW p \in rec.reqs \cup grants, p.id = q.id PROVE FALSE
            <6>1. p = q
              BY <2>1, <2>2, <5>1 DEF WInv, LogHolds
            <6>2. p \in rec.reqs
              BY <2>2, <5>1, <6>1
            <6> QED BY <2>1, <6>1, <6>2, Apart
          <5> QED BY <5>1
        <4>4. \A i \in Call : exec'.calls[i].at = "run" /\ exec'.calls[i].id = exec'.calls[k].id => i = k
          <5>1. ASSUME NEW i \in Call, i # k, exec'.calls[i].at = "run", exec'.calls[i].id = q.id PROVE FALSE
            <6>1. ClaimHolds(i) /\ exec.calls[i].id = q.id
              BY <1>0, <2>8, <5>1 DEF WInv, CallsHold
            <6> QED BY <2>1, <6>1 DEF ClaimHolds
          <5> QED BY <4>1, <5>1
        <4> QED BY <1>0, <2>4, <4>1, <4>2, <4>3, <4>4 DEF ClaimHolds
      <3> QED BY <3>1, <3>2 DEF CallsHold
    <2>14. LeaseHolds' /\ WorkHolds'
      BY <1>0, <2>4, <2>7 DEF WInv, LeaseHolds, WorkHolds, Working
    <2>15. TurnHolds'
      BY <1>0, <2>4, <2>7 DEF WInv, WaitTyped, TurnHolds, Rounds, Runs
    <2>16. CheckpointHolds'
      BY <1>0, <2>2, <2>4, <2>7, <2>12 DEF WInv, CheckpointHolds, Working, Suspending, Ours, TurnHolds
    <2>17. SeenHolds'
      <3>1. rec' # rec /\ turn'.n = turn.n /\ hist'.given = hist.given
        BY <1>0, <2>4
      <3>2. \A c \in Client : Follows(c)
        BY <1>0 DEF Follows
      <3> QED BY <1>0, <2>4, <3>1, <3>2, SeenKept
    <2> QED BY <2>9, <2>10, <2>11, <2>13, <2>14, <2>15, <2>16, <2>17 DEF WInv
  <1> QED BY <1>1, <1>2 DEF Consume

NewRequest(i, a) == [id |-> i, action |-> a, answer |-> ""]
NewEntry(n)      == [turn |-> n, answer |-> "", told |-> 0, used |-> 0]

LEMMA NewTyped ==
  ASSUME NEW i \in Nat, NEW a \in Gated \cup {External}, NEW n \in Nat
  PROVE  /\ NewRequest(i, a) \in Req /\ NewRequest(i, a).id = i /\ ~HasAnswer(NewRequest(i, a))
         /\ NewEntry(n) \in Entries /\ NewEntry(n).turn = n /\ NewEntry(n).told = 0 /\ NewEntry(n).used = 0
         /\ NewEntry(n).answer = NewRequest(i, a).answer
  BY DEF NewRequest, NewEntry, Req, Entries, HasAnswer

\* A request of this turn is written to the record and to the log.
LEMMA EnqueueHolds ==
  ASSUME WInv, NEW k \in Call, Enqueue(k)
  PROVE  WInv'
  <1> PICK a : a = exec.calls[k].action
    OBVIOUS
  <1>t. exec \in Runs /\ exec.calls \in [Call -> Claims] /\ exec.calls[k] \in Claims /\ a \in Gated \cup {External}
    <2>1. exec \in Runs
      BY RunBounds
    <2>2. exec.calls \in [Call -> Claims]
      BY <2>1 DEF Runs
    <2> QED BY <2>1, <2>2 DEF Claims
  <1>l. log \in Seq(Entries) /\ Len(log) \in Nat /\ DOMAIN log = 1..Len(log)
    BY DEF WInv, WaitTyped
  <1>0. /\ exec.pc = "tools" /\ exec.calls[k].at \in {"ask", "miss"}
        /\ UNCHANGED <<lease, turn, client, hist>> /\ turn.n \in Nat
        /\ rec \in Snapshot /\ rec.rev \in Nat /\ rec.reqs \subseteq Req /\ IsFiniteSet(rec.reqs)
    BY DEF Enqueue, Call_At, WInv, WaitTyped, Rounds, Snapshot
  <1>1. CASE CallTo(k, "bad") /\ UNCHANGED <<rec, log>>
    BY <1>0, <1>1, CallToHolds
  <1>2. CASE /\ Cardinality(rec.reqs) < MaxRequest
             /\ Commit([rec EXCEPT !.reqs = @ \cup {NewRequest(Len(log) + 1, a)}])
             /\ log' = Append(log, NewEntry(turn.n))
             /\ CallTo(k, IF a = External THEN "over" ELSE "stop")
    <2> PICK i \in Nat : i = Len(log) + 1
      BY <1>l
    <2>i. i \notin DOMAIN log
      BY <1>l
    <2> PICK q : q = NewRequest(i, a)
      OBVIOUS
    <2> PICK e : e = NewEntry(turn.n)
      OBVIOUS
    <2>1. q \in Req /\ q.id = i /\ ~HasAnswer(q)
      BY <1>0, <1>t, NewTyped
    <2>2. e \in Entries /\ e.turn = turn.n /\ e.answer = q.answer /\ e.told = 0 /\ e.used = 0
      BY <1>0, <1>t, NewTyped
    <2> PICK reqs : reqs = rec.reqs \cup {q}
      OBVIOUS
    <2>3. /\ reqs \subseteq Req /\ IsFiniteSet(reqs) /\ Cardinality(reqs) \in Nat /\ Cardinality(rec.reqs) \in Nat
          /\ Cardinality(reqs) <= Cardinality(rec.reqs) + 1
      BY <1>0, <2>1, CardPlus
    <2> PICK r : r = [rec EXCEPT !.reqs = reqs]
      OBVIOUS
    <2>4. r \in Snapshot /\ r.status = rec.status /\ r.reqs = reqs /\ r.grants = rec.grants /\ Commit(r)
      <3>1. r \in Snapshot /\ r.status = rec.status /\ r.reqs = reqs /\ r.grants = rec.grants
        BY <1>0, <2>3 DEF Snapshot
      <3>2. [rec EXCEPT !.reqs = @ \cup {NewRequest(Len(log) + 1, a)}] = r
        OBVIOUS
      <3> QED BY <1>2, <3>1, <3>2
    <2>5. /\ rec' \in Snapshot /\ rec'.rev = rec.rev + 1 /\ rec'.status = rec.status
          /\ rec'.reqs = reqs /\ rec'.grants = rec.grants
      BY <1>0, <2>4, Committed
    <2>6. /\ log' \in Seq(Entries) /\ log'[i] = e /\ (\A j \in DOMAIN log : log'[j] = log[j])
          /\ DOMAIN log' = DOMAIN log \cup {i}
      <3>1. log' = Append(log, e)
        BY <1>2
      <3> QED BY <1>l, <2>2, <3>1
    <2> PICK at \in {"over", "stop"} : at = IF a = External THEN "over" ELSE "stop"
      OBVIOUS
    <2>7. /\ exec' \in Runs /\ exec'.pc = "tools" /\ exec'.resume = exec.resume /\ exec'.receipt = exec.receipt
          /\ \A j \in Call : j # k => exec'.calls[j] = exec.calls[j]
          /\ exec'.calls[k].at = at
      BY <1>0, <1>t, <1>2, RunBounds DEF CallTo, Runs, Claims
    <2>8. WaitTyped'
      BY <1>0, <2>3, <2>5, <2>6, <2>7 DEF WInv, WaitTyped
    <2>9. RecordHolds'
      <3>1. Cardinality(reqs) <= MaxRequest /\ reqs # {}
        BY <1>2, <2>3, WaitAssumption
      <3>2. rec.status = "running"
        BY <1>0 DEF WInv, WorkHolds, Working
      <3> QED BY <1>0, <2>5, <3>1, <3>2 DEF WInv, RecordHolds
    <2>o. \A p \in rec.reqs \cup rec.grants : p.id \in DOMAIN log /\ p.id # i
      BY <2>i DEF WInv, LogHolds
    <2>10. LogHolds'
      <3>1. ASSUME NEW p \in reqs \cup rec.grants
            PROVE  p.id \in DOMAIN log' /\ log'[p.id].answer = p.answer /\ log'[p.id].used = 0
        <4>1. CASE p = q
          BY <2>1, <2>2, <2>6, <4>1
        <4>2. CASE p # q
          BY <2>6, <3>1, <4>2 DEF WInv, LogHolds
        <4> QED BY <4>1, <4>2
      <3>2. ASSUME NEW p \in reqs PROVE log'[p.id].told = 0
        <4>1. CASE p = q
          BY <2>1, <2>2, <2>6, <4>1
        <4>2. CASE p # q
          <5>1. p \in rec.reqs /\ log'[p.id] = log[p.id]
            BY <2>6, <2>o, <3>2, <4>2
          <5> QED BY <5>1 DEF WInv, LogHolds
        <4> QED BY <4>1, <4>2
      <3>3. ASSUME NEW p \in rec.grants PROVE log'[p.id].told = 1
        BY <2>6 DEF WInv, LogHolds
      <3>4. ASSUME NEW j \in DOMAIN log' PROVE log'[j].told <= 1 /\ (log'[j].told = 1 => HasAnswer(log'[j]))
        <4>1. CASE j = i
          BY <2>2, <2>6, <4>1
        <4>2. CASE j # i
          BY <2>6, <3>4, <4>2 DEF WInv, LogHolds
        <4> QED BY <4>1, <4>2
      <3>5. ASSUME NEW p \in reqs \cup rec.grants, NEW o \in reqs \cup rec.grants, p.id = o.id PROVE p = o
        <4>1. CASE p = q \/ o = q
          BY <2>1, <2>o, <3>5, <4>1
        <4>2. CASE p # q /\ o # q
          BY <3>5, <4>2 DEF WInv, LogHolds
        <4> QED BY <4>1, <4>2
      <3> QED BY <2>5, <3>1, <3>2, <3>3, <3>4, <3>5 DEF LogHolds
    <2>11. CallsHold'
      <3>1. ASSUME NEW j \in Call, exec'.calls[j].at = "run" PROVE ClaimHolds(j)'
        <4>1. j # k /\ exec'.calls[j] = exec.calls[j] /\ ClaimHolds(j)
          BY <1>0, <2>7, <3>1 DEF WInv, CallsHold
        <4>2. exec.calls[j].id \in DOMAIN log /\ exec.calls[j].id # i /\ log'[exec.calls[j].id] = log[exec.calls[j].id]
          BY <2>6, <2>i, <4>1 DEF ClaimHolds
        <4>3. \A p \in reqs \cup rec.grants : p.id # exec.calls[j].id
          BY <2>1, <4>1, <4>2 DEF ClaimHolds
        <4>4. \A l \in Call : exec'.calls[l].at = "run" /\ exec'.calls[l].id = exec'.calls[j].id => l = j
          BY <2>7, <4>1 DEF ClaimHolds
        <4> QED BY <1>0, <2>5, <2>6, <4>1, <4>2, <4>3, <4>4 DEF ClaimHolds
      <3> QED BY <3>1 DEF CallsHold
    <2>12. LeaseHolds' /\ WorkHolds'
      BY <1>0, <2>5, <2>7 DEF WInv, LeaseHolds, WorkHolds, Working
    <2>13. TurnHolds'
      BY <1>0, <2>5, <2>7 DEF WInv, WaitTyped, TurnHolds, Rounds, Runs
    <2>14. CheckpointHolds'
      <3>1. Ours
        BY <1>0 DEF WInv, CheckpointHolds, Working
      <3>2. ASSUME NEW p \in reqs \cup rec.grants PROVE log'[p.id].turn = turn.n
        BY <2>1, <2>2, <2>6, <2>o, <3>1 DEF Ours
      <3>3. Ours'
        BY <1>0, <2>5, <3>2 DEF Ours
      <3> QED BY <1>0, <2>7, <3>3 DEF WInv, CheckpointHolds, Suspending, TurnHolds
    <2>15. SeenHolds'
      <3>1. rec' # rec /\ turn'.n = turn.n /\ hist'.given = hist.given
        BY <1>0, <2>5
      <3>2. \A c \in Client : Follows(c)
        BY <1>0 DEF Follows
      <3> QED BY <1>0, <2>5, <3>1, <3>2, SeenKept
    <2> QED BY <2>8, <2>9, <2>10, <2>11, <2>12, <2>13, <2>14, <2>15 DEF WInv
  <1>3. (CallTo(k, "bad") /\ UNCHANGED <<rec, log>>) \/ Cardinality(rec.reqs) < MaxRequest
    <2>1. Cardinality(rec.reqs) \in Nat
      BY <1>0, FS_CardinalityType
    <2>2. Cardinality(rec.reqs) >= MaxRequest => CallTo(k, "bad") /\ UNCHANGED <<rec, log>>
      BY DEF Enqueue
    <2> QED BY <2>1, <2>2, WaitAssumption
  <1>4. CASE Cardinality(rec.reqs) < MaxRequest
    <2>1. ~(Cardinality(rec.reqs) >= MaxRequest)
      BY <1>0, <1>4, FS_CardinalityType, WaitAssumption
    <2>2. /\ Commit([rec EXCEPT !.reqs = @ \cup {NewRequest(Len(log) + 1, a)}])
          /\ log' = Append(log, NewEntry(turn.n))
          /\ CallTo(k, IF a = External THEN "over" ELSE "stop")
      BY <2>1 DEF Enqueue, NewRequest, NewEntry
    <2> QED BY <1>2, <1>4, <2>2
  <1> QED BY <1>1, <1>3, <1>4

\* The tool runs: its approval is used, and no other call has it.
LEMMA RunToolHolds ==
  ASSUME WInv, NEW k \in Call, RunTool(k)
  PROVE  WInv'
  <1> PICK i : i = exec.calls[k].id
    OBVIOUS
  <1>0. /\ exec.pc = "tools" /\ exec.calls[k].at = "run" /\ UNCHANGED <<rec, lease, turn, client, hist>>
        /\ log \in Seq(Entries) /\ ClaimHolds(k) /\ i \in DOMAIN log /\ log[i] \in Entries /\ log[i].used \in Nat
        /\ DOMAIN log = 1..Len(log)
    <2>1. exec.pc = "tools" /\ exec.calls[k].at = "run" /\ UNCHANGED <<rec, lease, turn, client, hist>>
      BY DEF RunTool, Call_At
    <2>2. ClaimHolds(k) /\ i \in DOMAIN log
      BY <2>1 DEF WInv, CallsHold, ClaimHolds
    <2>3. log \in Seq(Entries) /\ DOMAIN log = 1..Len(log)
      BY DEF WInv, WaitTyped
    <2>4. log[i] \in Entries
      BY <2>2, <2>3
    <2>5. log[i].used \in Nat
      BY <2>4 DEF Entries
    <2> QED BY <2>1, <2>2, <2>3, <2>4, <2>5
  <1>1. /\ exec' \in Runs /\ exec'.pc = "tools" /\ exec'.resume = exec.resume /\ exec'.receipt = exec.receipt
        /\ \A j \in Call : j # k => exec'.calls[j] = exec.calls[j]
        /\ exec'.calls[k].at = "over"
    <2>1. exec' = [exec EXCEPT !.calls[k].at = "over"]
      BY DEF RunTool, CallTo
    <2>2. PICK call : call = [exec.calls[k] EXCEPT !.at = "over"]
      OBVIOUS
    <2>3. call \in Claims /\ call.at = "over"
      BY <2>2, RunBounds DEF Runs, Claims
    <2>4. exec' = [exec EXCEPT !.calls = [exec.calls EXCEPT ![k] = call]]
      BY <2>1, <2>2, RunBounds DEF Runs
    <2> QED BY <1>0, <2>3, <2>4, RunBounds DEF Runs
  <1> PICK n \in Nat : n = log[i].used + 1
    BY <1>0
  <1> PICK e : e = [log[i] EXCEPT !.used = n]
    OBVIOUS
  <1>2. e \in Entries /\ e.turn = log[i].turn /\ e.answer = log[i].answer /\ e.told = log[i].told
    BY <1>0 DEF Entries
  <1>3. log' = [log EXCEPT ![i] = e]
    BY DEF RunTool
  <1>4. log' \in Seq(Entries) /\ DOMAIN log' = DOMAIN log /\ log'[i] = e /\ \A j \in DOMAIN log : j # i => log'[j] = log[j]
    BY <1>0, <1>2, <1>3, ExceptSeq
  <1>5. \A q \in rec.reqs \cup rec.grants : q.id # i
    BY <1>0 DEF ClaimHolds
  <1>6. WaitTyped' /\ RecordHolds'
    BY <1>0, <1>1, <1>4 DEF WInv, WaitTyped, RecordHolds
  <1>7. LogHolds'
    <2>1. \A q \in rec.reqs \cup rec.grants : q.id \in DOMAIN log /\ log'[q.id] = log[q.id]
      BY <1>4, <1>5 DEF WInv, LogHolds
    <2>2. ASSUME NEW j \in DOMAIN log PROVE log'[j].told <= 1 /\ (log'[j].told = 1 => HasAnswer(log'[j]))
      <3>1. log[j].told <= 1 /\ (log[j].told = 1 => HasAnswer(log[j]))
        BY <2>2 DEF WInv, LogHolds
      <3>2. HasAnswer(log[i]) => HasAnswer(e)
        BY <1>2 DEF HasAnswer
      <3>3. CASE j = i
        BY <1>2, <1>4, <3>1, <3>2, <3>3
      <3>4. CASE j # i
        BY <1>4, <3>1, <3>4
      <3> QED BY <3>3, <3>4
    <2> QED BY <1>0, <1>4, <2>1, <2>2 DEF WInv, LogHolds
  <1>8. CallsHold'
    <2>1. ASSUME NEW j \in Call, exec'.calls[j].at = "run" PROVE ClaimHolds(j)'
      <3>1. j # k /\ exec'.calls[j] = exec.calls[j] /\ ClaimHolds(j)
        BY <1>0, <1>1, <2>1 DEF WInv, CallsHold
      <3>2. exec.calls[j].id # i
        BY <1>0, <3>1 DEF ClaimHolds
      <3>3. \A l \in Call : exec'.calls[l].at = "run" /\ exec'.calls[l].id = exec'.calls[j].id => l = j
        BY <1>1, <3>1 DEF ClaimHolds
      <3> QED BY <1>0, <1>4, <3>1, <3>2, <3>3 DEF ClaimHolds
    <2> QED BY <2>1 DEF CallsHold
  <1>9. LeaseHolds' /\ WorkHolds'
    BY <1>0, <1>1 DEF WInv, LeaseHolds, WorkHolds, Working
  <1>10. TurnHolds'
    BY <1>0, <1>1 DEF WInv, TurnHolds
  <1>11. CheckpointHolds'
    <2>1. Ours'
      BY <1>0, <1>4, <1>5 DEF WInv, CheckpointHolds, Working, Ours, LogHolds
    <2> QED BY <1>0, <1>1, <2>1 DEF WInv, CheckpointHolds, Suspending, TurnHolds
  <1>12. SeenHolds'
    <2>1. turn.n \in Nat
      BY DEF WInv, WaitTyped, Rounds
    <2>2. \A c \in Client : Follows(c)
      BY <1>0 DEF Follows
    <2>3. (Working \/ Suspending)' => Working \/ Suspending
      BY <1>0, <1>1 DEF Working, Suspending
    <2> QED BY <1>0, <2>1, <2>2, <2>3, SeenKept
  <1> QED BY <1>6, <1>7, <1>8, <1>9, <1>10, <1>11, <1>12 DEF WInv

-----------------------------------------------------------------------------
(* The run ends, and its turn with it.                                     *)

\* What the run came to is committed, or the record stays as it is, unfinished.
LEMMA DriveEndsHolds ==
  ASSUME WInv, NEW stored \in BOOLEAN, DriveEnds(stored)
  PROVE  WInv'
  <1> PICK outcome \in {"suspended", "succeeded", "failed"} :
        outcome = IF Suspends \/ exec.outcome = "succeeded" THEN exec.outcome ELSE "failed"
    BY DEF Suspends
  <1>0. /\ exec.pc = "stop" /\ Working /\ UNCHANGED <<lease, turn, client, log>> /\ turn.n \in Nat
        /\ rec \in Snapshot /\ rec.rev \in Nat /\ IsFiniteSet(rec.reqs) /\ IsFiniteSet(rec.grants)
        /\ outcome \in Outcomes /\ rec.status = "running" /\ lease = "engine"
        /\ outcome = "suspended" => Suspends
        /\ Suspends => outcome = "suspended"
        /\ Suspends => rec.reqs # {}
        /\ Ours
    BY DEF DriveEnds, Working, WInv, WaitTyped, Rounds, Snapshot, Outcomes, WorkHolds, LeaseHolds, CheckpointHolds, Suspends
  <1>h. hist' = [hist EXCEPT !.dirty = ~stored \/ outcome = "failed"] /\ hist \in Past
    BY DEF DriveEnds, WInv, WaitTyped
  <1>g. hist' \in Past /\ hist'.given = hist.given /\ (hist'.dirty <=> ~stored \/ outcome = "failed")
    BY <1>h DEF Past
  <1>c. \A c \in Client : client[c].at \notin {"held", "reset"}
    BY <1>0, WaitAssumption DEF WInv, LeaseHolds
  <1>f. \A c \in Client : Follows(c)
    BY <1>0 DEF Follows
  <1>1. CASE stored
    <2> PICK r : r = AfterRun
      OBVIOUS
    <2>1. Commit(r) /\ EndWith(outcome, "out")
      BY <1>1 DEF DriveEnds
    <2>2. /\ r \in Snapshot
          /\ outcome = "suspended" => r.status = "waiting" /\ r.reqs = rec.reqs /\ r.grants = rec.grants
          /\ outcome = "succeeded" => r.status = "idle" /\ r.reqs = {} /\ r.grants = {}
          /\ outcome = "failed" => r.status = "interrupted" /\ r.reqs = rec.reqs /\ r.grants = rec.grants
      <3>1. CASE Suspends
        <4>1. r = [rec EXCEPT !.status = "waiting"] /\ outcome = "suspended"
          BY <1>0, <3>1 DEF AfterRun
        <4> QED BY <1>0, <4>1 DEF Snapshot
      <3>2. CASE ~Suspends /\ exec.outcome = "succeeded"
        <4>1. r = Blank /\ outcome = "succeeded"
          BY <3>2 DEF AfterRun
        <4> QED BY <4>1, NoRunTyped
      <3>3. CASE ~Suspends /\ exec.outcome # "succeeded"
        <4>1. r = [rec EXCEPT !.status = "interrupted"] /\ outcome = "failed"
          BY <3>3 DEF AfterRun
        <4> QED BY <1>0, <4>1 DEF Snapshot
      <3> QED BY <3>1, <3>2, <3>3
    <2>3. rec' \in Snapshot /\ rec'.rev = rec.rev + 1 /\ rec'.status = r.status /\ rec'.reqs = r.reqs /\ rec'.grants = r.grants
      BY <1>0, <2>1, <2>2, Committed
    <2>4. exec' \in Runs /\ exec'.pc = "out" /\ exec'.outcome = outcome /\ exec'.resume = 0 /\ exec'.receipt = 0
      BY <1>0, <2>1, RunBounds, Ended DEF Points
    <2>5. WaitTyped'
      BY <1>0, <1>g, <2>2, <2>3, <2>4, FS_EmptySet DEF WInv, WaitTyped
    <2>6. RecordHolds'
      <3>1. Cardinality(rec'.reqs) <= MaxRequest /\ Cardinality(rec'.grants) <= MaxRequest
        <4>1. (rec'.reqs = rec.reqs /\ rec'.grants = rec.grants) \/ (rec'.reqs = {} /\ rec'.grants = {})
          BY <2>2, <2>3
        <4>2. CASE rec'.reqs = rec.reqs /\ rec'.grants = rec.grants
          BY <4>2 DEF WInv, RecordHolds
        <4>3. CASE rec'.reqs = {} /\ rec'.grants = {}
          BY <4>3, FS_EmptySet, WaitAssumption
        <4> QED BY <4>1, <4>2, <4>3
      <3>2. /\ rec'.status = "idle" => rec'.reqs = {} /\ rec'.grants = {}
            /\ rec'.status = "waiting" => rec'.reqs # {}
        BY <1>0, <2>2, <2>3
      <3>3. rec'.rev # 0
        BY <1>0, <2>3
      <3> QED BY <3>1, <3>2, <3>3 DEF RecordHolds
    <2>7. LogHolds'
      <3>1. rec'.reqs \subseteq rec.reqs /\ rec'.grants \subseteq rec.grants /\ log' = log
        BY <1>0, <2>2, <2>3
      <3> QED BY <3>1 DEF WInv, LogHolds
    <2>8. CallsHold' /\ LeaseHolds'
      BY <1>0, <2>4 DEF WInv, CallsHold, LeaseHolds
    <2>9. WorkHolds'
      BY <1>1, <1>g, <2>2, <2>3, <2>4 DEF WorkHolds, Working
    <2>10. TurnHolds'
      BY <1>0, <1>g, <2>3, <2>4 DEF WInv, WaitTyped, TurnHolds, Rounds
    <2>11. CheckpointHolds'
      <3>1. outcome = "suspended" => rec'.status = "waiting" /\ Ours'
        BY <1>0, <2>2, <2>3 DEF Ours
      <3> QED BY <1>0, <2>4, <3>1 DEF WInv, CheckpointHolds, Working, Suspending, TurnHolds
    <2>12. SeenHolds'
      <3>1. rec' # rec
        BY <1>0, <2>3
      <3> QED BY <1>0, <1>f, <1>g, <2>3, <3>1, SeenKept
    <2> QED BY <2>5, <2>6, <2>7, <2>8, <2>9, <2>10, <2>11, <2>12 DEF WInv
  <1>2. CASE ~stored
    <2>1. UNCHANGED rec /\ EndWith("failed", "out")
      BY <1>2 DEF DriveEnds
    <2>2. exec' \in Runs /\ exec'.pc = "out" /\ exec'.outcome = "failed" /\ exec'.resume = 0 /\ exec'.receipt = 0
      BY <1>0, <2>1, RunBounds, Ended DEF Points, Outcomes
    <2>3. WaitTyped' /\ RecordHolds' /\ LogHolds'
      BY <1>0, <1>g, <2>1, <2>2, QuietTyped DEF WInv, WaitTyped
    <2>4. CallsHold' /\ LeaseHolds'
      BY <1>0, <2>2 DEF WInv, CallsHold, LeaseHolds
    <2>5. WorkHolds'
      BY <1>0, <1>2, <1>g, <2>1, <2>2 DEF WorkHolds, Working
    <2>6. TurnHolds'
      BY <1>0, <1>g, <2>1, <2>2 DEF WInv, WaitTyped, TurnHolds, Rounds
    <2>7. CheckpointHolds'
      BY <1>0, <2>2 DEF WInv, CheckpointHolds, Working, Suspending, TurnHolds
    <2>8. SeenHolds'
      BY <1>0, <1>f, <1>g, <2>1, SeenKept
    <2> QED BY <2>3, <2>4, <2>5, <2>6, <2>7, <2>8 DEF WInv
  <1> QED BY <1>1, <1>2

LEMMA CloseRunnerHolds ==
  ASSUME WInv, NEW clean \in BOOLEAN, CloseRunner(clean)
  PROVE  WInv'
  <1>0. /\ exec.pc = "out" /\ UNCHANGED <<rec, turn, client, log, hist>> /\ lease = "engine" /\ turn.n \in Nat
        /\ lease' = (IF clean THEN Nobody ELSE lease) /\ exec \in Runs /\ rec.rev \in Nat
    BY RunBounds DEF CloseRunner, WInv, WaitTyped, Rounds, LeaseHolds
  <1> PICK ok : ok = (clean /\ ~exec.cancelled)
    OBVIOUS
  <1> PICK outcome : outcome = IF ok THEN exec.outcome ELSE "failed"
    OBVIOUS
  <1> PICK receipt : receipt = IF ok /\ exec.outcome = "suspended" THEN rec.rev ELSE 0
    OBVIOUS
  <1>1. outcome \in Outcomes /\ receipt \in Nat /\ receipt <= rec.rev
        /\ (outcome = "suspended" => exec.outcome = "suspended")
    <2>1. exec.outcome \in Outcomes
      BY <1>0 DEF Runs
    <2>2. outcome \in Outcomes
      BY <2>1 DEF Outcomes
    <2> QED BY <1>0, <2>2
  <1>2. exec' = [exec EXCEPT !.pc = "closed", !.outcome = outcome, !.receipt = receipt]
    BY DEF CloseRunner
  <1>3. exec' \in Runs /\ exec'.pc = "closed" /\ exec'.outcome = outcome /\ exec'.receipt = receipt /\ exec'.resume = exec.resume
    BY <1>0, <1>1, <1>2 DEF Runs, Points
  <1>4. WaitTyped' /\ RecordHolds' /\ LogHolds'
    <2>1. lease' \in Client \cup {Nobody, "engine"}
      BY <1>0
    <2> QED BY <1>0, <1>3, <2>1, QuietTyped DEF WInv, WaitTyped
  <1>5. CallsHold' /\ LeaseHolds'
    BY <1>0, <1>3, WaitAssumption DEF WInv, CallsHold, LeaseHolds
  <1>6. WorkHolds' /\ TurnHolds'
    BY <1>0, <1>1, <1>3 DEF WInv, WorkHolds, Working, TurnHolds
  <1>7. CheckpointHolds'
    BY <1>0, <1>1, <1>3 DEF WInv, CheckpointHolds, Working, Suspending, Ours
  <1>8. SeenHolds'
    <2>1. \A c \in Client : Follows(c)
      BY <1>0 DEF Follows
    <2>2. (Working \/ Suspending)' => Working \/ Suspending
      BY <1>0, <1>1, <1>3 DEF Working, Suspending
    <2> QED BY <1>0, <2>1, <2>2, SeenKept
  <1> QED BY <1>4, <1>5, <1>6, <1>7, <1>8 DEF WInv

LEMMA RecordStepHolds ==
  ASSUME WInv, Record
  PROVE  WInv'
  <1>0. /\ exec.pc = "closed" /\ UNCHANGED <<rec, lease, client, log, hist>> /\ turn \in Rounds /\ turn.n \in Nat
        /\ turn.status = "running" /\ exec.receipt \in Nat /\ exec.receipt <= rec.rev
    BY DEF Record, WInv, WaitTyped, TurnHolds, Rounds, Runs
  <1>1. exec' \in Runs /\ exec'.pc = "recorded" /\ exec'.receipt = exec.receipt /\ exec'.resume = exec.resume
    BY Went, RunBounds DEF Record, Points
  <1> PICK attempt \in {"waiting", "done"} : attempt = IF exec.outcome = "suspended" THEN "waiting" ELSE "done"
    OBVIOUS
  <1>2. turn' = [turn EXCEPT !.attempt = attempt, !.receipt = exec.receipt]
    BY DEF Record
  <1>3. turn' \in Rounds /\ turn'.n = turn.n /\ turn'.status = turn.status /\ turn'.attempt = attempt
        /\ turn'.receipt = exec.receipt
    BY <1>0, <1>2 DEF Rounds
  <1>4. WaitTyped' /\ RecordHolds' /\ LogHolds'
    BY <1>0, <1>1, <1>3, QuietTyped DEF WInv, WaitTyped
  <1>5. CallsHold' /\ LeaseHolds' /\ WorkHolds'
    BY <1>0, <1>1 DEF WInv, CallsHold, LeaseHolds, WorkHolds, Working
  <1>6. TurnHolds'
    BY <1>0, <1>1, <1>3 DEF WInv, TurnHolds
  <1>7. CheckpointHolds'
    BY <1>0, <1>1, <1>3 DEF WInv, CheckpointHolds, Working, Suspending, Ours
  <1>8. SeenHolds'
    <2>1. \A c \in Client : Follows(c)
      BY <1>0 DEF Follows
    <2>2. (Working \/ Suspending)' => Working \/ Suspending
      BY <1>0, <1>1, <1>3 DEF Working, Suspending
    <2> QED BY <1>0, <1>3, <2>1, <2>2, SeenKept
  <1> QED BY <1>4, <1>5, <1>6, <1>7, <1>8 DEF WInv

LEMMA FinishRunHolds ==
  ASSUME WInv, FinishRun
  PROVE  WInv'
  <1>0. /\ exec.pc = "recorded" /\ UNCHANGED <<rec, lease, client, log, hist>> /\ turn \in Rounds /\ turn.n \in Nat
        /\ turn.attempt \in {"waiting", "done"} /\ exec' = NoRun /\ rec.rev \in Nat
    BY RunBounds DEF FinishRun, WInv, WaitTyped, TurnHolds, Rounds
  <1>1. turn' = [turn EXCEPT !.status = turn.attempt]
    BY DEF FinishRun
  <1>2. turn' \in Rounds /\ turn'.n = turn.n /\ turn'.status = turn.attempt /\ turn'.attempt = turn.attempt
        /\ turn'.receipt = turn.receipt
    BY <1>0, <1>1 DEF Rounds
  <1>3. WaitTyped' /\ RecordHolds' /\ LogHolds'
    BY <1>0, <1>2, NoRunTyped, QuietTyped DEF WInv, WaitTyped
  <1>4. CallsHold' /\ LeaseHolds' /\ WorkHolds'
    BY <1>0, NoRunTyped DEF WInv, CallsHold, LeaseHolds, WorkHolds, Working
  <1>5. TurnHolds'
    BY <1>0, <1>2, NoRunTyped DEF WInv, TurnHolds
  <1>6. CheckpointHolds'
    BY <1>0, <1>2, NoRunTyped DEF WInv, CheckpointHolds, Working, Suspending, Ours
  <1>7. SeenHolds'
    <2>1. \A c \in Client : Follows(c)
      BY <1>0 DEF Follows
    <2>2. ~(Working \/ Suspending)'
      BY <1>0, NoRunTyped DEF Working, Suspending
    <2> QED BY <1>0, <1>2, <2>1, <2>2, SeenKept
  <1> QED BY <1>3, <1>4, <1>5, <1>6, <1>7 DEF WInv

-----------------------------------------------------------------------------
(* The product service, time and crashes.                                  *)

\* A user looks, picks or steps back, and may give back its lease.
LEMMA UsersHold ==
  ASSUME WInv, UNCHANGED <<rec, turn, exec, log>>, hist' \in Past, hist'.given = hist.given, hist'.dirty <=> hist.dirty,
         client' \in [Client -> Users], \A c \in Client : Follows(c),
         lease' \in Client \cup {Nobody, "engine"}, LeaseHolds'
  PROVE  WInv'
  <1>0. exec \in Runs /\ turn \in Rounds /\ turn.n \in Nat
    BY DEF WInv, WaitTyped, Rounds
  <1>1. WaitTyped' /\ RecordHolds' /\ LogHolds'
    BY <1>0, QuietTyped
  <1>2. CallsHold' /\ WorkHolds'
    BY DEF WInv, CallsHold, ClaimHolds, WorkHolds, Working
  <1>3. TurnHolds' /\ CheckpointHolds'
    BY DEF WInv, TurnHolds, CheckpointHolds, Working, Suspending, Ours
  <1>4. SeenHolds'
    BY <1>0, SeenKept DEF Working, Suspending
  <1> QED BY <1>1, <1>2, <1>3, <1>4 DEF WInv

\* A user leaves, with or without the lease.
LEMMA LeavesKeeps ==
  ASSUME WInv, NEW c \in Client, Leaves(c), ReturnLease(c) \/ UNCHANGED lease, client[c].at \notin {"held", "reset"} \/ ReturnLease(c)
  PROVE  /\ client' \in [Client -> Users] /\ client'[c].at = "idle"
         /\ \A d \in Client : d # c => client'[d] = client[d]
         /\ \A d \in Client : Follows(d)
         /\ lease' \in Client \cup {Nobody, "engine"}
         /\ exec'.pc = exec.pc => LeaseHolds'
  <1>0. client \in [Client -> Users] /\ lease \in Client \cup {Nobody, "engine"}
    BY DEF WInv, WaitTyped
  <1>1. /\ client' \in [Client -> Users] /\ client'[c].at = "idle"
        /\ \A d \in Client : d # c => client'[d] = client[d]
    BY <1>0, NoRunTyped DEF Leaves
  <1>2. \A d \in Client : Follows(d)
    BY <1>1 DEF Follows
  <1>3. lease' \in Client \cup {Nobody, "engine"} /\ (lease # c => lease' = lease)
    BY <1>0 DEF ReturnLease
  <1>4. ASSUME exec'.pc = exec.pc PROVE LeaseHolds'
    <2>1. lease = "engine" => lease' = "engine"
      BY <1>3, WaitAssumption
    <2>2. ASSUME NEW d \in Client, client'[d].at \in {"held", "reset"} PROVE lease' = d
      <3>1. d # c /\ client'[d] = client[d]
        BY <1>1, <2>2
      <3> QED BY <1>3, <2>2, <3>1 DEF WInv, LeaseHolds
    <2> QED BY <1>4, <2>1, <2>2 DEF WInv, LeaseHolds
  <1> QED BY <1>1, <1>2, <1>3, <1>4

LEMMA ShowWaitHolds ==
  ASSUME WInv, NEW c \in Client, ShowWait(c)
  PROVE  WInv'
  <1>0. /\ client \in [Client -> Users] /\ rec \in Snapshot /\ rec.rev \in Nat /\ turn.n \in Nat /\ turn \in Rounds
        /\ exec \in Runs /\ exec.pc = "off" /\ UNCHANGED <<rec, lease, turn, exec, log, hist>>
        /\ lease \in Client \cup {Nobody, "engine"} /\ hist \in Past
    BY DEF ShowWait, WInv, WaitTyped, Snapshot, Rounds
  <1> PICK u : u = [Away EXCEPT !.at = "shown", !.seen = rec, !.n = turn.n]
    OBVIOUS
  <1>1. u \in Users /\ u.at = "shown" /\ u.seen = rec /\ u.n = turn.n
    BY <1>0, NoRunTyped DEF Users
  <1>2. client' = [client EXCEPT ![c] = u]
    BY DEF ShowWait
  <1>3. client' \in [Client -> Users] /\ client'[c] = u /\ \A d \in Client : d # c => client'[d] = client[d]
    BY <1>0, <1>1, <1>2
  <1>4. WaitTyped' /\ RecordHolds' /\ LogHolds'
    BY <1>0, <1>3, QuietTyped
  <1>5. CallsHold' /\ LeaseHolds' /\ WorkHolds'
    BY <1>0, <1>1, <1>3 DEF WInv, CallsHold, LeaseHolds, WorkHolds, Working
  <1>6. TurnHolds' /\ CheckpointHolds'
    BY <1>0 DEF WInv, TurnHolds, CheckpointHolds, Working, Suspending, Ours
  <1>7. SeenHolds'
    <2>0. ~(Working \/ Suspending)'
      BY <1>0 DEF Working, Suspending
    <2>1. SeenHold(c)'
      BY <1>0, <1>1, <1>3, <2>0 DEF SeenHold
    <2>2. ASSUME NEW d \in Client, d # c PROVE SeenHold(d)'
      BY <1>0, <1>3, <2>0, <2>2 DEF WInv, SeenHolds, SeenHold
    <2> QED BY <2>1, <2>2 DEF SeenHolds
  <1> QED BY <1>4, <1>5, <1>6, <1>7 DEF WInv

LEMMA PickHolds ==
  ASSUME WInv, NEW c \in Client, NEW kind \in {"resolve", "abandon"}, Pick(c, kind)
  PROVE  WInv'
  <1>0. /\ client \in [Client -> Users] /\ client[c] \in Users /\ client[c].at = "shown"
        /\ UNCHANGED <<rec, lease, turn, exec, log, hist>> /\ hist \in Past /\ lease \in Client \cup {Nobody, "engine"}
    BY DEF Pick, Serves, WInv, WaitTyped
  <1> PICK u : u = [client[c] EXCEPT !.at = "picked", !.kind = kind]
    OBVIOUS
  <1>1. u \in Users /\ u.at = "picked" /\ u.seen = client[c].seen /\ u.n = client[c].n
    BY <1>0 DEF Users
  <1>2. client' = [client EXCEPT ![c] = u]
    BY <1>0 DEF Pick
  <1>3. client' \in [Client -> Users] /\ client'[c] = u /\ \A d \in Client : d # c => client'[d] = client[d]
    BY <1>0, <1>1, <1>2
  <1>4. \A d \in Client : Follows(d)
    BY <1>0, <1>1, <1>3 DEF Follows
  <1>5. LeaseHolds'
    BY <1>0, <1>1, <1>3 DEF WInv, LeaseHolds
  <1> QED BY <1>0, <1>3, <1>4, <1>5, UsersHold

LEMMA ClaimStepHolds ==
  ASSUME WInv, NEW c \in Client, Claim(c)
  PROVE  WInv'
  <1>0. /\ client \in [Client -> Users] /\ client[c] \in Users /\ client[c].at = "picked" /\ lease = Nobody /\ lease' = c
        /\ UNCHANGED <<rec, turn, exec, log, hist>> /\ hist \in Past
    BY DEF Claim, WInv, WaitTyped
  <1> PICK u : u = [client[c] EXCEPT !.at = "held"]
    OBVIOUS
  <1>1. u \in Users /\ u.at = "held" /\ u.seen = client[c].seen /\ u.n = client[c].n
    BY <1>0 DEF Users
  <1>2. client' = [client EXCEPT ![c] = u]
    BY <1>0 DEF Claim
  <1>3. client' \in [Client -> Users] /\ client'[c] = u /\ \A d \in Client : d # c => client'[d] = client[d]
    BY <1>0, <1>1, <1>2
  <1>4. \A d \in Client : Follows(d)
    BY <1>0, <1>1, <1>3 DEF Follows
  <1>5. LeaseHolds'
    BY <1>0, <1>3, WaitAssumption DEF WInv, LeaseHolds, Nobody
  <1> QED BY <1>0, <1>3, <1>4, <1>5, UsersHold

LEMMA StepBackHolds ==
  ASSUME WInv, NEW c \in Client, StepBack(c)
  PROVE  WInv'
  <1>1. /\ Leaves(c) /\ ReturnLease(c) /\ UNCHANGED <<rec, turn, exec, log, hist>> /\ hist \in Past
    BY DEF StepBack, WInv, WaitTyped
  <1> QED BY <1>1, LeavesKeeps, UsersHold

LEMMA AbandonFailsHolds ==
  ASSUME WInv, NEW c \in Client, AbandonFails(c)
  PROVE  WInv'
  <1>1. /\ Leaves(c) /\ ReturnLease(c) /\ UNCHANGED <<rec, turn, exec, log>> /\ hist \in Past
        /\ hist' = [hist EXCEPT !.faults = @ + 1]
    BY DEF AbandonFails, WInv, WaitTyped
  <1>2. hist.faults \in Nat
    BY <1>1 DEF Past
  <1> PICK n \in Nat : n = hist.faults + 1
    BY <1>2
  <1>3. hist' = [hist EXCEPT !.faults = n]
    BY <1>1
  <1>4. hist' \in Past /\ hist'.given = hist.given /\ (hist'.dirty <=> hist.dirty)
    BY <1>1, <1>3 DEF Past
  <1> QED BY <1>1, <1>4, LeavesKeeps, UsersHold

LEMMA ExpireHolds ==
  ASSUME WInv, NEW i, Expire(i)
  PROVE  WInv'
  <1>1. UNCHANGED <<rec, lease, turn, exec, client, log, hist>> /\ hist \in Past /\ client \in [Client -> Users]
        /\ lease \in Client \cup {Nobody, "engine"}
    BY DEF Expire, WInv, WaitTyped
  <1>2. (\A c \in Client : Follows(c)) /\ LeaseHolds'
    BY <1>1 DEF Follows, WInv, LeaseHolds
  <1> QED BY <1>1, <1>2, UsersHold

\* Who holds the lease with what it saw: no run is between opening and closing,
\* and none has suspended since.
LEMMA HoldersAreFresh ==
  ASSUME WInv, NEW c \in Client, client[c].at \in {"held", "reset"}
  PROVE  /\ lease = c /\ exec.pc \notin {"drive", "model", "tools", "stop", "out"} /\ ~Working
         /\ Fresh(c) => ~Suspending /\ rec = client[c].seen
         /\ \A d \in Client : client[d].at \in {"held", "reset"} => d = c
  <1>1. lease = c /\ c # "engine"
    BY WaitAssumption DEF WInv, LeaseHolds
  <1>2. exec.pc \notin {"drive", "model", "tools", "stop", "out"} /\ ~Working
    BY <1>1 DEF WInv, LeaseHolds, Working
  <1>3. ASSUME Fresh(c) PROVE ~Suspending /\ rec = client[c].seen
    <2>1. rec.rev \in Nat /\ client[c].seen.rev = rec.rev
      BY <1>3 DEF Fresh, WInv, WaitTyped, Snapshot
    <2>2. SeenHold(c) /\ client[c].at # "idle"
      BY DEF WInv, SeenHolds
    <2>3. Working \/ Suspending => client[c].seen.rev < rec.rev
      BY <2>2 DEF SeenHold
    <2>4. ~Suspending
      BY <2>1, <2>3
    <2> QED BY <2>1, <2>2, <2>4 DEF SeenHold
  <1>4. \A d \in Client : client[d].at \in {"held", "reset"} => d = c
    BY <1>1 DEF WInv, LeaseHolds
  <1> QED BY <1>1, <1>2, <1>3, <1>4

LEMMA ResolveHolds ==
  ASSUME WInv, NEW c \in Client, NEW q \in rec.reqs, NEW answer \in {"yes", "no"}, Resolve(c, q, answer)
  PROVE  WInv'
  <1>0. /\ rec \in Snapshot /\ rec.rev \in Nat /\ rec.reqs \subseteq Req /\ IsFiniteSet(rec.reqs) /\ q \in Req
        /\ UNCHANGED <<turn, exec, hist>> /\ turn.n \in Nat /\ rec.status = "waiting"
        /\ client[c].at = "held" /\ Fresh(c) /\ Leaves(c) /\ ReturnLease(c)
        /\ log \in Seq(Entries) /\ q.id \in DOMAIN log /\ log[q.id].answer = q.answer /\ log[q.id].used = 0
        /\ log[q.id].told = 0
    BY DEF Resolve, Holds, WInv, WaitTyped, Snapshot, Rounds, LogHolds
  <1>h. ~Working /\ ~Suspending /\ exec.pc \notin {"drive", "model", "tools", "stop", "out"}
    BY <1>0, HoldersAreFresh
  <1> PICK q2 : q2 = [q EXCEPT !.answer = answer]
    OBVIOUS
  <1>1. q2 \in Req /\ q2.id = q.id /\ q2.answer = answer
    BY <1>0 DEF Req
  <1> PICK reqs : reqs = (rec.reqs \ {q}) \cup {q2}
    OBVIOUS
  <1>2. /\ reqs \subseteq Req /\ IsFiniteSet(reqs) /\ Cardinality(reqs) <= Cardinality(rec.reqs)
        /\ Cardinality(reqs) \in Nat /\ Cardinality(rec.reqs) \in Nat /\ q2 \in reqs
        /\ \A p \in reqs : p = q2 \/ (p \in rec.reqs /\ p # q)
    BY <1>0, <1>1, CardSwap, FS_CardinalityType
  <1> PICK r : r = [rec EXCEPT !.reqs = reqs]
    OBVIOUS
  <1>3. r \in Snapshot /\ r.status = rec.status /\ r.reqs = reqs /\ r.grants = rec.grants /\ Commit(r)
    <2>1. r \in Snapshot /\ r.status = rec.status /\ r.reqs = reqs /\ r.grants = rec.grants
      BY <1>0, <1>2 DEF Snapshot
    <2> QED BY <2>1 DEF Resolve
  <1>4. /\ rec' \in Snapshot /\ rec'.rev = rec.rev + 1 /\ rec'.status = rec.status
        /\ rec'.reqs = reqs /\ rec'.grants = rec.grants
    BY <1>0, <1>3, Committed
  <1> PICK i : i = q.id
    OBVIOUS
  <1> PICK e : e = [log[i] EXCEPT !.answer = answer]
    OBVIOUS
  <1>5. e \in Entries /\ e.turn = log[i].turn /\ e.answer = answer /\ e.told = 0 /\ e.used = 0
    <2>1. log[i] \in Entries
      BY <1>0
    <2> QED BY <1>0, <2>1 DEF Entries
  <1>6. log' \in Seq(Entries) /\ DOMAIN log' = DOMAIN log /\ log'[i] = e /\ \A j \in DOMAIN log : j # i => log'[j] = log[j]
    <2>1. log' = [log EXCEPT ![i] = e]
      BY DEF Resolve
    <2>2. DOMAIN log = 1..Len(log)
      BY <1>0
    <2> QED BY <1>0, <1>5, <2>1, <2>2, ExceptSeq
  <1>l. /\ client' \in [Client -> Users] /\ (\A d \in Client : Follows(d)) /\ lease' \in Client \cup {Nobody, "engine"}
        /\ LeaseHolds'
    BY <1>0, LeavesKeeps
  <1>7. WaitTyped'
    BY <1>0, <1>2, <1>4, <1>6, <1>l DEF WInv, WaitTyped
  <1>8. RecordHolds'
    <2>1. Cardinality(reqs) <= MaxRequest
      BY <1>2, WaitAssumption DEF WInv, RecordHolds
    <2>2. reqs # {}
      BY <1>2
    <2>3. rec'.rev # 0
      BY <1>0, <1>4
    <2> QED BY <1>0, <1>4, <2>1, <2>2, <2>3 DEF WInv, RecordHolds
  <1>o. \A p \in rec.reqs \cup rec.grants : p # q => p.id # i
    BY DEF WInv, LogHolds
  <1>g. q \notin rec.grants
    BY Apart
  <1>9. LogHolds'
    <2>1. ASSUME NEW p \in reqs \cup rec.grants
          PROVE  p.id \in DOMAIN log' /\ log'[p.id].answer = p.answer /\ log'[p.id].used = 0
      <3>1. CASE p = q2
        BY <1>0, <1>1, <1>5, <1>6, <3>1
      <3>2. CASE p # q2
        <4>1. p \in rec.reqs \cup rec.grants /\ p # q
          BY <1>2, <1>g, <2>1, <3>2
        <4>2. p.id \in DOMAIN log /\ log'[p.id] = log[p.id]
          BY <1>6, <1>o, <4>1 DEF WInv, LogHolds
        <4> QED BY <1>6, <4>1, <4>2 DEF WInv, LogHolds
      <3> QED BY <3>1, <3>2
    <2>2. ASSUME NEW p \in reqs PROVE log'[p.id].told = 0
      <3>1. CASE p = q2
        BY <1>1, <1>5, <1>6, <3>1
      <3>2. CASE p # q2
        <4>1. p \in rec.reqs /\ p # q
          BY <1>2, <3>2
        <4>2. p.id \in DOMAIN log /\ log'[p.id] = log[p.id]
          BY <1>6, <1>o, <4>1 DEF WInv, LogHolds
        <4> QED BY <4>1, <4>2 DEF WInv, LogHolds
      <3> QED BY <3>1, <3>2
    <2>3. ASSUME NEW p \in rec.grants PROVE log'[p.id].told = 1
      <3>1. p.id \in DOMAIN log /\ log'[p.id] = log[p.id]
        BY <1>6, <1>o, <1>g DEF WInv, LogHolds
      <3> QED BY <3>1 DEF WInv, LogHolds
    <2>4. ASSUME NEW j \in DOMAIN log PROVE log'[j].told <= 1 /\ (log'[j].told = 1 => HasAnswer(log'[j]))
      <3>1. CASE j = i
        <4>1. log'[j].told = 0
          BY <1>5, <1>6, <3>1
        <4> QED BY <4>1
      <3>2. CASE j # i
        <4>1. log'[j] = log[j]
          BY <1>6, <3>2
        <4>2. log[j].told <= 1 /\ (log[j].told = 1 => HasAnswer(log[j]))
          BY DEF WInv, LogHolds
        <4> QED BY <4>1, <4>2
      <3> QED BY <3>1, <3>2
    <2>5. ASSUME NEW p \in reqs \cup rec.grants, NEW s \in reqs \cup rec.grants, p.id = s.id PROVE p = s
      <3>1. p = q2 \/ (p \in rec.reqs \cup rec.grants /\ p # q)
        BY <1>2, <1>g, <2>5
      <3>2. s = q2 \/ (s \in rec.reqs \cup rec.grants /\ s # q)
        BY <1>2, <1>g, <2>5
      <3>3. p.id = s.id => p = s
        BY <1>1, <1>o, <3>1, <3>2 DEF WInv, LogHolds
      <3> QED BY <2>5, <3>3
    <2> QED BY <1>4, <1>6, <2>1, <2>2, <2>3, <2>4, <2>5 DEF LogHolds
  <1>10. CallsHold' /\ WorkHolds'
    BY <1>0, <1>4, <1>h DEF WInv, CallsHold, WorkHolds, Working
  <1>11. TurnHolds'
    BY <1>0, <1>4 DEF WInv, WaitTyped, TurnHolds, Rounds, Runs
  <1>12. CheckpointHolds'
    <2>1. ~(Working \/ Suspending)'
      BY <1>0, <1>h DEF Working, Suspending
    <2>2. rec'.rev # exec'.resume
      BY <1>0, <1>4, RunBounds DEF Runs
    <2>3. turn.status = "waiting" => Ours'
      <3>1. ASSUME turn.status = "waiting", NEW p \in reqs \cup rec.grants PROVE log'[p.id].turn = turn.n
        <4>1. Ours
          BY <1>0, <3>1 DEF WInv, CheckpointHolds
        <4>2. CASE p = q2
          BY <1>1, <1>5, <1>6, <4>1, <4>2 DEF Ours
        <4>3. CASE p # q2
          <5>1. p \in rec.reqs \cup rec.grants /\ p # q
            BY <1>2, <1>g, <3>1, <4>3
          <5>2. log'[p.id] = log[p.id]
            BY <1>6, <1>o, <5>1 DEF WInv, LogHolds
          <5> QED BY <4>1, <5>1, <5>2 DEF Ours
        <4> QED BY <4>2, <4>3
      <3> QED BY <1>0, <1>4, <3>1 DEF Ours
    <2> QED BY <1>0, <1>4, <2>1, <2>2, <2>3 DEF CheckpointHolds
  <1>13. SeenHolds'
    <2>1. rec' # rec
      BY <1>0, <1>4
    <2> QED BY <1>0, <1>4, <1>l, <2>1, SeenKept
  <1> QED BY <1>7, <1>8, <1>9, <1>10, <1>11, <1>12, <1>13, <1>l DEF WInv

\* The record is blank again, and the turn is noted as given up.
LEMMA ResetHolds ==
  ASSUME WInv, NEW c \in Client, Reset(c)
  PROVE  WInv'
  <1>0. /\ rec.rev \in Nat /\ UNCHANGED <<lease, turn, exec, log>> /\ turn.n \in Nat /\ turn \in Rounds
        /\ client[c].at = "held" /\ Fresh(c) /\ Commit(Blank) /\ client \in [Client -> Users] /\ client[c] \in Users
        /\ hist \in Past
    BY DEF Reset, Holds, WInv, WaitTyped, Snapshot, Rounds
  <1>h. ~Working /\ ~Suspending /\ exec.pc \notin {"drive", "model", "tools", "stop", "out"} /\ lease = c
    BY <1>0, HoldersAreFresh
  <1>1. rec' \in Snapshot /\ rec'.rev = rec.rev + 1 /\ rec'.status = "idle" /\ rec'.reqs = {} /\ rec'.grants = {}
    BY <1>0, NoRunTyped, Committed
  <1> PICK u : u = [client[c] EXCEPT !.at = "reset"]
    OBVIOUS
  <1>2. u \in Users /\ u.at = "reset" /\ u.seen = client[c].seen /\ u.n = client[c].n
    BY <1>0 DEF Users
  <1>3. client' = [client EXCEPT ![c] = u]
    BY <1>0 DEF Reset
  <1>4. client' \in [Client -> Users] /\ client'[c] = u /\ \A d \in Client : d # c => client'[d] = client[d]
    BY <1>0, <1>2, <1>3
  <1> PICK given \in SUBSET Nat : given = hist.given \cup {turn.n}
    BY <1>0 DEF Past
  <1>5. hist' = [hist EXCEPT !.dirty = FALSE, !.given = given]
    BY DEF Reset
  <1>6. hist' \in Past /\ ~hist'.dirty /\ hist'.given = given /\ turn.n \in given /\ hist.given \subseteq given
    BY <1>0, <1>5 DEF Past
  <1>7. WaitTyped'
    BY <1>0, <1>1, <1>4, <1>6, FS_EmptySet DEF WInv, WaitTyped
  <1>8. RecordHolds'
    BY <1>1, FS_EmptySet, WaitAssumption DEF RecordHolds
  <1>9. LogHolds'
    BY <1>0, <1>1 DEF WInv, LogHolds
  <1>10. CallsHold' /\ WorkHolds'
    BY <1>0, <1>1, <1>6, <1>h DEF CallsHold, WorkHolds, Working
  <1>11. LeaseHolds'
    BY <1>0, <1>4, <1>h DEF WInv, LeaseHolds
  <1>12. TurnHolds'
    BY <1>0, <1>1, <1>6 DEF WInv, WaitTyped, TurnHolds, Rounds, Runs
  <1>13. CheckpointHolds'
    BY <1>0, <1>1, <1>6, <1>h DEF CheckpointHolds, Working, Suspending
  <1>14. SeenHolds'
    <2>1. ASSUME NEW d \in Client, client'[d].at # "idle" PROVE SeenHold(d)'
      <3>1. client[d].at # "idle" /\ client'[d].seen = client[d].seen /\ client'[d].n = client[d].n
        BY <1>0, <1>2, <1>4, <2>1
      <3>2. /\ client[d].seen.rev \in Nat /\ client[d].seen.rev <= rec.rev /\ client[d].n <= turn.n
        BY <3>1 DEF WInv, WaitTyped, Users, Snapshot, SeenHolds, SeenHold
      <3>3. client[d].seen.rev < rec'.rev
        BY <1>0, <1>1, <3>2
      <3>4. client[d].seen.rev <= rec'.rev /\ client[d].seen.rev # rec'.rev
        BY <1>0, <1>1, <3>2
      <3> QED BY <1>0, <1>6, <3>1, <3>2, <3>3, <3>4 DEF SeenHold
    <2> QED BY <2>1 DEF SeenHolds, SeenHold
  <1> QED BY <1>7, <1>8, <1>9, <1>10, <1>11, <1>12, <1>13, <1>14 DEF WInv

LEMMA AbandonTurnHolds ==
  ASSUME WInv, NEW c \in Client, AbandonTurn(c)
  PROVE  WInv'
  <1>0. /\ client[c].at = "reset" /\ Leaves(c) /\ ReturnLease(c) /\ UNCHANGED <<rec, exec, log, hist>>
        /\ turn \in Rounds /\ turn.n \in Nat /\ hist \in Past /\ exec \in Runs
    BY DEF AbandonTurn, WInv, WaitTyped, Rounds
  <1>1. CASE ~(turn.n = client[c].n /\ turn.status = "waiting")
    <2>1. turn' = turn
      BY <1>1 DEF AbandonTurn
    <2> QED BY <1>0, <2>1, LeavesKeeps, UsersHold
  <1>2. CASE turn.n = client[c].n /\ turn.status = "waiting"
    <2>1. turn' = [turn EXCEPT !.status = "done"]
      BY <1>2 DEF AbandonTurn
    <2>2. turn' \in Rounds /\ turn'.n = turn.n /\ turn'.status = "done" /\ turn'.attempt = turn.attempt
          /\ turn'.receipt = turn.receipt
      BY <1>0, <2>1 DEF Rounds
    <2>3. turn.n \in hist.given
      BY <1>0, <1>2 DEF WInv, SeenHolds, SeenHold
    <2>4. /\ client' \in [Client -> Users] /\ (\A d \in Client : Follows(d)) /\ lease' \in Client \cup {Nobody, "engine"}
          /\ LeaseHolds'
      BY <1>0, LeavesKeeps
    <2>5. WaitTyped' /\ RecordHolds' /\ LogHolds'
      BY <1>0, <2>2, <2>4, QuietTyped
    <2>6. exec.pc = "off" /\ exec'.pc = "off"
      BY <1>0, <1>2 DEF WInv, TurnHolds
    <2>7. CallsHold' /\ WorkHolds'
      BY <1>0, <2>6 DEF WInv, CallsHold, WorkHolds, Working
    <2>8. TurnHolds'
      BY <1>0, <2>2, <2>3, <2>6 DEF WInv, TurnHolds
    <2>9. CheckpointHolds'
      BY <2>2, <2>6 DEF CheckpointHolds, Working, Suspending
    <2>10. SeenHolds'
      BY <1>0, <2>2, <2>4, <2>6, SeenKept DEF Working, Suspending
    <2> QED BY <2>4, <2>5, <2>7, <2>8, <2>9, <2>10 DEF WInv
  <1> QED BY <1>1, <1>2

\* The same turn runs again, on the record its user saw.
LEMMA ResumeHolds ==
  ASSUME WInv, NEW c \in Client, ResumeWait(c)
  PROVE  WInv'
  <1>0. /\ client[c].at = "shown" /\ client[c] \in Users /\ client[c].seen.rev \in Nat /\ client[c].seen.rev = rec.rev
        /\ exec.pc = "off" /\ turn.status = "waiting" /\ Leaves(c) /\ UNCHANGED <<rec, lease, log, hist>>
        /\ turn \in Rounds /\ turn.n \in Nat /\ hist \in Past /\ rec.rev \in Nat
    BY DEF ResumeWait, Serves, Target, Fresh, WInv, WaitTyped, Rounds, Users, Snapshot
  <1> PICK rev \in Nat : rev = client[c].seen.rev
    BY <1>0
  <1>1. turn' = [turn EXCEPT !.status = "running", !.attempt = "running"] /\ exec' = [NoRun EXCEPT !.pc = "open", !.resume = rev]
    BY DEF ResumeWait
  <1>2. turn' \in Rounds /\ turn'.n = turn.n /\ turn'.status = "running" /\ turn'.attempt = "running"
        /\ turn'.receipt = turn.receipt
    BY <1>0, <1>1 DEF Rounds
  <1>3. exec' \in Runs /\ exec'.pc = "open" /\ exec'.resume = rev /\ exec'.receipt = 0
    BY <1>1, NoRunTyped DEF Runs, Points
  <1>4. /\ client' \in [Client -> Users] /\ (\A d \in Client : Follows(d)) /\ lease' \in Client \cup {Nobody, "engine"}
        /\ \A d \in Client : client'[d].at \in {"held", "reset"} => client'[d] = client[d]
    BY <1>0, LeavesKeeps
  <1>5. WaitTyped' /\ RecordHolds' /\ LogHolds'
    BY <1>0, <1>2, <1>3, <1>4, QuietTyped
  <1>6. CallsHold' /\ WorkHolds' /\ LeaseHolds'
    BY <1>0, <1>3, <1>4 DEF WInv, CallsHold, WorkHolds, Working, LeaseHolds
  <1>7. TurnHolds'
    BY <1>0, <1>2, <1>3 DEF WInv, TurnHolds
  <1>8. CheckpointHolds'
    <2>1. rec.status = "waiting" => Ours'
      BY <1>0, <1>2 DEF WInv, CheckpointHolds, Ours
    <2> QED BY <1>0, <1>2, <1>3, <2>1 DEF CheckpointHolds, Working, Suspending
  <1>9. SeenHolds'
    BY <1>0, <1>2, <1>3, <1>4, SeenKept DEF Working, Suspending
  <1> QED BY <1>5, <1>6, <1>7, <1>8, <1>9 DEF WInv

\* A turn that was recorded as waiting waits on; any other live turn is over.
LEMMA CrashHolds ==
  ASSUME WInv, Crash
  PROVE  WInv'
  <1>0. /\ UNCHANGED <<rec, log>> /\ lease' = Nobody /\ exec' = NoRun /\ client' = [c \in Client |-> Away]
        /\ turn \in Rounds /\ turn.n \in Nat /\ hist \in Past /\ rec.rev \in Nat
    BY DEF Crash, WInv, WaitTyped, Rounds, Snapshot
  <1> PICK status \in {"none", "waiting", "done"} : status = RecoveredTurn
    BY <1>0 DEF RecoveredTurn, Rounds
  <1>1. /\ turn.status = "none" => status = "none"
        /\ status = "none" => turn.status = "none"
        /\ status = "waiting" => turn.attempt = "waiting" /\ (turn.status = "waiting" \/ Suspending)
        /\ status = "done" /\ turn.attempt = "waiting" => turn.n \in hist.given
    BY DEF RecoveredTurn, WInv, TurnHolds, Suspending
  <1>2. turn' = [turn EXCEPT !.status = status]
    BY DEF Crash
  <1>3. turn' \in Rounds /\ turn'.n = turn.n /\ turn'.status = status /\ turn'.attempt = turn.attempt
        /\ turn'.receipt = turn.receipt
    BY <1>0, <1>2 DEF Rounds
  <1> PICK faults \in Nat : faults = hist.faults + 1
    <2>1. hist.faults \in Nat
      BY <1>0 DEF Past
    <2> QED BY <2>1
  <1>4. hist' \in Past /\ hist'.given = hist.given /\ (hist'.dirty <=> hist.dirty \/ Working)
    <2>1. hist' = [hist EXCEPT !.faults = hist.faults + 1, !.dirty = hist.dirty \/ Working]
      BY DEF Crash, Working
    <2>2. hist' = [hist EXCEPT !.faults = faults, !.dirty = hist.dirty \/ Working]
      BY <2>1
    <2> QED BY <1>0, <2>2 DEF Past
  <1>5. client' \in [Client -> Users] /\ \A c \in Client : client'[c].at = "idle" /\ Follows(c)
    BY <1>0, NoRunTyped DEF Follows
  <1>6. WaitTyped' /\ RecordHolds' /\ LogHolds'
    BY <1>0, <1>3, <1>4, <1>5, NoRunTyped, QuietTyped
  <1>7. CallsHold' /\ LeaseHolds' /\ ~Working'
    BY <1>0, <1>5, NoRunTyped DEF CallsHold, LeaseHolds, Working
  <1>8. WorkHolds'
    BY <1>0, <1>4, <1>7 DEF WInv, WorkHolds
  <1>9. TurnHolds'
    BY <1>0, <1>1, <1>3, <1>4, NoRunTyped DEF WInv, TurnHolds
  <1>10. CheckpointHolds'
    BY <1>0, <1>1, <1>3, <1>4, <1>7, NoRunTyped DEF WInv, CheckpointHolds, Suspending, Ours
  <1>11. SeenHolds'
    BY <1>5 DEF SeenHolds, SeenHold
  <1> QED BY <1>6, <1>7, <1>8, <1>9, <1>10, <1>11 DEF WInv

-----------------------------------------------------------------------------
(* Every step of durable waits.                                            *)

LEMMA EngineHolds ==
  ASSUME WInv, Engine
  PROVE  WInv'
  <1>1. CASE Open \/ Drive \/ Yield \/ Finish \/ Settle \/ Abort \/ CancelRun \/ Record \/ FinishRun
    BY <1>1, OpenHolds, DriveHolds, WorkStepsHold, CancelHolds, RecordStepHolds, FinishRunHolds
  <1>2. CASE \E f \in [Call -> Gated \cup {External, "none"}] : CallTools(f)
    BY <1>2, CallToolsHolds
  <1>3. CASE \E k \in Call : Consume(k) \/ Enqueue(k) \/ RunTool(k)
    BY <1>3, ConsumeHolds, EnqueueHolds, RunToolHolds
  <1>4. CASE \E ok \in BOOLEAN : DriveEnds(ok)
    BY <1>4, DriveEndsHolds
  <1>5. CASE \E clean \in {TRUE} \cup (IF "unclean" \in Extras THEN {FALSE} ELSE {}) : CloseRunner(clean)
    BY <1>5, CloseRunnerHolds
  <1> QED BY <1>1, <1>2, <1>3, <1>4, <1>5 DEF Engine

LEMMA ServiceHolds ==
  ASSUME WInv, NEW c \in Client, Service(c)
  PROVE  WInv'
  BY ShowWaitHolds, ClaimStepHolds, StepBackHolds, ResetHolds, AbandonTurnHolds, AbandonFailsHolds, ResumeHolds, PickHolds,
     ResolveHolds DEF Service

LEMMA WaitStep ==
  ASSUME WInv, [WaitNext]_waitVars
  PROVE  WInv'
  <1>1. CASE UNCHANGED waitVars
    <2>1. (\A c \in Client : Follows(c)) /\ UNCHANGED <<rec, turn, exec, log, hist, lease, client>>
      BY <1>1 DEF waitVars, Follows
    <2>2. LeaseHolds' /\ hist \in Past /\ client \in [Client -> Users] /\ lease \in Client \cup {Nobody, "engine"}
      BY <2>1 DEF WInv, WaitTyped, LeaseHolds
    <2> QED BY <2>1, <2>2, UsersHold
  <1>2. CASE StartTurn \/ Engine \/ Crash
    BY <1>2, StartTurnHolds, EngineHolds, CrashHolds
  <1>3. ASSUME NEW c \in Client, Service(c) PROVE WInv'
    BY <1>3, ServiceHolds
  <1>4. ASSUME NEW i \in DOMAIN log, Expire(i) PROVE WInv'
    BY <1>4, ExpireHolds
  <1> QED BY <1>1, <1>2, <1>3, <1>4 DEF WaitNext

\* Record, log, leases, turn and run stay in order, and what users saw is the
\* record as it is or an older one.
THEOREM WaitInvariant == WaitSpec => []WInv
  BY WaitStarts, WaitStep, PTL DEF WaitSpec

LEMMA InOrderWaits == WInv => WaitTypeOK /\ DeliveredOnce /\ WaitsSurvive
  <1> SUFFICES ASSUME WInv PROVE WaitTypeOK /\ DeliveredOnce /\ WaitsSurvive
    OBVIOUS
  <1>0. rec \in Snapshot /\ turn \in Rounds
    BY DEF WInv, WaitTyped
  <1>1. WaitTypeOK
    <2>1. rec.rev \in Nat /\ rec.status \in {"idle", "running", "waiting", "interrupted"}
      BY <1>0 DEF Snapshot
    <2>2. turn.status \in {"none", "running", "waiting", "done"}
      BY <1>0 DEF Rounds
    <2> QED BY <2>1, <2>2 DEF WInv, WaitTyped, RecordHolds, WaitTypeOK
  <1>2. DeliveredOnce
    BY DEF DeliveredOnce, WInv, LogHolds, HasAnswer
  <1>3. WaitingHasCheckpoint
    BY <1>0 DEF WaitingHasCheckpoint, WInv, TurnHolds, CheckpointHolds, Rounds, Snapshot, WaitTyped
  <1>4. SuspensionSurvives
    <2>1. turn.status \in {"none", "running", "waiting", "done"}
      BY <1>0 DEF Rounds
    <2> QED BY <2>1 DEF SuspensionSurvives, WInv, TurnHolds
  <1>5. NothingGoesOnUnseen
    BY DEF NothingGoesOnUnseen, WInv, WorkHolds, Working
  <1> QED BY <1>1, <1>2, <1>3, <1>4, <1>5 DEF WaitsSurvive

\* For any number of users, calls and requests: a turn that waits has its
\* checkpoint, no older than its receipt, through every crash; and work of unknown
\* outcome is not continued before somebody has given it up.
THEOREM WaitWaitsSurvive == WaitSpec => []WaitsSurvive
  BY WaitInvariant, InOrderWaits, PTL

-----------------------------------------------------------------------------
(* What one step may use, and whom it answers.                             *)

LEMMA OnlyToolsUse ==
  ASSUME WInv, [WaitNext]_waitVars, NEW i \in DOMAIN log, log'[i].used # log[i].used
  PROVE  \E k \in Call : RunTool(k) /\ i = exec.calls[k].id
  <1>0. log \in Seq(Entries) /\ DOMAIN log = 1..Len(log) /\ log' # log
    BY DEF WInv, WaitTyped
  <1>1. ~Drive
    <2>1. ASSUME Drive PROVE FALSE
      <3>1. log' = Told(rec)
        BY <1>0, <2>1 DEF Drive
      <3> QED BY <3>1, ToldLog
    <2> QED BY <2>1
  <1>2. ASSUME NEW k \in Call, Enqueue(k) PROVE FALSE
    <2> PICK e : e = NewEntry(turn.n)
      OBVIOUS
    <2>1. log' = Append(log, e)
      BY <1>0, <1>2 DEF Enqueue, NewEntry
    <2>e. e \in Entries
      <3>1. turn.n \in Nat
        BY DEF WInv, WaitTyped, Rounds
      <3> QED BY <3>1 DEF NewEntry, Entries
    <2>l. log \in Seq(Entries) /\ Len(log) \in Nat /\ DOMAIN log = 1..Len(log)
      BY DEF WInv, WaitTyped
    <2>2. \A j \in DOMAIN log : log'[j] = log[j]
      BY <2>l, <2>1, <2>e
    <2> QED BY <2>2
  <1>3. ASSUME NEW c \in Client, NEW q \in rec.reqs, NEW answer, Resolve(c, q, answer) PROVE FALSE
    <2>1. log' = [log EXCEPT ![q.id].answer = answer]
      BY <1>3 DEF Resolve
    <2>2. log[i] \in Entries
      BY <1>0
    <2>3. log'[i].used = log[i].used
      BY <1>0, <2>1, <2>2 DEF Entries
    <2> QED BY <2>3
  <1>4. \E k \in Call : RunTool(k)
    BY <1>0, <1>1, <1>2, <1>3 DEF WaitNext, waitVars, StartTurn, Engine, Crash, Service, Expire, Open, Yield, Finish, Settle,
       Abort, CancelRun, Record, FinishRun, CallTools, Consume, DriveEnds, CloseRunner, ShowWait, Claim, StepBack, Reset,
       AbandonTurn, AbandonFails, ResumeWait, Pick
  <1> PICK k \in Call : RunTool(k)
    BY <1>4
  <1>5. i = exec.calls[k].id
    BY <1>0 DEF RunTool
  <1> QED BY <1>5

LEMMA UsesAreExact ==
  ASSUME WInv, [WaitNext]_waitVars
  PROVE  ApprovalsAreExact
  <1>1. ASSUME NEW i \in DOMAIN log, log'[i].used # log[i].used
        PROVE  log'[i].used = 1 /\ log[i].answer = "yes" /\ log[i].told = 1 /\ log[i].turn = turn.n
    <2> PICK k \in Call : RunTool(k) /\ i = exec.calls[k].id
      BY <1>1, OnlyToolsUse
    <2>1. ClaimHolds(k)
      BY DEF RunTool, Call_At, WInv, CallsHold
    <2>2. log[i].used = 0 /\ log[i].answer = "yes" /\ log[i].told = 1 /\ log[i].turn = turn.n
      BY <2>1 DEF ClaimHolds
    <2>3. log \in Seq(Entries) /\ DOMAIN log = 1..Len(log)
      BY DEF WInv, WaitTyped
    <2>4. log[i] \in Entries
      BY <2>3
    <2>5. log' = [log EXCEPT ![i] = [log[i] EXCEPT !.used = log[i].used + 1]]
      BY <2>3 DEF RunTool
    <2> PICK e : e = [log[i] EXCEPT !.used = log[i].used + 1]
      OBVIOUS
    <2>6. e.used = log[i].used + 1
      BY <2>4 DEF Entries
    <2>7. log'[i] = e
      BY <2>3, <2>5
    <2>8. log'[i].used = 1
      BY <2>2, <2>6, <2>7
    <2> QED BY <2>2, <2>8
  <1> QED BY <1>1 DEF ApprovalsAreExact

\* The record is written by the engine, which then has the lease, or by the user
\* that has it.
LEMMA OnlyHoldersWrite ==
  ASSUME WInv, [WaitNext]_waitVars, rec' # rec, NEW c \in Client, client[c].at = "held"
  PROVE  Fresh(c)
  <1>1. exec.pc \notin {"drive", "model", "tools", "stop", "out"} /\ \A d \in Client : client[d].at \in {"held", "reset"} => d = c
    BY HoldersAreFresh
  <1>2. ~Drive /\ (\A k \in Call : ~Consume(k) /\ ~Enqueue(k)) /\ \A ok \in BOOLEAN : ~DriveEnds(ok)
    BY <1>1 DEF Drive, Consume, Enqueue, Call_At, DriveEnds
  <1>3. PICK d \in Client : Reset(d) \/ \E q \in rec.reqs, answer \in {"yes", "no"} : Resolve(d, q, answer)
    BY <1>2 DEF WaitNext, waitVars, StartTurn, Engine, Crash, Service, Expire, Open, Yield, Finish, Settle, Abort, CancelRun,
       Record, FinishRun, CallTools, RunTool, CloseRunner, ShowWait, Claim, StepBack, AbandonTurn, AbandonFails, ResumeWait,
       Pick
  <1>4. client[d].at = "held" /\ Fresh(d)
    BY <1>3 DEF Reset, Resolve, Holds
  <1> QED BY <1>1, <1>4

LEMMA WritesAreReviewed ==
  ASSUME WInv, [WaitNext]_waitVars
  PROVE  ReviewedOnly
  <1>1. ASSUME NEW c \in Client, client[c].at = "held", rec' # rec PROVE rec = client[c].seen
    BY <1>1, OnlyHoldersWrite, HoldersAreFresh
  <1> QED BY <1>1 DEF ReviewedOnly

\* For any number of users, calls and requests: each "yes" lets one tool run once,
\* after it was delivered and in the turn that asked; every answer is delivered at
\* most once; and users answer and give up exactly the record they were shown.
THEOREM WaitAnswersAreExact == WaitSpec => AnswersAreExact
  <1>1. WInv /\ [WaitNext]_waitVars => [ApprovalsAreExact /\ ReviewedOnly]_waitVars
    BY UsesAreExact, WritesAreReviewed
  <1>2. WInv => WaitTypeOK /\ DeliveredOnce
    BY InOrderWaits
  <1> QED BY <1>1, <1>2, WaitInvariant, PTL DEF WaitSpec, AnswersAreExact
=============================================================================
