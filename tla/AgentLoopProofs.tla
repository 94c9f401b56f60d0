--------------------------- MODULE AgentLoopProofs ---------------------------
(***************************************************************************)
(* Proofs about AgentLoop: for any calls, responses, conflicts and bounds, *)
(* the loop and its log implement the ledger of intents, and what the log  *)
(* says holds, whichever appends fail or are uncertain, and wherever the   *)
(* process dies.                                                           *)
(*                                                                         *)
(* The invariant follows the calls of a response through the loop: at each *)
(* place of the loop it says which of them are open in the log, which of   *)
(* them were acted upon, and what is different if nothing has failed yet.  *)
(*                                                                         *)
(* Then the registry of tool locks, and the calls of tools and of models   *)
(* through the wrappers around them, which have invariants of their own.   *)
(***************************************************************************)
EXTENDS AgentLoop, ToolLock, FiniteSetTheorems, SequenceTheorems, WellFoundedInduction, TLAPS

-----------------------------------------------------------------------------
(* The inductive invariant.                                                *)

Place == {"idle", "before", "end", "stream", "model_failed", "commit", "announce", "wave",
          "tools", "unstarted"}
Stage == {"none", "ready", "skipped", "answered", "running", "ran", "broke"}

LoopRecord ==
    [ pc : Place, iter : Nat, calls : Seq(Calls), blocked : SUBSET Calls, prepared : BOOLEAN,
      cursor : Nat, wave : Nat, index : Nat, err : BOOLEAN ]

Types ==
    /\ run \in [n : Nat, cancelled : BOOLEAN]
    /\ loop \in LoopRecord
    /\ tool \in [Calls -> Stage]
    /\ faults \in Nat

\* Every record has its intent, and its call or result, and belongs to a run.
Paired ==
    /\ Ids("model_outcome") \subseteq Ids("model_intent")
    /\ Ids("tool_outcome") \subseteq Ids("tool_intent")
    /\ Ids("call") = Ids("tool_intent") /\ Ids("result") = Ids("tool_outcome")
    /\ Ids("model_intent") \subseteq (1 .. run.n) \X (1 .. MaxIter)
    /\ Ids("tool_intent") \subseteq (1 .. run.n) \X Calls
    /\ \A x \in 1 .. MaxIter : Me(x) \in Ids("model_intent") => x <= loop.iter \/ loop.pc = "idle"
    /\ began \subseteq Ids("tool_intent")
    /\ run.n <= MaxRun /\ (loop.pc # "idle" => run.n > 0)

\* The calls are those of a response, and the cursor is among them.
Placed ==
    /\ loop.calls \in Responses \cup {<<>>}
    /\ \A i, j \in 1 .. Len(loop.calls) : loop.calls[i] = loop.calls[j] => i = j
    /\ loop.cursor <= Len(loop.calls) /\ loop.iter <= MaxIter
    /\ loop.pc = "idle" => loop = Idle
    /\ loop.pc \in {"commit", "announce"} => loop.cursor = 0

\* A wave is a run of calls that may go together; its tools, and no others,
\* have started or will.
Waving ==
    IF loop.pc = "tools"
      THEN /\ loop.wave \in 1 .. Limit /\ loop.cursor + loop.wave <= Len(loop.calls)
           /\ loop.index \in 1 .. loop.wave
           /\ \A i, j \in 1 .. loop.wave : i # j =>
                /\ {loop.calls[loop.cursor + i], loop.calls[loop.cursor + j]} \notin Conflicts
                /\ loop.calls[loop.cursor + i] \notin Serial
           /\ \A c \in Calls : tool[c] # "none" <=> c \in InWave
           /\ loop.index > 1 => \A c \in Calls : tool[c] \notin {"ready", "running"}
      ELSE \A c \in Calls : tool[c] = "none"

\* The calls from the i-th on.
Left(i) == {Me(loop.calls[j]) : j \in i .. Len(loop.calls)}

\* What is open at each place of the loop.
Opened ==
    /\ loop.pc # "idle" => OpenTools \subseteq Left(1)
    /\ loop.pc = "idle" =>
         OpenTools = {} \/ \E calls \in Responses : OpenTools \subseteq {Me(c) : c \in ToSet(calls)}
    /\ loop.pc \in {"before", "stream", "commit"} => OpenTools = {}
    /\ loop.pc \in {"announce", "wave"} => OpenTools = Left(loop.cursor + 1)
    /\ loop.pc = "tools" =>
         /\ Left(loop.cursor + loop.index) \subseteq OpenTools
         /\ ~loop.err => OpenTools = Left(loop.cursor + loop.index)

\* What is open when nothing has failed.
Faultless ==
    faults = 0 =>
      /\ loop.pc \in {"idle", "end", "model_failed"} => OpenTools = {}
      /\ loop.pc = "tools" => OpenTools = Left(loop.cursor + loop.index)
      /\ loop.pc = "unstarted" => OpenTools = Left(loop.cursor + 1)
      /\ IF loop.pc \in {"stream", "commit", "model_failed"} THEN OpenModels = {Me(loop.iter)}
                                                             ELSE OpenModels = {}

\* Which calls were acted upon.
Acted ==
    /\ loop.pc \in {"announce", "wave", "tools", "unstarted"} =>
         \A j \in loop.cursor + 1 .. Len(loop.calls) :
           loop.pc # "tools" \/ j > loop.cursor + loop.wave => Me(loop.calls[j]) \notin began
    /\ loop.pc = "tools" =>
         \A c \in InWave : IF tool[c] \in {"running", "ran", "broke"} THEN Me(c) \in began
                                                                    ELSE Me(c) \notin began
    /\ loop.pc \in {"announce", "wave", "tools"} =>
         \A r \in log, c \in Calls :
           /\ r.kind = "tool_intent" /\ r.id = Me(c)
           /\ c \in ToSet(loop.calls) /\ c \notin loop.blocked
           => r.info # "no_effect"

LInv == Types /\ Paired /\ Placed /\ Waving /\ Opened /\ Faultless /\ Acted /\ OutcomesAreTrue

-----------------------------------------------------------------------------
(* What an append adds to the log, by kind of record.                      *)

\* The identities that the records of a kind have in a batch.
BatchIds(batch, kind) == {r.id : r \in {q \in batch : q.kind = kind}}

\* The log gains intents and outcomes of models and tools; every tool intent
\* comes with its call, every outcome with its result.
Gains(mi, mo, ti, to) ==
    /\ Ids("model_intent")' = Ids("model_intent") \cup mi
    /\ Ids("model_outcome")' = Ids("model_outcome") \cup mo
    /\ Ids("tool_intent")' = Ids("tool_intent") \cup ti
    /\ Ids("tool_outcome")' = Ids("tool_outcome") \cup to
    /\ Ids("call")' = Ids("call") \cup ti
    /\ Ids("result")' = Ids("result") \cup to

\* The identities in a larger log.
LEMMA IdsOfUnion ==
    ASSUME NEW batch, NEW kind, log' = log \cup batch
    PROVE  Ids(kind)' = Ids(kind) \cup BatchIds(batch, kind)
BY DEF Ids, BatchIds

\* A log that stays as it is gains nothing.
LEMMA GainsNothing ==
    ASSUME log' = log
    PROVE  Gains({}, {}, {}, {})
BY DEF Ids, Gains

\* A batch that is appended is found in the log by its kinds.
LEMMA GainsBatch ==
    ASSUME NEW batch, log' = log \cup batch, NEW mi, NEW mo, NEW ti, NEW to,
           BatchIds(batch, "model_intent") = mi, BatchIds(batch, "model_outcome") = mo,
           BatchIds(batch, "tool_intent") = ti, BatchIds(batch, "tool_outcome") = to,
           BatchIds(batch, "call") = ti, BatchIds(batch, "result") = to
    PROVE  Gains(mi, mo, ti, to)
BY IdsOfUnion DEF Gains

\* An append leaves the log or adds the batch that fits; without a fault it
\* does as its verdict says.
LEMMA AppendedOrNot ==
    ASSUME NEW batch, NEW verdict, Appended(batch, verdict), faults \in Nat
    PROVE  /\ faults' \in Nat /\ faults' >= faults
           /\ log' = log \/ (log' = log \cup batch /\ Fits(batch))
           /\ Done(batch, verdict) => log' = log \cup batch /\ Fits(batch) /\ faults' = faults
           /\ faults' = 0 => faults = 0 /\ verdict = "ok"
           /\ faults' = 0 /\ ~Done(batch, verdict) => log' = log /\ ~Fits(batch)
BY DEF Appended, Done

\* Records of one kind, and of one content.
Made(S, kind, info) == {[kind |-> kind, id |-> i, info |-> info] : i \in S}

LEMMA MadeIds ==
    ASSUME NEW S, NEW kind, NEW info, NEW k
    PROVE  BatchIds(Made(S, kind, info), k) = IF k = kind THEN S ELSE {}
<1>1. ASSUME NEW r \in Made(S, kind, info)
      PROVE  r.kind = kind /\ r.id \in S
  BY DEF Made
<1>2. ASSUME NEW i \in S
      PROVE  \E r \in Made(S, kind, info) : r.id = i /\ r.kind = kind
  <2>1. [kind |-> kind, id |-> i, info |-> info] \in Made(S, kind, info)
    BY DEF Made
  <2> QED
    BY <2>1
<1> QED
  BY <1>1, <1>2 DEF BatchIds

LEMMA UnionIds ==
    ASSUME NEW A, NEW B, NEW k
    PROVE  BatchIds(A \cup B, k) = BatchIds(A, k) \cup BatchIds(B, k)
BY DEF BatchIds

LEMMA NoIds == ASSUME NEW k PROVE BatchIds({}, k) = {}
BY DEF BatchIds

\* The batches of the loop are made of such records.
LEMMA OneMade ==
    ASSUME NEW kind, NEW x, NEW info
    PROVE  {Rec(kind, x, info)} = Made({Me(x)}, kind, info)
BY DEF Rec, Me, Made

LEMMA OneSettledMade ==
    ASSUME NEW c, NEW did
    PROVE  Settled(c, did) = Made({Me(c)}, "tool_outcome", did) \cup Made({Me(c)}, "result", "")
BY DEF Rec, Me, Made, Settled

LEMMA SettledMade ==
    ASSUME NEW S, NEW did
    PROVE  UNION {Settled(c, did) : c \in S}
           = Made({Me(c) : c \in S}, "tool_outcome", did) \cup Made({Me(c) : c \in S}, "result", "")
<1> DEFINE A == UNION {Settled(c, did) : c \in S}
           O == Made({Me(c) : c \in S}, "tool_outcome", did)
           R == Made({Me(c) : c \in S}, "result", "")
<1>1. ASSUME NEW r \in A PROVE r \in O \cup R
  <2>1. PICK c \in S : r \in Settled(c, did)
    OBVIOUS
  <2>2. Me(c) \in {Me(d) : d \in S}
    OBVIOUS
  <2> QED
    BY <2>1, <2>2 DEF Settled, Rec, Me, Made
<1>2. ASSUME NEW r \in O \cup R PROVE r \in A
  <2>1. PICK c \in S : r \in {[kind |-> "tool_outcome", id |-> Me(c), info |-> did], [kind |-> "result", id |-> Me(c), info |-> ""]}
    BY DEF Made
  <2>2. r \in Settled(c, did)
    BY <2>1 DEF Settled, Rec, Me
  <2> QED
    BY <2>2
<1> QED
  BY <1>1, <1>2

LEMMA RecoveredMade ==
    Recovered = (Made(OpenModels, "model_outcome", "cancelled") \cup Made(OpenTools, "tool_outcome", "unknown"))
                \cup Made(OpenTools, "result", "")
BY DEF Recovered, Made

\* A response declares the intent of each of its calls, with or without an
\* effect, and settles them all when their preparation failed.
Own == {Me(c) : c \in ToSet(loop.calls)}

Declared == {Rec("tool_intent", c, IF c \in loop.blocked \/ ~loop.prepared THEN "no_effect" ELSE "plain") : c \in ToSet(loop.calls)}

LEMMA DeclaredIds ==
    ASSUME NEW k
    PROVE  BatchIds(Declared, k) = IF k = "tool_intent" THEN Own ELSE {}
<1>1. ASSUME NEW r \in Declared
      PROVE  r.kind = "tool_intent" /\ r.id \in Own
  BY DEF Declared, Own, Rec, Me
<1>2. ASSUME NEW i \in Own
      PROVE  \E r \in Declared : r.id = i /\ r.kind = "tool_intent"
  <2>1. PICK c \in ToSet(loop.calls) : i = Me(c)
    BY DEF Own
  <2>2. PICK info : info = IF c \in loop.blocked \/ ~loop.prepared THEN "no_effect" ELSE "plain"
    OBVIOUS
  <2>3. Rec("tool_intent", c, info) \in Declared
    BY <2>1, <2>2 DEF Declared
  <2>4. Rec("tool_intent", c, info).id = i /\ Rec("tool_intent", c, info).kind = "tool_intent"
    BY <2>1 DEF Rec, Me
  <2> QED
    BY <2>3, <2>4
<1> QED
  BY <1>1, <1>2 DEF BatchIds

LEMMA ResponseMade ==
    Response = (Made({Me(loop.iter)}, "model_outcome", "succeeded") \cup Made(Own, "call", "")) \cup
               (Declared \cup IF loop.prepared THEN {} ELSE Made(Own, "tool_outcome", "not run") \cup Made(Own, "result", ""))
<1>1. {Rec("model_outcome", loop.iter, "succeeded")} = Made({Me(loop.iter)}, "model_outcome", "succeeded")
  BY OneMade
<1>2. {Rec("call", c, "") : c \in ToSet(loop.calls)} = Made(Own, "call", "")
  BY DEF Rec, Me, Made, Own
<1>3. UNION {Settled(c, "not run") : c \in ToSet(loop.calls)} = Made(Own, "tool_outcome", "not run") \cup Made(Own, "result", "")
  BY SettledMade DEF Own
<1> QED
  BY <1>1, <1>2, <1>3 DEF Response, Declared

-----------------------------------------------------------------------------
(* What each batch brings to the log.                                      *)

\* Two sets of records together.
LEMMA TwoMade ==
    ASSUME NEW A, NEW B, NEW k, NEW x, NEW y, BatchIds(A, k) = x, BatchIds(B, k) = y
    PROVE  BatchIds(A \cup B, k) = x \cup y
BY UnionIds

LEMMA IntentGains ==
    ASSUME NEW x, log' = log \cup {Rec("model_intent", x, "")}
    PROVE  Gains({Me(x)}, {}, {}, {})
<1> DEFINE I == {Me(x)}
           b == Made(I, "model_intent", "")
<1>1. log' = log \cup b
  BY OneMade
<1> HIDE DEF I
<1>2. \A k : BatchIds(b, k) = IF k = "model_intent" THEN I ELSE {}
  BY MadeIds
<1> HIDE DEF b
<1>3. Gains(I, {}, {}, {})
  BY <1>1, <1>2, GainsBatch
<1> QED
  BY <1>3 DEF I

LEMMA OutcomeGains ==
    ASSUME NEW x, NEW info, log' = log \cup {Rec("model_outcome", x, info)}
    PROVE  Gains({}, {Me(x)}, {}, {})
<1> DEFINE I == {Me(x)}
           b == Made(I, "model_outcome", info)
<1>1. log' = log \cup b
  BY OneMade
<1> HIDE DEF I
<1>2. \A k : BatchIds(b, k) = IF k = "model_outcome" THEN I ELSE {}
  BY MadeIds
<1> HIDE DEF b
<1>3. Gains({}, I, {}, {})
  BY <1>1, <1>2, GainsBatch
<1> QED
  BY <1>3 DEF I

\* Outcomes come with their results.
LEMMA PairGains ==
    ASSUME NEW I, NEW O, NEW R, NEW b, log' = log \cup b, b = O \cup R,
           \A k : BatchIds(O, k) = IF k = "tool_outcome" THEN I ELSE {},
           \A k : BatchIds(R, k) = IF k = "result" THEN I ELSE {}
    PROVE  Gains({}, {}, {}, I)
<1>1. ASSUME NEW k
      PROVE  BatchIds(b, k) = IF k = "tool_outcome" \/ k = "result" THEN I ELSE {}
  <2>1. BatchIds(b, k) = BatchIds(O, k) \cup BatchIds(R, k)
    BY DEF BatchIds
  <2> QED
    BY <2>1
<1> QED
  BY <1>1, GainsBatch

LEMMA OneSettledGains ==
    ASSUME NEW c, NEW did, log' = log \cup Settled(c, did)
    PROVE  Gains({}, {}, {}, {Me(c)})
<1>1. PICK I, O, R : I = {Me(c)} /\ O = Made(I, "tool_outcome", did) /\ R = Made(I, "result", "")
  OBVIOUS
<1>2. PICK b : b = Settled(c, did)
  OBVIOUS
<1>3. b = O \cup R
  BY <1>1, <1>2, OneSettledMade
<1>4. /\ \A k : BatchIds(O, k) = IF k = "tool_outcome" THEN I ELSE {}
      /\ \A k : BatchIds(R, k) = IF k = "result" THEN I ELSE {}
  BY <1>1, MadeIds
<1> QED
  BY <1>1, <1>2, <1>3, <1>4, PairGains

LEMMA SettledGains ==
    ASSUME NEW S, NEW did, log' = log \cup UNION {Settled(c, did) : c \in S}
    PROVE  Gains({}, {}, {}, {Me(c) : c \in S})
<1>1. PICK I, O, R : I = {Me(c) : c \in S} /\ O = Made(I, "tool_outcome", did) /\ R = Made(I, "result", "")
  OBVIOUS
<1>2. PICK b : b = UNION {Settled(c, did) : c \in S}
  OBVIOUS
<1>3. b = O \cup R
  BY <1>1, <1>2, SettledMade
<1>4. /\ \A k : BatchIds(O, k) = IF k = "tool_outcome" THEN I ELSE {}
      /\ \A k : BatchIds(R, k) = IF k = "result" THEN I ELSE {}
  BY <1>1, MadeIds
<1>5. log' = log \cup b
  BY <1>2
<1>6. Gains({}, {}, {}, I)
  BY <1>3, <1>4, <1>5, PairGains
<1> QED
  BY <1>1, <1>6

LEMMA RecoveredGains ==
    ASSUME log' = log \cup Recovered
    PROVE  Gains({}, OpenModels, {}, OpenTools)
<1>1. PICK M, O, R : /\ M = Made(OpenModels, "model_outcome", "cancelled")
                     /\ O = Made(OpenTools, "tool_outcome", "unknown")
                     /\ R = Made(OpenTools, "result", "")
  OBVIOUS
<1>2. PICK P, b : P = M \cup O /\ b = P \cup R
  OBVIOUS
<1>3. /\ \A k : BatchIds(M, k) = IF k = "model_outcome" THEN OpenModels ELSE {}
      /\ \A k : BatchIds(O, k) = IF k = "tool_outcome" THEN OpenTools ELSE {}
      /\ \A k : BatchIds(R, k) = IF k = "result" THEN OpenTools ELSE {}
  BY <1>1, MadeIds
<1>4. ASSUME NEW k PROVE BatchIds(b, k) = (BatchIds(M, k) \cup BatchIds(O, k)) \cup BatchIds(R, k)
  <2>1. BatchIds(P, k) = BatchIds(M, k) \cup BatchIds(O, k)
    BY <1>2, UnionIds
  <2>2. BatchIds(b, k) = BatchIds(P, k) \cup BatchIds(R, k)
    BY <1>2, UnionIds
  <2> QED
    BY <2>1, <2>2
<1>5. log' = log \cup b
  BY <1>1, <1>2, RecoveredMade
<1>6. /\ BatchIds(b, "model_intent") = {} /\ BatchIds(b, "model_outcome") = OpenModels
      /\ BatchIds(b, "tool_intent") = {} /\ BatchIds(b, "tool_outcome") = OpenTools
      /\ BatchIds(b, "call") = {} /\ BatchIds(b, "result") = OpenTools
  BY <1>3, <1>4
<1> QED
  BY <1>5, <1>6, GainsBatch

LEMMA ResponseGains ==
    ASSUME log' = log \cup Response
    PROVE  Gains({}, {Me(loop.iter)}, Own, IF loop.prepared THEN {} ELSE Own)
<1>1. PICK I, M, C, O, R : /\ I = {Me(loop.iter)} /\ M = Made(I, "model_outcome", "succeeded")
                           /\ C = Made(Own, "call", "")
                           /\ O = Made(Own, "tool_outcome", "not run") /\ R = Made(Own, "result", "")
  OBVIOUS
<1>2. PICK out, L, A : /\ out = IF loop.prepared THEN {} ELSE Own
                       /\ L = IF loop.prepared THEN {} ELSE A
                       /\ A = O \cup R
  OBVIOUS
<1>3. PICK E, F, b : E = M \cup C /\ F = Declared \cup L /\ b = E \cup F
  OBVIOUS
<1>4. /\ \A k : BatchIds(M, k) = IF k = "model_outcome" THEN I ELSE {}
      /\ \A k : BatchIds(C, k) = IF k = "call" THEN Own ELSE {}
      /\ \A k : BatchIds(O, k) = IF k = "tool_outcome" THEN Own ELSE {}
      /\ \A k : BatchIds(R, k) = IF k = "result" THEN Own ELSE {}
  BY <1>1, MadeIds
<1>5. ASSUME NEW k PROVE BatchIds(L, k) = IF k = "tool_outcome" \/ k = "result" THEN out ELSE {}
  <2>1. BatchIds(A, k) = BatchIds(O, k) \cup BatchIds(R, k)
    BY <1>2, UnionIds
  <2>2. CASE loop.prepared
    BY <1>2, <2>2, NoIds
  <2>3. CASE ~loop.prepared
    BY <1>2, <1>4, <2>1, <2>3
  <2> QED
    BY <2>2, <2>3
<1>6. ASSUME NEW k
      PROVE  BatchIds(b, k) = (BatchIds(M, k) \cup BatchIds(C, k)) \cup (BatchIds(Declared, k) \cup BatchIds(L, k))
  <2>1. BatchIds(E, k) = BatchIds(M, k) \cup BatchIds(C, k)
    BY <1>3, UnionIds
  <2>2. BatchIds(F, k) = BatchIds(Declared, k) \cup BatchIds(L, k)
    BY <1>3, UnionIds
  <2>3. BatchIds(b, k) = BatchIds(E, k) \cup BatchIds(F, k)
    BY <1>3, UnionIds
  <2> QED
    BY <2>1, <2>2, <2>3
<1>7. ASSUME NEW k PROVE BatchIds(Declared, k) = IF k = "tool_intent" THEN Own ELSE {}
  BY DeclaredIds
<1>8. log' = log \cup b
  BY <1>1, <1>2, <1>3, ResponseMade
<1>9. /\ BatchIds(b, "model_intent") = {} /\ BatchIds(b, "model_outcome") = I
      /\ BatchIds(b, "tool_intent") = Own /\ BatchIds(b, "tool_outcome") = out
      /\ BatchIds(b, "call") = Own /\ BatchIds(b, "result") = out
  BY <1>4, <1>5, <1>6, <1>7
<1> QED
  BY <1>1, <1>2, <1>8, <1>9, GainsBatch

-----------------------------------------------------------------------------
(* What keeps a part of the invariant.                                     *)

LEMMA PairedKept ==
    ASSUME NEW mi, NEW mo, NEW ti, NEW to, Gains(mi, mo, ti, to), Types, Paired,
           mi \subseteq (1 .. run.n) \X (1 .. MaxIter), ti \subseteq (1 .. run.n) \X Calls,
           mo \subseteq Ids("model_intent") \cup mi, to \subseteq Ids("tool_intent") \cup ti,
           run'.n = run.n, began' = began, loop.pc # "idle", loop'.iter \in Nat,
           loop'.pc = "idle" \/ (loop'.iter >= loop.iter /\ \A x \in 1 .. MaxIter : Me(x) \in mi => x <= loop'.iter)
    PROVE  Paired'
<1>1. loop.iter \in Nat
  BY DEF Types, LoopRecord
<1>2. ASSUME NEW x \in 1 .. MaxIter, Me(x)' \in Ids("model_intent")'
      PROVE  x <= loop'.iter \/ loop'.pc = "idle"
  <2>1. Me(x)' = Me(x)
    BY DEF Me
  <2>2. CASE Me(x) \in Ids("model_intent")
    <3>1. x <= loop.iter
      BY <2>2 DEF Paired
    <3> QED
      BY <1>1, <3>1
  <2>3. CASE Me(x) \in mi
    BY <2>3
  <2> QED
    BY <1>2, <2>1, <2>2, <2>3 DEF Gains
<1>3. /\ Ids("model_outcome")' \subseteq Ids("model_intent")'
      /\ Ids("tool_outcome")' \subseteq Ids("tool_intent")'
      /\ Ids("call")' = Ids("tool_intent")' /\ Ids("result")' = Ids("tool_outcome")'
      /\ began' \subseteq Ids("tool_intent")'
  BY DEF Gains, Paired
<1>4. /\ Ids("model_intent")' \subseteq (1 .. run'.n) \X (1 .. MaxIter)
      /\ Ids("tool_intent")' \subseteq (1 .. run'.n) \X Calls /\ run'.n <= MaxRun
  BY DEF Gains, Paired
<1> QED
  BY <1>2, <1>3, <1>4 DEF Paired

LEMMA QuietPaired ==
    ASSUME log' = log, Types, Paired, run'.n = run.n, began' = began, loop.pc # "idle",
           loop'.iter \in Nat, loop'.pc = "idle" \/ loop'.iter >= loop.iter
    PROVE  Paired'
BY PairedKept, GainsNothing

\* What is open after an append.
LEMMA OpenAfter ==
    ASSUME NEW mi, NEW mo, NEW ti, NEW to, Gains(mi, mo, ti, to)
    PROVE  /\ OpenTools' = (Ids("tool_intent") \cup ti) \ (Ids("tool_outcome") \cup to)
           /\ OpenModels' = (Ids("model_intent") \cup mi) \ (Ids("model_outcome") \cup mo)
BY DEF Gains, OpenTools, OpenModels

LEMMA QuietOpen ==
    ASSUME log' = log
    PROVE  OpenTools' = OpenTools /\ OpenModels' = OpenModels
BY OpenAfter, GainsNothing DEF OpenTools, OpenModels

\* The calls from the i-th on are the same while the response and the run are.
LEMMA LeftKept ==
    ASSUME NEW i, loop'.calls = loop.calls, run'.n = run.n
    PROVE  Left(i)' = Left(i)
BY DEF Left, Me

LEMMA TruthKept ==
    ASSUME NEW batch, log' = log \/ log' = log \cup batch, OutcomesAreTrue, began' = began,
           \A r \in batch :
             /\ r.kind = "tool_outcome" /\ r.info \in {"not run", "answered"} => r.id \notin began
             /\ r.kind = "tool_outcome" /\ r.info = "ran" => r.id \in began
             /\ r.kind = "tool_intent" /\ r.info = "no_effect" => r.id \notin began
    PROVE  OutcomesAreTrue'
BY DEF OutcomesAreTrue

LEMMA QuietTruth ==
    ASSUME log' = log, OutcomesAreTrue, began' = began
    PROVE  OutcomesAreTrue'
BY DEF OutcomesAreTrue

-----------------------------------------------------------------------------
(* The steps that leave the log alone.                                     *)

LEMMA CancelKeeps ==
    ASSUME LInv, Cancel
    PROVE  LInv'
<1>0. UNCHANGED <<log, loop, tool, began, faults>> /\ loop.pc # "idle" /\ run' = [run EXCEPT !.cancelled = TRUE]
  BY DEF Cancel
<1>1. Types' /\ run'.n = run.n /\ loop.iter \in Nat
  BY <1>0 DEF LInv, Types, LoopRecord
<1>2. Paired'
  BY <1>0, <1>1, QuietPaired DEF LInv
<1>3. OpenTools' = OpenTools /\ OpenModels' = OpenModels
  BY <1>0, QuietOpen
<1>4. \A c : Me(c)' = Me(c)
  BY <1>1 DEF Me
<1>5. \A i : Left(i)' = Left(i)
  BY <1>0, <1>1, LeftKept
<1>6. Placed' /\ Waving'
  <2>1. Placed'
    BY <1>0 DEF LInv, Placed
  <2>2. InWave' = InWave
    BY <1>0 DEF InWave
  <2>3. Waving'
    BY <1>0, <2>2 DEF LInv, Waving
  <2> QED
    BY <2>1, <2>3
<1>7. Opened'
  BY <1>0, <1>3, <1>4, <1>5 DEF LInv, Opened
<1>8. Faultless'
  BY <1>0, <1>3, <1>4, <1>5 DEF LInv, Faultless
<1>9. Acted'
  BY <1>0, <1>4 DEF LInv, Acted, InWave
<1> QED
  BY <1>0, <1>1, <1>2, <1>6, <1>7, <1>8, <1>9, QuietTruth DEF LInv

\* Whatever is open when a run stops belongs to one response.
LEMMA OpenAtTheEnd ==
    ASSUME Placed, Types, loop.pc # "idle", OpenTools \subseteq Left(1)
    PROVE  OpenTools = {} \/ \E calls \in Responses : OpenTools \subseteq {Me(c) : c \in ToSet(calls)}
<1>1. CASE loop.calls = <<>>
  BY <1>1 DEF Left
<1>2. CASE loop.calls \in Responses
  <2>1. ToSet(loop.calls) = {loop.calls[j] : j \in 1 .. Len(loop.calls)}
    BY DEF ToSet, Types, LoopRecord
  <2>2. Left(1) \subseteq {Me(c) : c \in ToSet(loop.calls)}
    BY <2>1 DEF Left
  <2> QED
    BY <1>2, <2>2
<1> QED
  BY <1>1, <1>2 DEF Placed

\* A run that stops, by itself or not, leaves the loop idle.
LEMMA StopKeeps ==
    ASSUME LoopAssumption, LInv, loop.pc # "idle", loop' = Idle, tool' = [c \in Calls |-> "none"],
           UNCHANGED <<log, run, began>>, faults' \in Nat,
           faults' > 0 \/ (faults' = faults /\ loop.pc = "end")
    PROVE  LInv'
<1>1. Types'
  BY DEF LInv, Types, LoopRecord, Idle, Place, Stage
<1>2. Paired'
  BY QuietPaired DEF LInv, Idle
<1>3. OpenTools' = OpenTools /\ OpenModels' = OpenModels
  BY QuietOpen
<1>4. \A c : Me(c)' = Me(c)
  BY DEF Me
<1>5. Placed' /\ Waving' /\ Acted'
  <2>1. loop'.pc = "idle" /\ loop'.calls = <<>> /\ loop'.cursor = 0 /\ loop'.iter = 0
    BY DEF Idle
  <2>2. Placed'
    BY <2>1 DEF LInv, Types, Placed, LoopAssumption
  <2>3. Waving'
    BY <2>1 DEF Waving
  <2>4. Acted'
    BY <2>1 DEF Acted
  <2> QED
    BY <2>2, <2>3, <2>4
<1>6. OpenTools = {} \/ \E calls \in Responses : OpenTools \subseteq {Me(c) : c \in ToSet(calls)}
  BY OpenAtTheEnd DEF LInv, Opened
<1>7. Opened'
  BY <1>3, <1>4, <1>6 DEF Opened, Idle
<1>8. Faultless'
  BY <1>3, <1>4 DEF LInv, Types, Faultless, Idle
<1> QED
  BY <1>1, <1>2, <1>5, <1>7, <1>8, QuietTruth DEF LInv

LEMMA CrashKeeps ==
    ASSUME LoopAssumption, LInv, Crash
    PROVE  LInv'
<1>1. loop.pc # "idle" /\ faults' = faults + 1 /\ loop' = Idle /\ tool' = [c \in Calls |-> "none"]
  BY DEF Crash
<1>2. faults' \in Nat /\ faults' > 0
  BY <1>1 DEF LInv, Types
<1>3. UNCHANGED <<log, run, began>>
  BY DEF Crash
<1> QED
  BY <1>1, <1>2, <1>3, StopKeeps

\* What a step within a run keeps that writes no log, starts no tool and stays
\* with its response and its cursor.
Stays ==
    /\ UNCHANGED <<log, run, began, faults>> /\ loop.pc # "idle"
    /\ loop'.pc \notin {"idle", "commit", "announce"} /\ loop'.iter = loop.iter /\ loop'.cursor = loop.cursor
    /\ loop'.calls = loop.calls /\ loop'.blocked = loop.blocked
    /\ tool' \in [Calls -> Stage] /\ loop' \in LoopRecord

LEMMA StaysKeeps ==
    ASSUME LInv, Stays
    PROVE  /\ Types' /\ Paired' /\ Placed' /\ OutcomesAreTrue'
           /\ OpenTools' = OpenTools /\ OpenModels' = OpenModels
           /\ \A c : Me(c)' = Me(c)
           /\ \A i : Left(i)' = Left(i)
<1>1. UNCHANGED <<log, run, began, faults>>
  BY DEF Stays
<1>2. Types'
  BY <1>1 DEF Stays, LInv, Types
<1>3. Paired'
  BY QuietPaired DEF LInv, Types, LoopRecord, Stays
<1>4. Placed'
  BY DEF LInv, Placed, Stays
<1>5. \A c : Me(c)' = Me(c)
  BY <1>1 DEF Me
<1>6. \A i : Left(i)' = Left(i)
  BY LeftKept DEF Stays
<1>7. OpenTools' = OpenTools /\ OpenModels' = OpenModels
  BY <1>1, QuietOpen
<1> QED
  BY <1>1, <1>2, <1>3, <1>4, <1>5, <1>6, <1>7, QuietTruth DEF LInv

LEMMA GiveUpKeeps ==
    ASSUME LoopAssumption, LInv, GiveUp
    PROVE  LInv'
<1>1. UNCHANGED <<log, run, began, faults>> /\ tool' = [c \in Calls |-> "none"] /\ loop.pc \in {"before", "end"}
  BY DEF GiveUp
<1>2. CASE loop.pc = "end"
  <2>1. loop' = Idle
    BY <1>2 DEF GiveUp
  <2> QED
    BY <1>1, <1>2, <2>1, StopKeeps DEF LInv, Types
<1>3. CASE loop.pc = "before"
  <2>1. loop' = [loop EXCEPT !.pc = "end"]
    BY <1>3 DEF GiveUp
  <2>2. loop \in LoopRecord
    BY DEF LInv, Types
  <2>3. loop'.pc = "end" /\ Stays
    BY <1>1, <1>3, <2>1, <2>2 DEF Stays, LoopRecord, Place, Stage
  <2>4. Waving' /\ Acted'
    BY <1>1, <2>3 DEF Waving, Acted
  <2>5. OpenTools = {} /\ (faults = 0 => OpenModels = {})
    BY <1>3 DEF LInv, Opened, Faultless
  <2>6. Opened' /\ Faultless'
    BY <2>3, <2>5, StaysKeeps DEF Opened, Faultless, Stays
  <2> QED
    BY <2>3, <2>4, <2>6, StaysKeeps DEF LInv
<1> QED
  BY <1>1, <1>2, <1>3

LEMMA AnnounceKeeps ==
    ASSUME LInv, Announce
    PROVE  LInv'
<1>1. UNCHANGED <<log, run, tool, began, faults>> /\ loop.pc = "announce"
  BY DEF Announce
<1>2. PICK place \in {"wave", "unstarted"} : loop' = [loop EXCEPT !.pc = place]
  BY DEF Announce, Goto
<1>3. loop \in LoopRecord /\ tool \in [Calls -> Stage]
  BY DEF LInv, Types
<1>4. loop'.pc = place /\ Stays
  BY <1>1, <1>2, <1>3 DEF Stays, LoopRecord, Place
<1>5. OpenTools' = OpenTools /\ OpenModels' = OpenModels /\ \A i : Left(i)' = Left(i)
  BY <1>4, StaysKeeps
<1>6. loop'.cursor = loop.cursor /\ loop'.calls = loop.calls /\ loop'.blocked = loop.blocked
  BY <1>4 DEF Stays
<1>7. OpenTools = Left(loop.cursor + 1) /\ OpenTools \subseteq Left(1) /\ (faults = 0 => OpenModels = {})
  BY <1>1 DEF LInv, Opened, Faultless
<1>8. Opened'
  BY <1>4, <1>5, <1>6, <1>7 DEF Opened
<1>9. Faultless'
  BY <1>1, <1>4, <1>5, <1>6, <1>7 DEF Faultless
<1>10. Waving'
  BY <1>1, <1>4 DEF LInv, Waving
<1>11. Acted'
  <2>1. \A c : Me(c)' = Me(c)
    BY <1>4, StaysKeeps
  <2> QED
    BY <1>1, <1>4, <1>6, <2>1 DEF LInv, Acted
<1> QED
  BY <1>4, <1>8, <1>9, <1>10, <1>11, StaysKeeps DEF LInv

\* The model's answer is refused, or becomes the response of the turn.
LEMMA StreamKeeps ==
    ASSUME LoopAssumption, LInv, Stream
    PROVE  LInv'
<1>1. UNCHANGED <<log, run, tool, began, faults>> /\ loop.pc = "stream"
  BY DEF Stream
<1>2. loop \in LoopRecord /\ tool \in [Calls -> Stage]
  BY DEF LInv, Types
<1>3. OpenTools = {} /\ (faults = 0 => OpenModels = {Me(loop.iter)})
  BY <1>1 DEF LInv, Opened, Faultless
<1>4. \A c \in Calls : tool[c] = "none"
  BY <1>1 DEF LInv, Waving
<1>5. CASE Goto("model_failed")
  <2>1. loop'.pc = "model_failed" /\ Stays
    BY <1>1, <1>2, <1>5 DEF Goto, Stays, LoopRecord, Place
  <2>2. Waving' /\ Acted'
    BY <1>1, <1>4, <2>1 DEF Waving, Acted
  <2>3. Opened' /\ Faultless'
    BY <1>1, <1>3, <2>1, StaysKeeps DEF Opened, Faultless, Stays
  <2> QED
    BY <2>1, <2>2, <2>3, StaysKeeps DEF LInv
<1>6. ASSUME NEW calls \in Responses, NEW prepared \in BOOLEAN, NEW blocked \in SUBSET ToSet(calls),
             loop' = [loop EXCEPT !.pc = "commit", !.calls = calls, !.blocked = blocked, !.prepared = prepared, !.cursor = 0]
      PROVE  LInv'
  <2>1. calls \in Seq(Calls) /\ \A i, j \in 1 .. Len(calls) : calls[i] = calls[j] => i = j
    BY DEF LoopAssumption
  <2>2. blocked \in SUBSET Calls
    BY <2>1 DEF ToSet
  <2>3. /\ loop' \in LoopRecord /\ loop'.pc = "commit" /\ loop'.calls = calls /\ loop'.cursor = 0
        /\ loop'.iter = loop.iter
    BY <1>2, <1>6, <2>1, <2>2 DEF LoopRecord, Place
  <2>4. Types'
    BY <1>1, <2>3 DEF LInv, Types
  <2>5. Paired'
    BY <1>1, <1>2, <2>3, QuietPaired DEF LInv, LoopRecord
  <2>6. Placed'
    BY <1>2, <2>1, <2>3 DEF LInv, Placed, LoopRecord
  <2>7. Waving' /\ Acted'
    BY <1>1, <1>4, <2>3 DEF Waving, Acted
  <2>8. OpenTools' = OpenTools /\ OpenModels' = OpenModels /\ Me(loop.iter)' = Me(loop.iter)
    BY <1>1, <2>3, QuietOpen DEF Me
  <2>9. Opened' /\ Faultless'
    BY <1>1, <1>3, <2>3, <2>8 DEF Opened, Faultless
  <2> QED
    BY <1>1, <2>4, <2>5, <2>6, <2>7, <2>9, QuietTruth DEF LInv
<1> QED
  BY <1>5, <1>6 DEF Stream

-----------------------------------------------------------------------------
(* The waves.                                                              *)

\* A non-empty set of numbers up to N has a largest one.
LEMMA Largest ==
    ASSUME NEW N \in Nat, NEW T, T \subseteq 1 .. N, T # {}
    PROVE  \E n \in T : \A m \in T : m <= n
<1> DEFINE D == {N - n : n \in T}
<1>1. D \subseteq Nat /\ D # {}
  <2>1. ASSUME NEW n \in T PROVE N - n \in Nat
    <3>1. n \in 1 .. N
      OBVIOUS
    <3> QED
      BY <3>1
  <2> QED
    BY <2>1
<1>2. PICK x \in D : \A y \in D : ~ (<<y, x>> \in OpToRel(<, Nat))
  BY <1>1, WFMin, NatLessThanWellFounded
<1>3. ASSUME NEW y \in D PROVE x <= y
  <2>1. x \in Nat /\ y \in Nat
    BY <1>1, <1>2
  <2>2. y < x => <<y, x>> \in OpToRel(<, Nat)
    BY <2>1 DEF OpToRel
  <2>3. ~(y < x)
    BY <1>2, <1>3, <2>2
  <2> QED
    BY <2>1, <2>3
<1>4. PICK n \in T : x = N - n
  BY <1>2
<1>5. \A m \in T : N - m \in D /\ m \in 1 .. N
  OBVIOUS
<1>6. ASSUME NEW m \in T PROVE m <= n
  <2>1. N - n <= N - m /\ m \in 1 .. N /\ n \in 1 .. N
    BY <1>3, <1>4, <1>5
  <2> QED
    BY <2>1
<1> QED
  BY <1>6

\* A wave is of calls that may go together: at least one, and as many as are
\* left and allowed.
LEMMA WaveIsSafe ==
    ASSUME LoopAssumption, LInv, loop.cursor # Len(loop.calls)
    PROVE  /\ WaveLength \in 1 .. Limit /\ loop.cursor + WaveLength <= Len(loop.calls)
           /\ \A i, j \in 1 .. WaveLength : i # j =>
                /\ {loop.calls[loop.cursor + i], loop.calls[loop.cursor + j]} \notin Conflicts
                /\ loop.calls[loop.cursor + i] \notin Serial
<1> DEFINE rest == SubSeq(loop.calls, loop.cursor + 1, Len(loop.calls))
           Joins(n) == \A k \in 2 .. n : /\ rest[1] \notin Serial /\ rest[k] \notin Serial
                                         /\ Compatible(rest[k], {rest[j] : j \in 1 .. k - 1})
           T == {n \in 1 .. Len(rest) : n <= Limit /\ Joins(n)}
<1>1. loop.calls \in Seq(Calls) /\ loop.cursor \in Nat /\ loop.cursor < Len(loop.calls) /\ Len(loop.calls) \in Nat
  BY DEF LInv, Types, LoopRecord, Placed
<1>2. /\ Len(rest) = Len(loop.calls) - loop.cursor
      /\ \A i \in 1 .. Len(rest) : rest[i] = loop.calls[loop.cursor + i]
  <2>1. \A i \in loop.cursor + 1 .. Len(loop.calls) : loop.calls[i] \in Calls
    BY <1>1
  <2>2. /\ Len(rest) = Len(loop.calls) - (loop.cursor + 1) + 1
        /\ \A i \in 1 .. Len(loop.calls) - (loop.cursor + 1) + 1 : rest[i] = loop.calls[(loop.cursor + 1) + i - 1]
    BY <1>1, <2>1, SubSeqProperties
  <2> HIDE DEF rest
  <2>3. Len(rest) = Len(loop.calls) - loop.cursor
    BY <1>1, <2>2
  <2>4. ASSUME NEW i \in 1 .. Len(rest) PROVE rest[i] = loop.calls[loop.cursor + i]
    <3>1. (loop.cursor + 1) + i - 1 = loop.cursor + i /\ i \in 1 .. Len(loop.calls) - (loop.cursor + 1) + 1
      BY <1>1, <2>3
    <3> QED
      BY <2>2, <3>1
  <2> QED
    BY <2>3, <2>4
<1>3. WaveLength = CHOOSE n \in 1 .. Len(rest) : /\ n <= Limit /\ Joins(n)
                                                 /\ \A m \in n + 1 .. Len(rest) : m > Limit \/ ~Joins(m)
  BY DEF WaveLength
<1> HIDE DEF rest
<1>4. Limit \in Nat \ {0} /\ Len(rest) \in Nat \ {0}
  BY <1>1, <1>2 DEF LoopAssumption
<1>5. \E n \in 1 .. Len(rest) : /\ n <= Limit /\ Joins(n)
                                /\ \A m \in n + 1 .. Len(rest) : m > Limit \/ ~Joins(m)
  <2>1. Joins(1)
    OBVIOUS
  <2>2. 1 \in T
    BY <1>4, <2>1
  <2> HIDE DEF Joins
  <2>3. T \subseteq 1 .. Len(rest) /\ T # {}
    BY <2>2
  <2>4. PICK n \in T : \A m \in T : m <= n
    BY <1>4, <2>3, Largest
  <2>5. \A m \in n + 1 .. Len(rest) : m > Limit \/ ~Joins(m)
    BY <1>4, <2>3, <2>4
  <2> QED
    BY <2>4, <2>5
<1> DEFINE w == WaveLength
<1>6. w \in 1 .. Len(rest) /\ w <= Limit /\ Joins(w)
  <2> HIDE DEF Joins
  <2> QED
    BY <1>3, <1>5
<1>7. w \in 1 .. Limit /\ loop.cursor + w <= Len(loop.calls)
  BY <1>1, <1>2, <1>4, <1>6
<1> HIDE DEF w
<1>8. ASSUME NEW i \in 1 .. w, NEW j \in 1 .. w, j < i
      PROVE  /\ rest[i] \notin Serial /\ rest[j] \notin Serial
             /\ {rest[i], rest[j]} \notin Conflicts /\ {rest[j], rest[i]} \notin Conflicts
  <2>1. i \in 2 .. w /\ j \in 1 .. i - 1
    BY <1>4, <1>6, <1>8
  <2>2. rest[1] \notin Serial /\ rest[i] \notin Serial /\ Compatible(rest[i], {rest[k] : k \in 1 .. i - 1})
    BY <1>6, <2>1
  <2>3. {rest[i], rest[j]} \notin Conflicts
    BY <2>1, <2>2 DEF Compatible
  <2>4. rest[j] \notin Serial
    <3>1. CASE j = 1
      BY <2>2, <3>1
    <3>2. CASE j # 1
      <4>1. j \in 2 .. w
        BY <1>4, <1>6, <2>1, <3>2
      <4> QED
        BY <1>6, <4>1
    <3> QED
      BY <3>1, <3>2
  <2>5. {rest[j], rest[i]} = {rest[i], rest[j]}
    OBVIOUS
  <2> QED
    BY <2>2, <2>3, <2>4, <2>5
<1>9. \A i \in 1 .. w : rest[i] = loop.calls[loop.cursor + i]
  BY <1>2, <1>4, <1>6
<1>10. \A i, j \in 1 .. w : i # j =>
         /\ {loop.calls[loop.cursor + i], loop.calls[loop.cursor + j]} \notin Conflicts
         /\ loop.calls[loop.cursor + i] \notin Serial
  <2>1. ASSUME NEW i \in 1 .. w, NEW j \in 1 .. w, i # j
        PROVE  {rest[i], rest[j]} \notin Conflicts /\ rest[i] \notin Serial
    <3>1. i < j \/ j < i
      BY <1>4, <1>6, <2>1
    <3> QED
      BY <1>8, <3>1
  <2> QED
    BY <1>9, <2>1
<1> QED
  BY <1>7, <1>10 DEF w

LEMMA WaveKeeps ==
    ASSUME LoopAssumption, LInv, Wave
    PROVE  LInv'
<1>1. UNCHANGED <<log, run, began, faults>> /\ loop.pc = "wave"
  BY DEF Wave
<1>2. loop \in LoopRecord /\ tool \in [Calls -> Stage]
  BY DEF LInv, Types
<1>3. /\ OpenTools = Left(loop.cursor + 1) /\ OpenTools \subseteq Left(1)
      /\ faults = 0 => OpenModels = {}
  BY <1>1 DEF LInv, Opened, Faultless
<1>4. \A c \in Calls : tool[c] = "none"
  BY <1>1 DEF LInv, Waving
<1>5. ASSUME loop.cursor = Len(loop.calls), NEW place \in {"end", "before"}, Goto(place), UNCHANGED tool
      PROVE  LInv'
  <2>1. loop'.pc = place /\ Stays
    BY <1>1, <1>2, <1>5 DEF Goto, Stays, LoopRecord, Place
  <2>2. OpenTools = {}
    BY <1>2, <1>3, <1>5 DEF Left, LoopRecord
  <2>3. Waving' /\ Acted'
    BY <1>4, <1>5, <2>1 DEF Waving, Acted
  <2>4. Opened' /\ Faultless'
    BY <1>1, <1>3, <2>1, <2>2, StaysKeeps DEF Opened, Faultless, Stays
  <2> QED
    BY <2>1, <2>3, <2>4, StaysKeeps DEF LInv
<1>6. ASSUME Goto("unstarted"), UNCHANGED tool
      PROVE  LInv'
  <2>1. loop'.pc = "unstarted" /\ Stays
    BY <1>1, <1>2, <1>6 DEF Goto, Stays, LoopRecord, Place
  <2>2. loop'.cursor = loop.cursor /\ loop'.calls = loop.calls
    BY <2>1 DEF Stays
  <2>3. OpenTools' = OpenTools /\ OpenModels' = OpenModels /\ (\A i : Left(i)' = Left(i)) /\ \A c : Me(c)' = Me(c)
    BY <2>1, StaysKeeps
  <2>4. Waving'
    BY <1>4, <1>6, <2>1 DEF Waving
  <2>5. Acted'
    BY <1>1, <2>1, <2>2, <2>3 DEF LInv, Acted
  <2>6. Opened' /\ Faultless'
    BY <1>1, <1>3, <2>1, <2>2, <2>3 DEF Opened, Faultless
  <2> QED
    BY <2>1, <2>4, <2>5, <2>6, StaysKeeps DEF LInv
<1>7. ASSUME loop.cursor # Len(loop.calls), NEW w, w = WaveLength,
             loop' = [loop EXCEPT !.pc = "tools", !.wave = w, !.index = 1, !.err = FALSE],
             tool' = [c \in Calls |-> IF \E i \in 1 .. w : loop.calls[loop.cursor + i] = c THEN "ready" ELSE "none"]
      PROVE  LInv'
  <2>1. /\ w \in 1 .. Limit /\ loop.cursor + w <= Len(loop.calls)
        /\ \A i, j \in 1 .. w : i # j =>
             /\ {loop.calls[loop.cursor + i], loop.calls[loop.cursor + j]} \notin Conflicts
             /\ loop.calls[loop.cursor + i] \notin Serial
    BY <1>7, WaveIsSafe
  <2>2. w \in Nat \ {0} /\ 1 \in 1 .. w
    BY <2>1 DEF LoopAssumption
  <2>3. tool' \in [Calls -> Stage]
    BY <1>7 DEF Stage
  <2>4. /\ loop'.pc = "tools" /\ loop'.wave = w /\ loop'.index = 1 /\ loop'.err = FALSE
        /\ loop'.cursor = loop.cursor /\ loop'.calls = loop.calls /\ loop'.blocked = loop.blocked /\ Stays
    BY <1>1, <1>2, <1>7, <2>2, <2>3 DEF Stays, LoopRecord, Place
  <2>5. OpenTools' = OpenTools /\ OpenModels' = OpenModels /\ (\A i : Left(i)' = Left(i)) /\ \A c : Me(c)' = Me(c)
    BY <2>4, StaysKeeps
  <2>6. InWave' = {loop.calls[loop.cursor + i] : i \in 1 .. w}
    BY <2>4 DEF InWave
  <2>7. \A c \in Calls : (tool'[c] = "ready" <=> c \in InWave') /\ (tool'[c] # "none" <=> c \in InWave')
    BY <1>7, <2>6
  <2>8. Waving'
    <3>1. /\ loop'.wave \in 1 .. Limit /\ loop'.cursor + loop'.wave <= Len(loop'.calls)
          /\ loop'.index \in 1 .. loop'.wave /\ ~ (loop'.index > 1)
      BY <2>1, <2>2, <2>4
    <3>2. \A i, j \in 1 .. loop'.wave : i # j =>
             /\ {loop'.calls[loop'.cursor + i], loop'.calls[loop'.cursor + j]} \notin Conflicts
             /\ loop'.calls[loop'.cursor + i] \notin Serial
      BY <2>1, <2>4
    <3> QED
      BY <2>4, <2>7, <3>1, <3>2 DEF Waving
  <2>9. Opened' /\ Faultless'
    BY <1>1, <1>3, <2>4, <2>5 DEF Opened, Faultless
  <2>10. \A j \in loop.cursor + 1 .. Len(loop.calls) : Me(loop.calls[j]) \notin began
    BY <1>1 DEF LInv, Acted
  <2>11. ASSUME NEW c \in InWave'
         PROVE  Me(c) \notin began /\ tool'[c] = "ready"
    <3>1. PICK i \in 1 .. w : c = loop.calls[loop.cursor + i]
      BY <2>6
    <3>2. loop.cursor + i \in loop.cursor + 1 .. Len(loop.calls)
      BY <1>2, <2>1, <2>2 DEF LoopRecord
    <3>3. c \in Calls
      BY <1>2, <3>1, <3>2 DEF LoopRecord
    <3> QED
      BY <2>7, <2>10, <3>1, <3>2, <3>3
  <2>12. Acted'
    <3>1. \A r \in log, c \in Calls :
           /\ r.kind = "tool_intent" /\ r.id = Me(c)
           /\ c \in ToSet(loop.calls) /\ c \notin loop.blocked
           => r.info # "no_effect"
      BY <1>1 DEF LInv, Acted
    <3> QED
      BY <1>1, <2>4, <2>5, <2>10, <2>11, <3>1 DEF Acted
  <2> QED
    BY <2>4, <2>8, <2>9, <2>12, StaysKeeps DEF LInv
<1>8. CASE loop.cursor = Len(loop.calls)
  BY <1>5, <1>8 DEF Wave
<1>9. CASE loop.cursor # Len(loop.calls)
  BY <1>6, <1>7, <1>9 DEF Wave
<1> QED
  BY <1>8, <1>9

\* A tool starts, or not, for a call of the wave, before any outcome of the
\* wave is recorded.
LEMMA ReadyIsOpen ==
    ASSUME LInv, NEW c \in Calls, tool[c] = "ready"
    PROVE  /\ loop.pc = "tools" /\ loop.index = 1 /\ c \in InWave /\ c \in ToSet(loop.calls)
           /\ Me(c) \in OpenTools /\ Me(c) \notin began
           /\ \A j \in loop.cursor + loop.wave + 1 .. Len(loop.calls) : loop.calls[j] # c
<1>1. loop.pc = "tools"
  BY DEF LInv, Waving
<1>2. c \in InWave /\ ~ (loop.index > 1) /\ loop.index \in 1 .. loop.wave
  BY <1>1 DEF LInv, Waving
<1>3. loop.calls \in Seq(Calls) /\ loop.cursor \in Nat /\ loop.wave \in Nat /\ loop.index \in Nat
  BY DEF LInv, Types, LoopRecord
<1>4. loop.index = 1
  BY <1>2, <1>3
<1>5. PICK i \in 1 .. loop.wave : c = loop.calls[loop.cursor + i]
  BY <1>2 DEF InWave
<1>6. loop.cursor + i \in loop.cursor + 1 .. Len(loop.calls) /\ loop.cursor + i \in 1 .. Len(loop.calls)
  BY <1>1, <1>3, <1>5 DEF LInv, Waving
<1>7. c \in ToSet(loop.calls)
  BY <1>5, <1>6 DEF ToSet
<1>8. Me(c) \in OpenTools
  BY <1>1, <1>4, <1>5, <1>6 DEF LInv, Opened, Left
<1>9. Me(c) \notin began
  BY <1>1, <1>2 DEF LInv, Acted
<1>10. \A j \in loop.cursor + loop.wave + 1 .. Len(loop.calls) : loop.calls[j] # c
  <2>1. ASSUME NEW j \in loop.cursor + loop.wave + 1 .. Len(loop.calls), loop.calls[j] = c
        PROVE  FALSE
    <3>1. j \in 1 .. Len(loop.calls) /\ j # loop.cursor + i
      BY <1>3, <2>1
    <3> QED
      BY <1>5, <1>6, <2>1, <3>1 DEF LInv, Placed
  <2> QED
    BY <2>1
<1> QED
  BY <1>1, <1>2, <1>4, <1>7, <1>8, <1>9, <1>10

\* A step of a tool of the wave: it has the stage x now.
LEMMA ToolMoves ==
    ASSUME LInv, NEW c \in Calls, NEW x \in Stage, tool' = [tool EXCEPT ![c] = x], x # "none",
           loop.pc = "tools", c \in InWave, UNCHANGED <<log, run, loop, faults>>,
           loop.index > 1 => x \notin {"ready", "running"}
    PROVE  /\ Types' /\ Placed' /\ Waving' /\ Opened' /\ Faultless'
           /\ InWave' = InWave /\ OpenTools' = OpenTools /\ \A d : Me(d)' = Me(d)
           /\ \A d \in Calls : tool'[d] = IF d = c THEN x ELSE tool[d]
<1>1. tool \in [Calls -> Stage]
  BY DEF LInv, Types
<1>2. Types'
  BY <1>1 DEF LInv, Types
<1>3. \A d \in Calls : tool'[d] = IF d = c THEN x ELSE tool[d]
  BY <1>1
<1>4. Placed'
  BY DEF LInv, Placed
<1>5. InWave' = InWave
  BY DEF InWave
<1>6. Waving'
  BY <1>3, <1>5 DEF LInv, Waving
<1>7. OpenTools' = OpenTools /\ OpenModels' = OpenModels
  BY QuietOpen
<1>8. (\A d : Me(d)' = Me(d)) /\ \A i : Left(i)' = Left(i)
  BY LeftKept DEF Me
<1>9. Opened' /\ Faultless'
  BY <1>7, <1>8 DEF LInv, Opened, Faultless
<1> QED
  BY <1>2, <1>3, <1>4, <1>5, <1>6, <1>7, <1>8, <1>9

LEMMA StartToolKeeps ==
    ASSUME LInv, NEW c \in Calls, StartTool(c)
    PROVE  LInv'
<1>1. tool[c] = "ready" /\ UNCHANGED <<log, run, loop, faults>>
  BY DEF StartTool
<1>2. /\ loop.pc = "tools" /\ loop.index = 1 /\ c \in InWave /\ c \in ToSet(loop.calls)
      /\ Me(c) \in OpenTools /\ Me(c) \notin began
      /\ \A j \in loop.cursor + loop.wave + 1 .. Len(loop.calls) : loop.calls[j] # c
  BY <1>1, ReadyIsOpen
<1>3. PICK x \in {"skipped", "answered", "running"} :
        /\ tool' = [tool EXCEPT ![c] = x]
        /\ x # "running" => began' = began
        /\ x = "running" => began' = began \cup {Me(c)} /\ c \notin loop.blocked
  BY DEF StartTool, Skipped, Answered
<1>4. x \in Stage /\ x # "none" /\ tool' = [tool EXCEPT ![c] = x] /\ (loop.index > 1 => x \notin {"ready", "running"})
  BY <1>2, <1>3 DEF Stage
<1>5. /\ Types' /\ Placed' /\ Waving' /\ Opened' /\ Faultless'
      /\ InWave' = InWave /\ OpenTools' = OpenTools /\ \A d : Me(d)' = Me(d)
      /\ \A d \in Calls : tool'[d] = IF d = c THEN x ELSE tool[d]
  BY <1>1, <1>2, <1>4, ToolMoves
<1>6. \A k : Ids(k)' = Ids(k)
  BY <1>1 DEF Ids
<1>7. Me(c) \in Ids("tool_intent") /\ Me(c) \notin Ids("tool_outcome")
  BY <1>2 DEF OpenTools
<1>8. Paired'
  BY <1>1, <1>3, <1>5, <1>6, <1>7 DEF LInv, Paired
<1>9. InWave \subseteq Calls
  BY <1>2 DEF LInv, Types, LoopRecord, Waving, InWave
<1>10. \A d, e : Me(d) = Me(e) => d = e
  BY DEF Me
<1>11. Acted'
  <2>1. ASSUME NEW j \in loop.cursor + 1 .. Len(loop.calls), j > loop.cursor + loop.wave
        PROVE  Me(loop.calls[j]) \notin began'
    <3>1. Me(loop.calls[j]) \notin began
      BY <1>2, <2>1 DEF LInv, Acted
    <3>2. j \in loop.cursor + loop.wave + 1 .. Len(loop.calls)
      BY <2>1 DEF LInv, Types, LoopRecord
    <3> QED
      BY <1>2, <1>3, <1>10, <3>1, <3>2
  <2>2. ASSUME NEW d \in InWave
        PROVE  IF tool'[d] \in {"running", "ran", "broke"} THEN Me(d) \in began' ELSE Me(d) \notin began'
    <3>1. IF tool[d] \in {"running", "ran", "broke"} THEN Me(d) \in began ELSE Me(d) \notin began
      BY <1>2 DEF LInv, Acted
    <3>2. CASE d = c
      BY <1>2, <1>3, <1>5, <1>9, <3>2
    <3>3. CASE d # c
      BY <1>3, <1>5, <1>9, <1>10, <3>1, <3>3
    <3> QED
      BY <3>2, <3>3
  <2>3. \A r \in log, d \in Calls :
           /\ r.kind = "tool_intent" /\ r.id = Me(d)
           /\ d \in ToSet(loop.calls) /\ d \notin loop.blocked
           => r.info # "no_effect"
    BY <1>2 DEF LInv, Acted
  <2> QED
    BY <1>1, <1>2, <1>5, <2>1, <2>2, <2>3 DEF Acted
<1>12. OutcomesAreTrue'
  <2>1. CASE x # "running"
    BY <1>1, <1>3, <2>1, QuietTruth DEF LInv
  <2>2. CASE x = "running"
    <3>1. ASSUME NEW r \in log, r.kind = "tool_outcome" PROVE r.id # Me(c)
      BY <1>7, <3>1 DEF Ids
    <3>2. ASSUME NEW r \in log, r.kind = "tool_intent", r.info = "no_effect" PROVE r.id # Me(c)
      BY <1>2, <1>3, <2>2, <3>2 DEF LInv, Acted
    <3> QED
      BY <1>1, <1>3, <2>2, <3>1, <3>2 DEF LInv, OutcomesAreTrue
  <2> QED
    BY <2>1, <2>2
<1> QED
  BY <1>5, <1>8, <1>11, <1>12 DEF LInv

LEMMA ToolReturnsKeeps ==
    ASSUME LInv, NEW c \in Calls, ToolReturns(c)
    PROVE  LInv'
<1>1. tool[c] = "running" /\ UNCHANGED <<log, run, loop, began, faults>>
  BY DEF ToolReturns
<1>2. loop.pc = "tools"
  BY <1>1 DEF LInv, Waving
<1>3. c \in InWave
  BY <1>1, <1>2 DEF LInv, Waving
<1>4. PICK x \in {"ran", "broke"} : tool' = [tool EXCEPT ![c] = x]
  BY DEF ToolReturns
<1>5. x \in Stage /\ x # "none" /\ x \notin {"ready", "running"}
  BY DEF Stage
<1>6. /\ Types' /\ Placed' /\ Waving' /\ Opened' /\ Faultless'
      /\ InWave' = InWave /\ OpenTools' = OpenTools /\ \A d : Me(d)' = Me(d)
      /\ \A d \in Calls : tool'[d] = IF d = c THEN x ELSE tool[d]
  BY <1>1, <1>2, <1>3, <1>4, <1>5, ToolMoves
<1>7. Paired'
  BY <1>1, <1>2, QuietPaired DEF LInv, Types, LoopRecord
<1>8. InWave \subseteq Calls
  BY <1>2 DEF LInv, Types, LoopRecord, Waving, InWave
<1>9. Acted'
  <2>1. \A d \in InWave : IF tool'[d] \in {"running", "ran", "broke"} THEN Me(d) \in began ELSE Me(d) \notin began
    BY <1>1, <1>2, <1>4, <1>6, <1>8 DEF LInv, Acted
  <2> QED
    BY <1>1, <1>2, <1>6, <2>1 DEF LInv, Acted
<1> QED
  BY <1>1, <1>6, <1>7, <1>9, QuietTruth DEF LInv

-----------------------------------------------------------------------------
(* The steps that append.                                                  *)

\* A run stays what it is while the loop goes on in it.
Goes(place) ==
    /\ run' = run /\ tool' = tool /\ began' = began
    /\ loop.pc # "idle" /\ loop'.pc = place /\ loop' \in LoopRecord
    /\ loop'.calls = loop.calls /\ loop'.cursor = loop.cursor /\ loop'.blocked = loop.blocked
    /\ loop'.iter >= loop.iter /\ loop'.iter <= MaxIter

LEMMA GoesKeeps ==
    ASSUME LInv, NEW place, Goes(place), loop.pc # "tools", place \notin {"idle", "tools"}, faults' \in Nat,
           place \in {"commit", "announce"} => loop.cursor = 0
    PROVE  /\ Types' /\ Placed' /\ Waving'
           /\ \A c : Me(c)' = Me(c)
           /\ \A i : Left(i)' = Left(i)
<1>1. Types'
  BY DEF Goes, LInv, Types
<1>2. Placed'
  BY DEF Goes, LInv, Placed
<1>3. Waving'
  BY DEF Goes, LInv, Waving
<1>4. (\A c : Me(c)' = Me(c)) /\ \A i : Left(i)' = Left(i)
  BY LeftKept DEF Me, Goes
<1> QED
  BY <1>1, <1>2, <1>3, <1>4

LEMMA ModelIntentKeeps ==
    ASSUME LoopAssumption, LInv, NEW verdict \in Verdict, ModelIntent(verdict)
    PROVE  LInv'
<1>1. loop \in LoopRecord /\ run.n \in Nat /\ faults \in Nat
  BY DEF LInv, Types
<1>2. PICK x : x = loop.iter + 1
  OBVIOUS
<1>3. PICK b : b = {Rec("model_intent", x, "")}
  OBVIOUS
<1>0. \A r \in b : r.kind = "model_intent" /\ r.id = Me(x)
  <2>1. Rec("model_intent", x, "").kind = "model_intent" /\ Rec("model_intent", x, "").id = Me(x)
    BY DEF Rec, Me
  <2> QED
    BY <1>3, <2>1
<1>4. Appended(b, verdict) /\ loop.pc = "before" /\ loop.iter < MaxIter /\ UNCHANGED <<run, tool, began>>
  BY <1>2, <1>3 DEF ModelIntent
<1>5. loop' = [loop EXCEPT !.iter = @ + 1, !.pc = IF Done(b, verdict) THEN "stream" ELSE "end"]
  BY <1>2, <1>3 DEF ModelIntent
<1>6. PICK place \in {"stream", "end"} : place = IF Done(b, verdict) THEN "stream" ELSE "end"
  OBVIOUS
<1>7. Goes(place) /\ loop'.iter = x
  <2>1. loop' = [loop EXCEPT !.iter = x, !.pc = place]
    BY <1>1, <1>2, <1>5, <1>6 DEF LoopRecord
  <2>2. /\ loop'.pc = place /\ loop'.iter = x /\ loop'.calls = loop.calls /\ loop'.cursor = loop.cursor
        /\ loop'.blocked = loop.blocked
    BY <1>1, <2>1 DEF LoopRecord
  <2>3. x \in Nat /\ x >= loop.iter /\ x <= MaxIter
    BY <1>1, <1>2, <1>4 DEF LoopRecord, LoopAssumption
  <2>4. loop' \in LoopRecord
    BY <1>1, <1>6, <2>1, <2>3 DEF LoopRecord, Place
  <2> QED
    BY <1>4, <2>2, <2>3, <2>4 DEF Goes
<1>8. /\ faults' \in Nat /\ faults' >= faults
      /\ log' = log \/ (log' = log \cup b /\ Fits(b))
      /\ Done(b, verdict) => log' = log \cup b /\ Fits(b) /\ faults' = faults
      /\ faults' = 0 => faults = 0 /\ verdict = "ok"
      /\ faults' = 0 /\ ~Done(b, verdict) => log' = log /\ ~Fits(b)
  BY <1>1, <1>4, AppendedOrNot
<1>9. x \in 1 .. MaxIter /\ Me(x) \in (1 .. run.n) \X (1 .. MaxIter)
  BY <1>1, <1>2, <1>4 DEF LoopRecord, Me, LoopAssumption, LInv, Paired
<1>10. Me(x) \notin Ids("model_intent") /\ Me(x) \notin Ids("model_outcome")
  <2>1. Me(x) \notin Ids("model_intent")
    BY <1>1, <1>2, <1>4, <1>9 DEF LInv, Paired, LoopRecord
  <2> QED
    BY <2>1 DEF LInv, Paired
<1>11. Fits(b)
  BY <1>0, <1>10 DEF Fits
<1>12. PICK mi \in {{}, {Me(x)}} : Gains(mi, {}, {}, {}) /\ (log' = log \cup b => mi = {Me(x)})
  BY <1>3, <1>8, IntentGains, GainsNothing
<1>13. Paired'
  <2>1. mi \subseteq (1 .. run.n) \X (1 .. MaxIter)
    BY <1>9
  <2>2. \A y \in 1 .. MaxIter : Me(y) \in mi => y <= loop'.iter
    BY <1>7, <1>9 DEF Me
  <2>3. run'.n = run.n /\ began' = began /\ loop.pc # "idle" /\ loop'.iter \in Nat /\ loop'.iter >= loop.iter
    BY <1>7 DEF Goes, LoopRecord
  <2> QED
    BY <1>12, <2>1, <2>2, <2>3, PairedKept DEF LInv
<1>14. Types' /\ Placed' /\ Waving' /\ (\A c : Me(c)' = Me(c)) /\ \A i : Left(i)' = Left(i)
  BY <1>4, <1>7, <1>8, GoesKeeps
<1>15. OpenTools = {} /\ (faults = 0 => OpenModels = {})
  BY <1>4 DEF LInv, Opened, Faultless
<1>16. OpenTools' = {}
  BY <1>12, <1>15, OpenAfter DEF OpenTools
<1>17. Opened'
  BY <1>6, <1>7, <1>16 DEF Opened, Goes
<1>18. Faultless'
  <2>1. ASSUME faults' = 0
        PROVE  loop'.pc = "stream" /\ OpenModels' = {Me(loop.iter)'}
    <3>1. faults = 0 /\ Done(b, verdict) /\ mi = {Me(x)}
      BY <1>8, <1>11, <1>12, <2>1
    <3>2. OpenModels' = {Me(x)}
      BY <1>10, <1>12, <1>15, <3>1, OpenAfter DEF OpenModels
    <3>3. Me(loop.iter)' = Me(x)
      BY <1>4, <1>7 DEF Me
    <3> QED
      BY <1>6, <1>7, <3>1, <3>2, <3>3 DEF Goes
  <2> QED
    BY <1>16, <2>1 DEF Faultless
<1>19. Acted'
  BY <1>6, <1>7 DEF Acted, Goes
<1>20. OutcomesAreTrue'
  BY <1>0, <1>4, <1>8, TruthKept DEF LInv
<1> QED
  BY <1>13, <1>14, <1>17, <1>18, <1>19, <1>20 DEF LInv

\* A failed turn, or finished calls, end the run; only outcomes are gained.
LEMMA EndKeeps ==
    ASSUME LInv, NEW batch, NEW verdict, Appended(batch, verdict), Goes("end"), loop.pc # "tools",
           loop'.iter = loop.iter, NEW mo, NEW to, Gains({}, mo, {}, to),
           mo \subseteq Ids("model_intent"), to \subseteq Ids("tool_intent"),
           OpenTools \subseteq Left(1), faults' = 0 => OpenTools' = {} /\ OpenModels' = {},
           \A r \in batch : r.kind = "tool_outcome" => r.info = "not run" /\ r.id \notin began,
           \A r \in batch : r.kind # "tool_intent"
    PROVE  LInv'
<1>1. faults \in Nat
  BY DEF LInv, Types
<1>2. faults' \in Nat /\ (log' = log \/ log' = log \cup batch)
  BY <1>1, AppendedOrNot
<1>3. Types' /\ Placed' /\ Waving' /\ (\A c : Me(c)' = Me(c)) /\ \A i : Left(i)' = Left(i)
  BY <1>2, GoesKeeps
<1>4. Paired'
  <2>1. run'.n = run.n /\ began' = began /\ loop.pc # "idle" /\ loop'.iter \in Nat /\ loop'.iter >= loop.iter
    BY DEF Goes, LoopRecord
  <2> QED
    BY <2>1, PairedKept DEF LInv
<1>5. OpenTools' \subseteq Left(1)
  <2>1. Ids("tool_intent")' = Ids("tool_intent") /\ Ids("tool_outcome") \subseteq Ids("tool_outcome")'
    BY DEF Gains
  <2> QED
    BY <2>1 DEF OpenTools
<1>6. Opened' /\ Faultless' /\ Acted'
  BY <1>3, <1>5 DEF Opened, Faultless, Acted, Goes
<1>7. OutcomesAreTrue'
  BY <1>2, TruthKept DEF LInv, Goes
<1> QED
  BY <1>3, <1>4, <1>6, <1>7 DEF LInv

LEMMA ModelFailedKeeps ==
    ASSUME LInv, NEW verdict \in Verdict, ModelFailed(verdict)
    PROVE  LInv'
<1>1. loop \in LoopRecord /\ faults \in Nat
  BY DEF LInv, Types
<1>2. PICK b : b = {Rec("model_outcome", loop.iter, "failed")}
  OBVIOUS
<1>3. \A r \in b : r.kind = "model_outcome" /\ r.id = Me(loop.iter)
  <2>1. Rec("model_outcome", loop.iter, "failed").kind = "model_outcome"
        /\ Rec("model_outcome", loop.iter, "failed").id = Me(loop.iter)
    BY DEF Rec, Me
  <2> QED
    BY <1>2, <2>1
<1>4. b # {}
  BY <1>2
<1>5. Appended(b, verdict) /\ loop.pc = "model_failed" /\ UNCHANGED <<run, tool, began>>
      /\ loop' = [loop EXCEPT !.pc = "end"]
  BY <1>2 DEF ModelFailed, Goto
<1>6. Goes("end") /\ loop'.iter = loop.iter
  BY <1>1, <1>5 DEF Goes, LoopRecord, Place, LInv, Placed
<1>7. /\ log' = log \/ (log' = log \cup b /\ Fits(b))
      /\ Done(b, verdict) => log' = log \cup b
      /\ faults' = 0 => faults = 0
      /\ faults' = 0 /\ ~Done(b, verdict) => ~Fits(b)
  BY <1>1, <1>5, AppendedOrNot
<1>8. PICK mo \in {{}, {Me(loop.iter)}} :
        /\ Gains({}, mo, {}, {})
        /\ log' = log \cup b /\ Fits(b) => mo = {Me(loop.iter)}
        /\ mo # {} => Fits(b)
  <2>1. CASE log' = log \cup b /\ Fits(b)
    <3>1. Gains({}, {Me(loop.iter)}, {}, {})
      BY <1>2, <2>1, OutcomeGains
    <3> QED
      BY <2>1, <3>1
  <2>2. CASE log' = log /\ ~ (log' = log \cup b /\ Fits(b))
    BY <2>2, GainsNothing
  <2> QED
    BY <1>7, <2>1, <2>2
<1>9. mo \subseteq Ids("model_intent")
  BY <1>3, <1>4, <1>8 DEF Fits
<1>10. OpenTools \subseteq Left(1)
  BY <1>5 DEF LInv, Opened
<1>11. ASSUME faults' = 0
       PROVE  OpenTools' = {} /\ OpenModels' = {}
  <2>1. OpenTools = {} /\ OpenModels = {Me(loop.iter)}
    BY <1>5, <1>7, <1>11 DEF LInv, Faultless
  <2>2. Fits(b)
    BY <1>3, <2>1 DEF Fits, OpenModels
  <2>3. mo = {Me(loop.iter)}
    BY <1>7, <1>8, <1>11, <2>2
  <2> QED
    BY <1>8, <2>1, <2>3, OpenAfter DEF OpenTools, OpenModels
<1> QED
  BY <1>3, <1>5, <1>6, <1>8, <1>9, <1>10, <1>11, EndKeeps

\* The identities of the calls that have not been started.
LEMMA UnstartedIds ==
    {Me(c) : c \in Unstarted} = Left(loop.cursor + 1)
BY DEF Unstarted, Left

LEMMA FinishUnstartedKeeps ==
    ASSUME LInv, NEW verdict \in Verdict, FinishUnstarted(verdict)
    PROVE  LInv'
<1>1. loop \in LoopRecord /\ faults \in Nat
  BY DEF LInv, Types
<1>2. PICK S : S = Unstarted
  OBVIOUS
<1>3. PICK b : b = UNION {Settled(c, "not run") : c \in S}
  OBVIOUS
<1>4. PICK own : own = {Me(c) : c \in S}
  OBVIOUS
<1>5. own = Left(loop.cursor + 1)
  BY <1>2, <1>4, UnstartedIds
<1>6. \A r \in b : /\ r.kind \in {"tool_outcome", "result"} /\ r.id \in own
                   /\ r.kind = "tool_outcome" => r.info = "not run"
  <2>1. ASSUME NEW c \in S, NEW r \in Settled(c, "not run")
        PROVE  /\ r.kind \in {"tool_outcome", "result"} /\ r.id \in own
               /\ r.kind = "tool_outcome" => r.info = "not run"
    <3>1. Me(c) \in own
      BY <1>4
    <3>2. r = Rec("tool_outcome", c, "not run") \/ r = Rec("result", c, "")
      BY DEF Settled
    <3>3. /\ Rec("tool_outcome", c, "not run").kind = "tool_outcome" /\ Rec("tool_outcome", c, "not run").id = Me(c)
          /\ Rec("tool_outcome", c, "not run").info = "not run"
          /\ Rec("result", c, "").kind = "result" /\ Rec("result", c, "").id = Me(c)
      BY DEF Rec, Me
    <3> QED
      BY <3>1, <3>2, <3>3
  <2> QED
    BY <1>3, <2>1
<1>7. \A i \in own : \E r \in b : r.kind = "tool_outcome" /\ r.id = i
  <2>1. ASSUME NEW c \in S PROVE \E r \in Settled(c, "not run") : r.kind = "tool_outcome" /\ r.id = Me(c)
    <3>1. Rec("tool_outcome", c, "not run") \in Settled(c, "not run")
      BY DEF Settled
    <3>2. Rec("tool_outcome", c, "not run").kind = "tool_outcome" /\ Rec("tool_outcome", c, "not run").id = Me(c)
      BY DEF Rec, Me
    <3> QED
      BY <3>1, <3>2
  <2> QED
    BY <1>3, <1>4, <2>1
<1>8. Appended(b, verdict) /\ loop.pc = "unstarted" /\ UNCHANGED <<run, tool, began>>
      /\ loop' = [loop EXCEPT !.pc = "end"]
  BY <1>2, <1>3 DEF FinishUnstarted, Goto
<1>9. Goes("end") /\ loop'.iter = loop.iter
  BY <1>1, <1>8 DEF Goes, LoopRecord, Place, LInv, Placed
<1>10. /\ log' = log \/ (log' = log \cup b /\ Fits(b))
       /\ Done(b, verdict) => log' = log \cup b
       /\ faults' = 0 => faults = 0
       /\ faults' = 0 /\ ~Done(b, verdict) => ~Fits(b)
  BY <1>1, <1>8, AppendedOrNot
<1>11. log' = log \cup b => Gains({}, {}, {}, own)
  BY <1>3, <1>4, SettledGains
<1>12. PICK to \in {{}, own} :
         /\ Gains({}, {}, {}, to)
         /\ log' = log \cup b /\ Fits(b) => to = own
         /\ to # {} => Fits(b)
  <2>1. CASE log' = log \cup b /\ Fits(b)
    BY <1>11, <2>1
  <2>2. CASE log' = log /\ ~ (log' = log \cup b /\ Fits(b))
    BY <2>2, GainsNothing
  <2> QED
    BY <1>10, <2>1, <2>2
<1>13. to \subseteq Ids("tool_intent")
  <2>1. \A p \in b : p.kind # "tool_intent"
    BY <1>6
  <2> QED
    BY <1>7, <1>12, <2>1 DEF Fits
<1>14. OpenTools \subseteq Left(1)
  BY <1>8 DEF LInv, Opened
<1>15. \A i \in own : i \notin began
  BY <1>5, <1>8 DEF LInv, Acted, Left
<1>16. ASSUME faults' = 0
       PROVE  OpenTools' = {} /\ OpenModels' = {}
  <2>1. OpenTools = own /\ OpenModels = {}
    BY <1>5, <1>8, <1>10, <1>16 DEF LInv, Faultless
  <2>2. Ids("result") = Ids("tool_outcome")
    BY DEF LInv, Paired
  <2>3. Fits(b)
    BY <1>6, <2>1 DEF Fits, OpenTools
  <2>4. to = own
    BY <1>10, <1>12, <1>16, <2>3
  <2> QED
    BY <1>12, <2>1, <2>4, OpenAfter DEF OpenTools, OpenModels
<1>17. \A r \in b : r.kind # "tool_intent" /\ (r.kind = "tool_outcome" => r.info = "not run" /\ r.id \notin began)
  BY <1>6, <1>15
<1> QED
  BY <1>8, <1>9, <1>12, <1>13, <1>14, <1>16, <1>17, EndKeeps

\* The identities of the calls of the response.
LEMMA OwnCalls ==
    ASSUME LInv
    PROVE  /\ Own = Left(1)
           /\ loop.pc # "idle" => Own \subseteq (1 .. run.n) \X Calls
           /\ \A c : Me(c) \in Own <=> c \in ToSet(loop.calls)
<1>1. loop.calls \in Seq(Calls)
  BY DEF LInv, Types, LoopRecord
<1>2. ToSet(loop.calls) = {loop.calls[j] : j \in 1 .. Len(loop.calls)}
  <2>1. DOMAIN loop.calls = 1 .. Len(loop.calls)
    BY <1>1
  <2> QED BY <2>1 DEF ToSet
<1>3. Own = Left(1)
  BY <1>2 DEF Own, Left
<1>4. \A c : Me(c) \in Own <=> c \in ToSet(loop.calls)
  BY DEF Own, Me
<1>5. ASSUME loop.pc # "idle"
      PROVE  Own \subseteq (1 .. run.n) \X Calls
  <2>1. run.n \in 1 .. run.n
    BY <1>5 DEF LInv, Types, Paired
  <2>2. ToSet(loop.calls) \subseteq Calls
    BY <1>1, <1>2
  <2> QED
    BY <2>1, <2>2 DEF Own, Me
<1> QED
  BY <1>3, <1>4, <1>5

\* What the records of a response are.
LEMMA ResponseRecords ==
    ASSUME NEW r \in Response
    PROVE  /\ r.kind \in {"model_outcome", "call", "tool_intent", "tool_outcome", "result"}
           /\ r.kind = "model_outcome" => r.id = Me(loop.iter)
           /\ r.kind # "model_outcome" => r.id \in Own
           /\ r.kind = "tool_intent" /\ r.info = "no_effect" /\ loop.prepared =>
                \E c \in loop.blocked : r.id = Me(c)
           /\ r.kind = "tool_outcome" => r.info = "not run" /\ ~loop.prepared
<1>1. \A c \in ToSet(loop.calls) : Me(c) \in Own
  BY DEF Own
<1>2. CASE r = Rec("model_outcome", loop.iter, "succeeded")
  BY <1>2 DEF Rec, Me
<1>3. ASSUME NEW c \in ToSet(loop.calls), r = Rec("call", c, "")
      PROVE  r.kind = "call" /\ r.id \in Own
  <2>1. Rec("call", c, "").kind = "call" /\ Rec("call", c, "").id = Me(c)
    BY DEF Rec, Me
  <2> QED
    BY <1>1, <1>3, <2>1
<1>4. ASSUME NEW c \in ToSet(loop.calls),
             r = Rec("tool_intent", c, IF c \in loop.blocked \/ ~loop.prepared THEN "no_effect" ELSE "plain")
      PROVE  /\ r.kind = "tool_intent" /\ r.id \in Own /\ r.id = Me(c)
             /\ r.info = "no_effect" /\ loop.prepared => c \in loop.blocked
  <2>1. PICK info : info = IF c \in loop.blocked \/ ~loop.prepared THEN "no_effect" ELSE "plain"
    OBVIOUS
  <2>2. Rec("tool_intent", c, info).kind = "tool_intent" /\ Rec("tool_intent", c, info).id = Me(c)
        /\ Rec("tool_intent", c, info).info = info
    BY DEF Rec, Me
  <2>3. r = Rec("tool_intent", c, info)
    BY <1>4, <2>1
  <2> QED
    BY <1>1, <2>1, <2>2, <2>3
<1>5. ASSUME NEW c \in ToSet(loop.calls), r \in Settled(c, "not run"), ~loop.prepared
      PROVE  r.kind \in {"tool_outcome", "result"} /\ r.id \in Own /\ (r.kind = "tool_outcome" => r.info = "not run")
  <2>1. r = Rec("tool_outcome", c, "not run") \/ r = Rec("result", c, "")
    BY <1>5 DEF Settled
  <2>2. /\ Rec("tool_outcome", c, "not run").kind = "tool_outcome" /\ Rec("tool_outcome", c, "not run").id = Me(c)
        /\ Rec("tool_outcome", c, "not run").info = "not run"
        /\ Rec("result", c, "").kind = "result" /\ Rec("result", c, "").id = Me(c)
    BY DEF Rec, Me
  <2> QED
    BY <1>1, <2>1, <2>2
<1> QED
  BY <1>2, <1>3, <1>4, <1>5 DEF Response

LEMMA ResponseHas ==
    /\ \E r \in Response : r.kind = "model_outcome" /\ r.id = Me(loop.iter)
    /\ \A i \in Own : \E r \in Response : r.kind = "tool_intent" /\ r.id = i
<1>1. Rec("model_outcome", loop.iter, "succeeded") \in Response
  BY DEF Response
<1>2. Rec("model_outcome", loop.iter, "succeeded").kind = "model_outcome"
      /\ Rec("model_outcome", loop.iter, "succeeded").id = Me(loop.iter)
  BY DEF Rec, Me
<1>3. ASSUME NEW c \in ToSet(loop.calls)
      PROVE  \E r \in Response : r.kind = "tool_intent" /\ r.id = Me(c)
  <2>1. PICK info : info = IF c \in loop.blocked \/ ~loop.prepared THEN "no_effect" ELSE "plain"
    OBVIOUS
  <2>2. Rec("tool_intent", c, info) \in Response
    BY <2>1 DEF Response
  <2>3. Rec("tool_intent", c, info).kind = "tool_intent" /\ Rec("tool_intent", c, info).id = Me(c)
    BY DEF Rec, Me
  <2> QED
    BY <2>2, <2>3
<1> QED
  BY <1>1, <1>2, <1>3 DEF Own

\* A response that fits is of calls nobody has seen in the run.
LEMMA ResponseIsNew ==
    ASSUME LInv, Fits(Response)
    PROVE  /\ Own \cap Ids("tool_intent") = {} /\ Own \cap Ids("tool_outcome") = {} /\ Own \cap began = {}
           /\ Me(loop.iter) \in Ids("model_intent") /\ Me(loop.iter) \notin Ids("model_outcome")
<1>1. Own \cap Ids("tool_intent") = {}
  BY ResponseHas DEF Fits
<1>2. Ids("tool_outcome") \subseteq Ids("tool_intent") /\ began \subseteq Ids("tool_intent")
  BY DEF LInv, Paired
<1>3. Me(loop.iter) \in Ids("model_intent") /\ Me(loop.iter) \notin Ids("model_outcome")
  BY ResponseHas DEF Fits
<1> QED
  BY <1>1, <1>2, <1>3

\* A response is committed as a whole or not at all.
LEMMA CommitKeeps ==
    ASSUME LInv, NEW verdict \in Verdict, Commit(verdict)
    PROVE  LInv'
<1>1. loop \in LoopRecord /\ faults \in Nat
  BY DEF LInv, Types
<1>2. loop.pc = "commit" /\ UNCHANGED <<run, tool, began>> /\ loop.cursor = 0
  BY DEF Commit, LInv, Placed
<1>3. OpenTools = {} /\ (faults = 0 => OpenModels = {Me(loop.iter)})
  BY <1>2 DEF LInv, Opened, Faultless
<1>4. ASSUME NEW place \in {"model_failed", "announce", "end"}, loop' = [loop EXCEPT !.pc = place]
      PROVE  Goes(place) /\ loop'.iter = loop.iter
  <2>1. place \in Place /\ place # "idle"
    BY DEF Place
  <2>2. loop' \in LoopRecord /\ loop'.pc = place /\ loop'.iter = loop.iter /\ loop.iter \in Nat
    BY <1>1, <1>4, <2>1 DEF LoopRecord
  <2>3. loop'.calls = loop.calls /\ loop'.cursor = loop.cursor /\ loop'.blocked = loop.blocked
    BY <1>1, <1>4 DEF LoopRecord
  <2>4. loop.iter <= MaxIter /\ loop'.iter >= loop.iter
    BY <2>2 DEF LInv, Placed
  <2> QED
    BY <1>2, <2>2, <2>3, <2>4 DEF Goes
<1>5. ASSUME log' = log, loop' = [loop EXCEPT !.pc = "model_failed"], faults' \in Nat, faults' = 0 => faults = 0
      PROVE  LInv'
  <2>1. Goes("model_failed") /\ loop'.iter = loop.iter
    BY <1>4, <1>5
  <2>2. Types' /\ Placed' /\ Waving' /\ (\A c : Me(c)' = Me(c)) /\ \A i : Left(i)' = Left(i)
    BY <1>2, <1>5, <2>1, GoesKeeps
  <2>3. OpenTools' = {} /\ OpenModels' = OpenModels
    BY <1>3, <1>5, QuietOpen
  <2>4. Paired'
    <3>1. run'.n = run.n /\ began' = began /\ loop.pc # "idle" /\ loop'.iter \in Nat /\ loop'.iter >= loop.iter
      BY <2>1 DEF Goes, LoopRecord
    <3> QED
      BY <1>5, <3>1, QuietPaired DEF LInv
  <2>5. Opened' /\ Acted'
    BY <2>1, <2>3 DEF Opened, Acted, Goes
  <2>6. Faultless'
    BY <1>3, <1>5, <2>1, <2>2, <2>3 DEF Faultless, Goes
  <2> QED
    BY <1>2, <1>5, <2>2, <2>4, <2>5, <2>6, QuietTruth DEF LInv
<1>6. ASSUME log' = log \cup Response, Fits(Response), faults' \in Nat, faults' = 0 => faults = 0,
             NEW place \in {"model_failed", "announce", "end"}, loop' = [loop EXCEPT !.pc = place],
             faults' = 0 => place # "model_failed",
             place = "announce" => loop.prepared, place = "end" => ~loop.prepared
      PROVE  LInv'
  <2>1. Goes(place) /\ loop'.iter = loop.iter
    BY <1>4, <1>6
  <2>2. Types' /\ Placed' /\ Waving' /\ (\A c : Me(c)' = Me(c)) /\ \A i : Left(i)' = Left(i)
    BY <1>2, <1>6, <2>1, GoesKeeps
  <2>3. PICK out, mo : out = (IF loop.prepared THEN {} ELSE Own) /\ mo = {Me(loop.iter)}
    OBVIOUS
  <2>4. Gains({}, mo, Own, out)
    BY <1>6, <2>3, ResponseGains
  <2>5. /\ Own \cap Ids("tool_intent") = {} /\ Own \cap Ids("tool_outcome") = {} /\ Own \cap began = {}
        /\ Me(loop.iter) \in Ids("model_intent") /\ Me(loop.iter) \notin Ids("model_outcome")
    BY <1>6, ResponseIsNew
  <2>6. Own = Left(1) /\ Own \subseteq (1 .. run.n) \X Calls
    BY <1>2, OwnCalls
  <2>7. Paired'
    <3>1. run'.n = run.n /\ began' = began /\ loop.pc # "idle" /\ loop'.iter \in Nat /\ loop'.iter >= loop.iter
      BY <2>1 DEF Goes, LoopRecord
    <3>2. mo \subseteq Ids("model_intent") /\ out \subseteq Own
      BY <2>3, <2>5
    <3> QED
      BY <2>4, <2>6, <3>1, <3>2, PairedKept DEF LInv
  <2>8. OpenTools' = IF loop.prepared THEN Own ELSE {}
    <3>1. OpenTools' = (Ids("tool_intent") \cup Own) \ (Ids("tool_outcome") \cup out)
      BY <2>4, OpenAfter
    <3>2. Ids("tool_intent") \subseteq Ids("tool_outcome")
      BY <1>3 DEF OpenTools
    <3> QED
      BY <2>3, <2>5, <3>1, <3>2
  <2>9. faults' = 0 => OpenModels' = {}
    <3>1. OpenModels' = (Ids("model_intent") \cup {}) \ (Ids("model_outcome") \cup mo)
      BY <2>4, OpenAfter
    <3> QED
      BY <1>3, <1>6, <2>3, <3>1 DEF OpenModels
  <2>10. Opened'
    BY <1>2, <1>6, <2>1, <2>2, <2>6, <2>8 DEF Opened, Goes
  <2>11. Faultless'
    BY <1>6, <2>1, <2>8, <2>9 DEF Faultless, Goes
  <2>12. Acted'
    <3>1. ASSUME NEW j \in 1 .. Len(loop.calls) PROVE Me(loop.calls[j]) \notin began
      BY <2>5, <2>6 DEF Left
    <3>2. ASSUME place = "announce", NEW r \in log', NEW c \in Calls, r.kind = "tool_intent", r.id = Me(c),
                 c \in ToSet(loop.calls), c \notin loop.blocked
          PROVE  r.info # "no_effect"
      <4>1. Me(c) \in Own
        BY <3>2 DEF Own
      <4>2. r \notin log
        BY <2>5, <3>2, <4>1 DEF Ids
      <4>3. r \in Response
        BY <1>6, <3>2, <4>2
      <4>4. \A d : Me(d) = Me(c) => d = c
        BY DEF Me
      <4> QED
        BY <1>6, <3>2, <4>3, <4>4, ResponseRecords
    <3> QED
      BY <1>2, <1>6, <2>1, <2>2, <3>1, <3>2 DEF Acted, Goes
  <2>13. OutcomesAreTrue'
    <3>1. ASSUME NEW r \in Response
          PROVE  /\ r.kind = "tool_outcome" /\ r.info \in {"not run", "answered"} => r.id \notin began
                 /\ r.kind = "tool_outcome" /\ r.info = "ran" => r.id \in began
                 /\ r.kind = "tool_intent" /\ r.info = "no_effect" => r.id \notin began
      BY <2>5, ResponseRecords
    <3> QED
      BY <1>2, <1>6, <3>1, TruthKept DEF LInv
  <2> QED
    BY <2>2, <2>7, <2>10, <2>11, <2>12, <2>13 DEF LInv
<1>7. CASE run.cancelled /\ loop.prepared
  BY <1>1, <1>5, <1>7 DEF Commit, Goto, AfterCommit
<1>8. CASE ~ (run.cancelled /\ loop.prepared)
  <2>1. Appended(Response, verdict) /\ Goto(AfterCommit(Done(Response, verdict)))
    BY <1>8 DEF Commit
  <2>2. /\ faults' \in Nat
        /\ log' = log \/ (log' = log \cup Response /\ Fits(Response))
        /\ Done(Response, verdict) => log' = log \cup Response /\ Fits(Response) /\ faults' = faults
        /\ faults' = 0 => faults = 0
        /\ faults' = 0 /\ ~Done(Response, verdict) => log' = log
    BY <1>1, <2>1, AppendedOrNot
  <2>3. CASE ~Done(Response, verdict)
    <3>1. loop' = [loop EXCEPT !.pc = "model_failed"]
      BY <2>1, <2>3 DEF Goto, AfterCommit
    <3>2. CASE log' = log
      BY <1>5, <2>2, <3>1, <3>2
    <3>3. CASE log' # log
      BY <1>6, <2>2, <2>3, <3>1, <3>3
    <3> QED
      BY <3>2, <3>3
  <2>4. CASE Done(Response, verdict)
    <3>1. PICK place \in {"announce", "end"} : place = IF loop.prepared THEN "announce" ELSE "end"
      OBVIOUS
    <3>2. loop' = [loop EXCEPT !.pc = place]
      BY <2>1, <2>4, <3>1 DEF Goto, AfterCommit
    <3> QED
      BY <1>6, <2>2, <2>4, <3>1, <3>2
  <2> QED
    BY <2>3, <2>4
<1> QED
  BY <1>7, <1>8

\* The outcome that is next to be recorded, of a call that is open.
LEMMA NextOutcome ==
    ASSUME LInv, loop.pc = "tools", \A d \in InWave : tool[d] \notin {"ready", "running"},
           NEW c, c = loop.calls[loop.cursor + loop.index]
    PROVE  /\ c \in InWave /\ c \in Calls /\ Me(c) \in OpenTools
           /\ Left(loop.cursor + loop.index) \ {Me(c)} = Left(loop.cursor + loop.index + 1)
           /\ tool[c] \in {"skipped", "answered"} => Me(c) \notin began
           /\ tool[c] \notin {"skipped", "answered"} => Me(c) \in began
<1>1. loop.calls \in Seq(Calls) /\ loop.cursor \in Nat /\ loop.index \in Nat /\ loop.wave \in Nat /\ tool \in [Calls -> Stage]
  BY DEF LInv, Types, LoopRecord
<1>2. loop.index \in 1 .. loop.wave /\ loop.cursor + loop.wave <= Len(loop.calls)
  BY DEF LInv, Waving
<1>3. PICK n : n = loop.cursor + loop.index
  OBVIOUS
<1>4. n \in 1 .. Len(loop.calls) /\ c = loop.calls[n]
  BY <1>1, <1>2, <1>3
<1>5. c \in InWave /\ c \in Calls
  <2>1. c \in InWave
    BY <1>2 DEF InWave
  <2>2. c \in Calls
    BY <1>1, <1>4
  <2> QED
    BY <2>1, <2>2
<1>6. Me(c) \in Left(n)
  BY <1>4 DEF Left
<1>7. Me(c) \in OpenTools
  BY <1>3, <1>6 DEF LInv, Opened
<1>8. Left(n) \ {Me(c)} = Left(n + 1)
  <2>1. ASSUME NEW j \in n .. Len(loop.calls), Me(loop.calls[j]) # Me(c)
        PROVE  j \in n + 1 .. Len(loop.calls)
    BY <1>4, <2>1
  <2>2. ASSUME NEW j \in n + 1 .. Len(loop.calls)
        PROVE  j \in n .. Len(loop.calls) /\ Me(loop.calls[j]) # Me(c)
    <3>1. j \in 1 .. Len(loop.calls) /\ j # n
      BY <1>4
    <3>2. loop.calls[j] # c
      BY <1>4, <3>1 DEF LInv, Placed
    <3> QED
      BY <1>4, <3>2 DEF Me
  <2> QED
    BY <2>1, <2>2 DEF Left
<1>9. tool[c] \in Stage /\ tool[c] # "none" /\ tool[c] \notin {"ready", "running"}
  BY <1>1, <1>5 DEF LInv, Waving
<1>10. IF tool[c] \in {"running", "ran", "broke"} THEN Me(c) \in began ELSE Me(c) \notin began
  BY <1>5 DEF LInv, Acted
<1>11. tool[c] \in {"skipped", "answered"} \/ tool[c] \in {"ran", "broke"}
  BY <1>9 DEF Stage
<1> QED
  BY <1>3, <1>5, <1>7, <1>8, <1>10, <1>11

\* One outcome is recorded, or is not, and the wave goes on or is over.
LEMMA SettleKeeps ==
    ASSUME LInv, NEW verdict \in Verdict, NEW observed \in BOOLEAN, Settle(verdict, observed)
    PROVE  LInv'
<1>1. loop \in LoopRecord /\ faults \in Nat /\ tool \in [Calls -> Stage]
  BY DEF LInv, Types
<1>2. PICK c : c = loop.calls[loop.cursor + loop.index]
  OBVIOUS
<1>3. PICK b : b = Settled(c, Did(c))
  OBVIOUS
<1>4. /\ loop.pc = "tools" /\ (\A d \in InWave : tool[d] \notin {"ready", "running"})
      /\ Appended(b, verdict) /\ UNCHANGED <<run, began>>
  BY <1>2, <1>3 DEF Settle
<1>5. PICK err \in BOOLEAN :
        /\ ~err => ~loop.err /\ Done(b, verdict)
        /\ loop' = IF loop.index < loop.wave THEN [loop EXCEPT !.index = @ + 1, !.err = err]
                   ELSE [loop EXCEPT !.cursor = @ + loop.wave, !.pc = IF err THEN "unstarted" ELSE "wave"]
        /\ tool' = IF loop.index < loop.wave THEN tool ELSE [d \in Calls |-> "none"]
  <2>1. PICK err : err = (loop.err \/ WaveFails(c, Done(b, verdict), observed))
    OBVIOUS
  <2>2. err \in BOOLEAN /\ (~err => ~loop.err /\ Done(b, verdict))
    BY <2>1, Zenon DEF WaveFails
  <2>3. /\ loop' = IF loop.index < loop.wave THEN [loop EXCEPT !.index = @ + 1, !.err = err]
                   ELSE [loop EXCEPT !.cursor = @ + loop.wave, !.pc = IF err THEN "unstarted" ELSE "wave"]
        /\ tool' = IF loop.index < loop.wave THEN tool ELSE [d \in Calls |-> "none"]
    BY <1>2, <1>3, <2>1, Zenon DEF Settle
  <2> QED
    BY <2>2, <2>3
<1>6. /\ c \in InWave /\ c \in Calls /\ Me(c) \in OpenTools
      /\ Left(loop.cursor + loop.index) \ {Me(c)} = Left(loop.cursor + loop.index + 1)
      /\ tool[c] \in {"skipped", "answered"} => Me(c) \notin began
      /\ tool[c] \notin {"skipped", "answered"} => Me(c) \in began
  BY <1>2, <1>4, NextOutcome
<1>7. \A r \in b : /\ r.kind \in {"tool_outcome", "result"} /\ r.id = Me(c)
                   /\ r.kind = "tool_outcome" => r.info = Did(c)
  <2>1. PICK did : did = Did(c)
    OBVIOUS
  <2>2. \A r \in b : r = Rec("tool_outcome", c, did) \/ r = Rec("result", c, "")
    BY <1>3, <2>1 DEF Settled
  <2>3. /\ Rec("tool_outcome", c, did).kind = "tool_outcome" /\ Rec("tool_outcome", c, did).id = Me(c)
        /\ Rec("tool_outcome", c, did).info = did
        /\ Rec("result", c, "").kind = "result" /\ Rec("result", c, "").id = Me(c)
    BY DEF Rec, Me
  <2> QED
    BY <2>1, <2>2, <2>3
<1>8. Fits(b)
  <2>1. Ids("result") = Ids("tool_outcome") /\ Me(c) \in Ids("tool_intent") /\ Me(c) \notin Ids("tool_outcome")
    BY <1>6 DEF LInv, Paired, OpenTools
  <2> QED
    BY <1>7, <2>1 DEF Fits
<1>9. /\ faults' \in Nat /\ faults' >= faults /\ (log' = log \/ log' = log \cup b)
      /\ Done(b, verdict) => log' = log \cup b
      /\ faults' = 0 => faults = 0 /\ Done(b, verdict)
  BY <1>1, <1>4, <1>8, AppendedOrNot
<1>10. PICK to \in {{}, {Me(c)}} : Gains({}, {}, {}, to) /\ (Done(b, verdict) => to = {Me(c)})
  <2>1. CASE log' = log \cup b
    BY <1>3, <2>1, OneSettledGains
  <2>2. CASE log' = log /\ ~Done(b, verdict)
    BY <2>2, GainsNothing
  <2> QED
    BY <1>9, <2>1, <2>2
<1>11. OpenTools' = OpenTools \ to /\ OpenModels' = OpenModels
  <2>1. /\ OpenTools' = (Ids("tool_intent") \cup {}) \ (Ids("tool_outcome") \cup to)
        /\ OpenModels' = (Ids("model_intent") \cup {}) \ (Ids("model_outcome") \cup {})
    BY <1>10, OpenAfter
  <2> QED
    BY <2>1 DEF OpenTools, OpenModels
<1>12. PICK n : n = loop.cursor + loop.index + 1
  OBVIOUS
<1>13. /\ Left(n) \subseteq OpenTools' /\ OpenTools' \subseteq Left(1)
       /\ ~err => OpenTools' = Left(n)
       /\ faults' = 0 => OpenTools' = Left(n) /\ OpenModels' = {}
  <2>1. /\ Left(loop.cursor + loop.index) \subseteq OpenTools /\ OpenTools \subseteq Left(1)
        /\ ~loop.err => OpenTools = Left(loop.cursor + loop.index)
    BY <1>4 DEF LInv, Opened
  <2>2. faults = 0 => OpenTools = Left(loop.cursor + loop.index) /\ OpenModels = {}
    BY <1>4 DEF LInv, Faultless
  <2>3. ~err \/ faults' = 0 => to = {Me(c)}
    BY <1>5, <1>9, <1>10
  <2> QED
    BY <1>5, <1>6, <1>9, <1>10, <1>11, <1>12, <2>1, <2>2, <2>3
<1>14. (\A d : Me(d)' = Me(d))
  BY <1>4 DEF Me
<1>15. OutcomesAreTrue'
  <2>1. ASSUME NEW r \in b, r.kind = "tool_outcome"
        PROVE  /\ r.info \in {"not run", "answered"} => r.id \notin began
               /\ r.info = "ran" => r.id \in began
    BY <1>6, <1>7, <2>1 DEF Did
  <2>2. \A r \in b : r.kind # "tool_intent"
    BY <1>7
  <2> QED
    BY <1>4, <1>9, <2>1, <2>2, TruthKept DEF LInv
<1>16. ASSUME loop' \in LoopRecord, loop'.pc # "idle", loop'.iter = loop.iter
       PROVE  Paired'
  <2>1. to \subseteq Ids("tool_intent")
    BY <1>6, <1>10 DEF OpenTools
  <2>2. run'.n = run.n /\ began' = began /\ loop.pc # "idle" /\ loop'.iter \in Nat /\ loop'.iter >= loop.iter
    BY <1>1, <1>4, <1>16 DEF LoopRecord
  <2> QED
    BY <1>10, <2>1, <2>2, PairedKept DEF LInv
<1>17. CASE loop.index < loop.wave
  <2>1. loop' = [loop EXCEPT !.index = @ + 1, !.err = err] /\ tool' = tool
    BY <1>5, <1>17
  <2>2. /\ loop' \in LoopRecord /\ loop'.pc = "tools" /\ loop'.iter = loop.iter /\ loop'.calls = loop.calls
        /\ loop'.cursor = loop.cursor /\ loop'.wave = loop.wave /\ loop'.index = loop.index + 1
        /\ loop'.err = err /\ loop'.blocked = loop.blocked
    <3>1. PICK i \in Nat : i = loop.index + 1
      BY <1>1 DEF LoopRecord
    <3>2. loop' = [loop EXCEPT !.index = i, !.err = err]
      BY <1>1, <2>1, <3>1 DEF LoopRecord
    <3>3. loop' \in LoopRecord
      BY <1>1, <3>2 DEF LoopRecord
    <3> QED
      BY <1>1, <1>4, <3>1, <3>2, <3>3 DEF LoopRecord
  <2>3. Types'
    BY <1>4, <1>9, <2>1, <2>2 DEF LInv, Types
  <2>4. Paired'
    BY <1>16, <2>2
  <2>5. Placed'
    BY <2>2 DEF LInv, Placed
  <2>6. InWave' = InWave
    BY <2>2 DEF InWave
  <2>7. Waving'
    <3>1. InWave \subseteq Calls
      BY <1>1, <1>4 DEF LInv, Waving, InWave, LoopRecord
    <3>2. \A d \in Calls : tool[d] # "none" <=> d \in InWave
      BY <1>4 DEF LInv, Waving
    <3>3. \A d \in Calls : tool[d] \notin {"ready", "running"}
      BY <1>4, <3>2
    <3>4. loop.wave \in 1 .. Limit /\ loop.cursor + loop.wave <= Len(loop.calls) /\ loop.index \in 1 .. loop.wave
      BY <1>4 DEF LInv, Waving
    <3>5. loop.index + 1 \in 1 .. loop.wave
      BY <1>1, <1>17, <3>4 DEF LoopRecord
    <3>6. \A i, j \in 1 .. loop.wave : i # j =>
                /\ {loop.calls[loop.cursor + i], loop.calls[loop.cursor + j]} \notin Conflicts
                /\ loop.calls[loop.cursor + i] \notin Serial
      BY <1>4 DEF LInv, Waving
    <3> QED
      BY <2>1, <2>2, <2>6, <3>2, <3>3, <3>4, <3>5, <3>6 DEF Waving
  <2>8. \A i : Left(i)' = Left(i)
    BY <1>4, <2>2, LeftKept
  <2>9. loop'.cursor + loop'.index = n
    BY <1>1, <1>12, <2>2 DEF LoopRecord
  <2>10. Opened' /\ Faultless'
    BY <1>13, <2>2, <2>8, <2>9 DEF Opened, Faultless
  <2>11. Acted'
    <3>1. /\ \A j \in loop.cursor + 1 .. Len(loop.calls) : j > loop.cursor + loop.wave => Me(loop.calls[j]) \notin began
          /\ \A d \in InWave : IF tool[d] \in {"running", "ran", "broke"} THEN Me(d) \in began ELSE Me(d) \notin began
      BY <1>4 DEF LInv, Acted
    <3>2. ASSUME NEW r \in log', NEW d \in Calls, r.kind = "tool_intent", r.id = Me(d),
                 d \in ToSet(loop.calls), d \notin loop.blocked
          PROVE  r.info # "no_effect"
      <4>1. r \in log
        BY <1>7, <1>9, <3>2
      <4> QED
        BY <1>4, <3>2, <4>1 DEF LInv, Acted
    <3> QED
      BY <1>4, <1>14, <2>1, <2>2, <2>6, <3>1, <3>2 DEF Acted
  <2> QED
    BY <1>15, <2>3, <2>4, <2>5, <2>7, <2>10, <2>11 DEF LInv
<1>18. CASE ~ (loop.index < loop.wave)
  <2>1. PICK place \in {"unstarted", "wave"} : place = IF err THEN "unstarted" ELSE "wave"
    OBVIOUS
  <2>2. loop' = [loop EXCEPT !.cursor = @ + loop.wave, !.pc = place] /\ tool' = [d \in Calls |-> "none"]
    BY <1>5, <1>18, <2>1
  <2>3. loop.wave \in Nat /\ loop.index = loop.wave /\ loop.cursor + loop.wave <= Len(loop.calls)
    BY <1>1, <1>4, <1>18 DEF LInv, Waving, LoopRecord
  <2>4. /\ loop' \in LoopRecord /\ loop'.pc = place /\ loop'.iter = loop.iter /\ loop'.calls = loop.calls
        /\ loop'.cursor = loop.cursor + loop.wave /\ loop'.blocked = loop.blocked
    <3>1. PICK i \in Nat : i = loop.cursor + loop.wave
      BY <1>1, <2>3 DEF LoopRecord
    <3>2. loop' = [loop EXCEPT !.cursor = i, !.pc = place]
      BY <1>1, <2>2, <3>1 DEF LoopRecord
    <3>3. loop' \in LoopRecord
      BY <1>1, <3>2 DEF LoopRecord, Place
    <3> QED
      BY <1>1, <3>1, <3>2, <3>3 DEF LoopRecord
  <2>5. Types'
    BY <1>4, <1>9, <2>2, <2>4 DEF LInv, Types, Stage
  <2>6. Paired'
    BY <1>16, <2>4
  <2>7. Placed'
    BY <2>3, <2>4 DEF LInv, Placed
  <2>8. Waving'
    BY <2>2, <2>4 DEF Waving
  <2>9. \A i : Left(i)' = Left(i)
    BY <1>4, <2>4, LeftKept
  <2>10. loop'.cursor + 1 = n
    BY <1>12, <2>3, <2>4
  <2>11. Opened' /\ Faultless'
    BY <1>13, <2>1, <2>4, <2>9, <2>10 DEF Opened, Faultless
  <2>12. Acted'
    <3>1. ASSUME NEW j \in loop.cursor + loop.wave + 1 .. Len(loop.calls)
          PROVE  Me(loop.calls[j]) \notin began
      <4>1. j \in loop.cursor + 1 .. Len(loop.calls) /\ j > loop.cursor + loop.wave
        BY <1>1, <2>3, <3>1 DEF LoopRecord
      <4> QED
        BY <1>4, <4>1 DEF LInv, Acted
    <3>2. ASSUME NEW r \in log', NEW d \in Calls, r.kind = "tool_intent", r.id = Me(d),
                 d \in ToSet(loop.calls), d \notin loop.blocked
          PROVE  r.info # "no_effect"
      <4>1. r \in log
        BY <1>7, <1>9, <3>2
      <4> QED
        BY <1>4, <3>2, <4>1 DEF LInv, Acted
    <3> QED
      BY <1>4, <1>14, <2>1, <2>4, <3>1, <3>2 DEF Acted
  <2> QED
    BY <1>15, <2>5, <2>6, <2>7, <2>8, <2>11, <2>12 DEF LInv
<1> QED
  BY <1>17, <1>18

-----------------------------------------------------------------------------
(* A run begins, and the invariant.                                        *)

\* Whatever was left open is settled before the run does anything, and the
\* identities of the run are its own.
LEMMA BeginRunKeeps ==
    ASSUME LoopAssumption, LInv, BeginRun
    PROVE  LInv'
<1>1. /\ loop.pc = "idle" /\ run.n < MaxRun /\ log' = log \cup Recovered
      /\ run' = [n |-> run.n + 1, cancelled |-> FALSE] /\ loop' = [Idle EXCEPT !.pc = "before"]
      /\ UNCHANGED <<tool, began, faults>>
  BY DEF BeginRun
<1>2. /\ loop'.pc = "before" /\ loop'.iter = 0 /\ loop'.calls = <<>> /\ loop'.cursor = 0 /\ loop' \in LoopRecord
  <2>1. /\ Idle \in LoopRecord /\ Idle.iter = 0 /\ Idle.calls = <<>> /\ Idle.cursor = 0
    BY DEF Idle, LoopRecord, Place
  <2>2. PICK idle \in LoopRecord : idle = Idle
    BY <2>1
  <2>3. loop' = [idle EXCEPT !.pc = "before"]
    BY <1>1, <2>2
  <2> QED
    BY <2>1, <2>2, <2>3 DEF LoopRecord, Place
<1>3. run.n \in Nat /\ run'.n = run.n + 1 /\ run' \in [n : Nat, cancelled : BOOLEAN]
  BY <1>1 DEF LInv, Types
<1>4. Types'
  BY <1>1, <1>2, <1>3 DEF LInv, Types
<1>5. PICK M, O : M = OpenModels /\ O = OpenTools
  OBVIOUS
<1>6. Gains({}, M, {}, O)
  BY <1>1, <1>5, RecoveredGains
<1>7. M \subseteq Ids("model_intent") /\ O \subseteq Ids("tool_intent")
  BY <1>5 DEF OpenModels, OpenTools
<1>8. Paired'
  <2>1. /\ Ids("model_outcome")' \subseteq Ids("model_intent")'
        /\ Ids("tool_outcome")' \subseteq Ids("tool_intent")'
        /\ Ids("call")' = Ids("tool_intent")' /\ Ids("result")' = Ids("tool_outcome")'
        /\ began' \subseteq Ids("tool_intent")'
    BY <1>1, <1>6, <1>7 DEF Gains, LInv, Paired
  <2>2. /\ Ids("model_intent")' \subseteq (1 .. run.n) \X (1 .. MaxIter)
        /\ Ids("tool_intent")' \subseteq (1 .. run.n) \X Calls
    BY <1>6 DEF Gains, LInv, Paired
  <2>3. 1 .. run.n \subseteq 1 .. run'.n /\ run'.n <= MaxRun /\ run'.n > 0 /\ run'.n \notin 1 .. run.n
    BY <1>1, <1>3 DEF LoopAssumption
  <2>4. /\ Ids("model_intent")' \subseteq (1 .. run'.n) \X (1 .. MaxIter)
        /\ Ids("tool_intent")' \subseteq (1 .. run'.n) \X Calls
    BY <2>2, <2>3
  <2>5. \A x : Me(x)' \notin Ids("model_intent")'
    BY <2>2, <2>3 DEF Me
  <2> QED
    BY <2>1, <2>3, <2>4, <2>5 DEF Paired
<1>9. Placed'
  BY <1>2 DEF Placed, LoopAssumption
<1>10. Waving'
  BY <1>1, <1>2 DEF LInv, Waving
<1>11. OpenTools' = {} /\ OpenModels' = {}
  <2>1. /\ OpenTools' = (Ids("tool_intent") \cup {}) \ (Ids("tool_outcome") \cup O)
        /\ OpenModels' = (Ids("model_intent") \cup {}) \ (Ids("model_outcome") \cup M)
    BY <1>6, OpenAfter
  <2> QED
    BY <1>5, <2>1 DEF OpenTools, OpenModels
<1>12. Opened' /\ Faultless' /\ Acted'
  BY <1>2, <1>11 DEF Opened, Faultless, Acted
<1>13. OutcomesAreTrue'
  <2>1. ASSUME NEW r \in Recovered
        PROVE  r.kind # "tool_intent" /\ (r.kind = "tool_outcome" => r.info = "unknown")
    <3>1. \/ \E i \in OpenModels : r = [kind |-> "model_outcome", id |-> i, info |-> "cancelled"]
          \/ \E i \in OpenTools : r = [kind |-> "tool_outcome", id |-> i, info |-> "unknown"]
          \/ \E i \in OpenTools : r = [kind |-> "result", id |-> i, info |-> ""]
      BY DEF Recovered
    <3>2. ASSUME NEW i, r = [kind |-> "model_outcome", id |-> i, info |-> "cancelled"]
          PROVE  r.kind = "model_outcome"
      BY <3>2
    <3>3. ASSUME NEW i, r = [kind |-> "tool_outcome", id |-> i, info |-> "unknown"]
          PROVE  r.kind = "tool_outcome" /\ r.info = "unknown"
      BY <3>3
    <3>4. ASSUME NEW i, r = [kind |-> "result", id |-> i, info |-> ""]
          PROVE  r.kind = "result"
      BY <3>4
    <3> QED
      BY <3>1, <3>2, <3>3, <3>4
  <2> QED
    BY <1>1, <2>1, TruthKept DEF LInv
<1> QED
  BY <1>4, <1>8, <1>9, <1>10, <1>12, <1>13 DEF LInv

LEMMA LoopBegins ==
    ASSUME LoopAssumption, Init
    PROVE  LInv
<1>1. /\ log = {} /\ run = [n |-> 0, cancelled |-> FALSE] /\ loop = Idle
      /\ tool = [c \in Calls |-> "none"] /\ began = {} /\ faults = 0
  BY DEF Init
<1>2. \A k : Ids(k) = {}
  BY <1>1 DEF Ids
<1>3. OpenTools = {} /\ OpenModels = {}
  BY <1>2 DEF OpenTools, OpenModels
<1>4. /\ loop.pc = "idle" /\ loop.iter = 0 /\ loop.calls = <<>> /\ loop.cursor = 0
      /\ run.n = 0
  BY <1>1 DEF Idle
<1>5. Types
  BY <1>1 DEF Types, Idle, LoopRecord, Place, Stage
<1>6. Paired
  <2>1. 0 <= MaxRun /\ ~ (loop.pc # "idle")
    BY <1>4 DEF LoopAssumption
  <2> QED
    BY <1>1, <1>2, <1>4, <2>1 DEF Paired
<1>7. Placed
  BY <1>1, <1>4 DEF Placed, LoopAssumption
<1>8. Waving
  BY <1>1, <1>4 DEF Waving
<1>9. Opened /\ Faultless /\ Acted
  BY <1>3, <1>4 DEF Opened, Faultless, Acted
<1>10. OutcomesAreTrue
  BY <1>1 DEF OutcomesAreTrue
<1> QED
  BY <1>5, <1>6, <1>7, <1>8, <1>9, <1>10 DEF LInv

LEMMA LoopStep ==
    ASSUME LoopAssumption, LInv, [Next]_vars
    PROVE  LInv'
<1>1. CASE UNCHANGED vars
  <2>1. UNCHANGED <<log, run, loop, tool, began, faults>>
    BY <1>1 DEF vars
  <2>2. (\A k : Ids(k)' = Ids(k)) /\ OpenTools' = OpenTools /\ OpenModels' = OpenModels /\ InWave' = InWave
        /\ (\A c : Me(c)' = Me(c)) /\ \A i : Left(i)' = Left(i)
    BY <2>1 DEF Ids, OpenTools, OpenModels, InWave, Me, Left
  <2>3. Types' /\ Placed' /\ Waving'
    BY <2>1, <2>2 DEF LInv, Types, Placed, Waving
  <2>4. Paired' /\ Opened'
    BY <2>1, <2>2 DEF LInv, Paired, Opened
  <2>5. Faultless' /\ Acted'
    BY <2>1, <2>2 DEF LInv, Faultless, Acted
  <2> QED
    BY <2>1, <2>3, <2>4, <2>5, QuietTruth DEF LInv
<1>2. CASE BeginRun
  BY <1>2, BeginRunKeeps
<1>3. CASE Go
  <2>1. CASE GiveUp \/ Stream \/ Announce \/ Wave
    BY <2>1, GiveUpKeeps, StreamKeeps, AnnounceKeeps, WaveKeeps
  <2>2. ASSUME NEW verdict \in Verdict,
               ModelIntent(verdict) \/ ModelFailed(verdict) \/ Commit(verdict) \/ FinishUnstarted(verdict)
        PROVE  LInv'
    BY <2>2, ModelIntentKeeps, ModelFailedKeeps, CommitKeeps, FinishUnstartedKeeps
  <2>3. ASSUME NEW verdict \in Verdict, NEW observed \in BOOLEAN, Settle(verdict, observed)
        PROVE  LInv'
    BY <2>3, SettleKeeps
  <2>4. ASSUME NEW c \in Calls, StartTool(c) \/ ToolReturns(c)
        PROVE  LInv'
    BY <2>4, StartToolKeeps, ToolReturnsKeeps
  <2> QED
    BY <1>3, <2>1, <2>2, <2>3, <2>4 DEF Go
<1>4. CASE Cancel
  BY <1>4, CancelKeeps
<1>5. CASE Crash
  BY <1>5, CrashKeeps
<1> QED
  BY <1>1, <1>2, <1>3, <1>4, <1>5 DEF Next

\* The places of the loop, what is open at each of them in the log and what
\* was acted upon go together in every state (sdk/kernel/core/loop.go,
\* tool_batch.go; platform/storage/session/recovery.go).
THEOREM LoopInvariant ==
    ASSUME LoopAssumption
    PROVE  Spec => []LInv
<1>1. Init => LInv
  BY LoopBegins
<1>2. LInv /\ [Next]_vars => LInv'
  BY LoopStep
<1> QED
  BY <1>1, <1>2, PTL DEF Spec

-----------------------------------------------------------------------------
(* What follows for the transcript and the log.                            *)

\* Members of a list of n are at most n.
LEMMA AtMost ==
    ASSUME NEW n \in Nat, NEW f, NEW S, S \subseteq {f[i] : i \in 1 .. n}
    PROVE  Cardinality(S) \in Nat /\ Cardinality(S) <= n
<1>1. CASE S = {}
  BY <1>1, FS_EmptySet
<1>2. CASE S # {}
  <2>1. PICK d \in S : TRUE
    BY <1>2
  <2>2. PICK g : g = [i \in 1 .. n |-> IF f[i] \in S THEN f[i] ELSE d]
    OBVIOUS
  <2>3. g \in [1 .. n -> S] /\ \A x \in S : \E i \in 1 .. n : g[i] = x
    BY <2>1, <2>2
  <2>4. ExistsSurjection(1 .. n, S)
    BY <2>3 DEF ExistsSurjection, Surjection
  <2> QED
    BY <2>4, FS_NatSurjection, FS_CardinalityType, FS_SurjCardinalityBound
<1> QED
  BY <1>1, <1>2

\* The open calls of one response are no more than the response is long.
LEMMA OpenAreFew ==
    ASSUME NEW calls \in Seq(Calls), NEW S, S \subseteq {Me(c) : c \in ToSet(calls)}
    PROVE  Cardinality(S) \in Nat /\ Cardinality(S) <= Len(calls)
<1>1. Len(calls) \in Nat
  OBVIOUS
<1>2. PICK f : f = [i \in 1 .. Len(calls) |-> Me(calls[i])]
  OBVIOUS
<1>3. ToSet(calls) = {calls[j] : j \in 1 .. Len(calls)}
  BY DEF ToSet
<1>4. S \subseteq {f[i] : i \in 1 .. Len(calls)}
  <2>1. ASSUME NEW x \in S PROVE \E i \in 1 .. Len(calls) : x = f[i]
    <3>1. PICK i \in 1 .. Len(calls) : x = Me(calls[i])
      BY <1>3
    <3> QED
      BY <1>2, <3>1
  <2> QED
    BY <2>1
<1> QED
  BY <1>1, <1>4, AtMost

\* The tools that run are of one wave.
LEMMA RunningAreFew ==
    ASSUME LoopAssumption, LInv
    PROVE  WavesAreSafe
<1> DEFINE running == {c \in Calls : tool[c] = "running"}
<1>1. CASE loop.pc # "tools"
  <2>1. running = {}
    BY <1>1 DEF LInv, Waving
  <2>2. Cardinality(running) = 0
    BY <2>1, FS_EmptySet
  <2> QED
    BY <2>1, <2>2 DEF WavesAreSafe, LoopAssumption
<1>2. CASE loop.pc = "tools"
  <2>1. /\ loop.wave \in 1 .. Limit
        /\ \A i, j \in 1 .. loop.wave : i # j =>
             /\ {loop.calls[loop.cursor + i], loop.calls[loop.cursor + j]} \notin Conflicts
             /\ loop.calls[loop.cursor + i] \notin Serial
        /\ \A c \in Calls : tool[c] # "none" <=> c \in InWave
    BY <1>2 DEF LInv, Waving
  <2>2. loop.wave \in Nat /\ Limit \in Nat /\ loop.wave <= Limit
    BY <2>1 DEF LInv, Types, LoopRecord, LoopAssumption
  <2>3. PICK f : f = [i \in 1 .. loop.wave |-> loop.calls[loop.cursor + i]]
    OBVIOUS
  <2>4. running \subseteq {f[i] : i \in 1 .. loop.wave}
    BY <2>1, <2>3 DEF InWave
  <2>5. Cardinality(running) \in Nat /\ Cardinality(running) <= loop.wave
    BY <2>2, <2>4, AtMost
  <2>6. Cardinality(running) <= Limit
    BY <2>2, <2>5
  <2>7. ASSUME NEW c \in running, NEW d \in running, c # d
        PROVE  {c, d} \notin Conflicts /\ c \notin Serial
    <3>1. PICK i \in 1 .. loop.wave, j \in 1 .. loop.wave : c = f[i] /\ d = f[j]
      BY <2>4
    <3>2. i # j
      BY <2>7, <3>1
    <3> QED
      BY <2>1, <2>3, <3>1, <3>2
  <2> QED
    BY <2>6, <2>7 DEF WavesAreSafe
<1> QED
  BY <1>1, <1>2

\* The invariant says that the transcript and the log can be relied upon.
LEMMA LoopHolds ==
    ASSUME LoopAssumption, LInv
    PROVE  TranscriptHolds
<1>1. TranscriptIsPaired
  BY DEF LInv, Opened, Paired, OpenTools, TranscriptIsPaired
<1>2. EndsSettled
  BY DEF LInv, Faultless, EndsSettled
<1>3. AlwaysRecovers
  <2>1. ASSUME loop.pc = "idle"
        PROVE  OpenTools = {} \/ \E calls \in Responses : OpenTools \subseteq {Me(c) : c \in ToSet(calls)}
    BY <2>1 DEF LInv, Opened
  <2>2. ASSUME loop.pc = "idle", \A calls \in Responses : Len(calls) <= RecoverLimit
        PROVE  Cardinality(OpenTools) <= RecoverLimit
    <3>1. RecoverLimit \in Nat /\ Responses \subseteq Seq(Calls)
      BY DEF LoopAssumption
    <3>2. CASE OpenTools = {}
      BY <3>1, <3>2, FS_EmptySet
    <3>3. ASSUME NEW calls \in Responses, OpenTools \subseteq {Me(c) : c \in ToSet(calls)}
          PROVE  Cardinality(OpenTools) <= RecoverLimit
      <4>1. /\ Cardinality(OpenTools) \in Nat /\ Cardinality(OpenTools) <= Len(calls)
            /\ Len(calls) \in Nat /\ Len(calls) <= RecoverLimit
        BY <2>2, <3>1, <3>3, OpenAreFew
      <4> QED
        BY <3>1, <4>1
    <3> QED
      BY <2>1, <2>2, <3>2, <3>3
  <2>3. \/ \E calls \in Responses : Len(calls) > RecoverLimit
        \/ \A calls \in Responses : Len(calls) <= RecoverLimit
    <3>1. RecoverLimit \in Nat /\ \A calls \in Responses : Len(calls) \in Nat
      BY DEF LoopAssumption
    <3> QED
      BY <3>1
  <2> QED
    BY <2>1, <2>2, <2>3 DEF AlwaysRecovers
<1> QED
  BY <1>1, <1>2, <1>3, RunningAreFew DEF LInv, TranscriptHolds

\* Whatever fails, and wherever the process dies: the model is only asked on a
\* transcript in which every call has its result, tools that run together may
\* do so, what the log says of a call is true, a run without a fault leaves
\* nothing open, and one with faults the calls of one response at most
\* (sdk/kernel/core/loop.go, tool_batch.go; platform/storage/session/recovery.go).
THEOREM LoopTranscriptHolds ==
    ASSUME LoopAssumption
    PROVE  Spec => []TranscriptHolds
<1>1. LInv => TranscriptHolds
  BY LoopHolds
<1> QED
  BY <1>1, LoopInvariant, PTL

-----------------------------------------------------------------------------
(* The loop and its log implement the ledger of intents.                   *)

\* Intents as the ledger knows them.
Open    == Tagged("model", OpenModels) \cup Tagged("tool", OpenTools)
Settles == Tagged("model", Ids("model_outcome")) \cup Tagged("tool", Ids("tool_outcome"))

LEMMA TaggedMembers ==
    ASSUME NEW A, NEW B, NEW x
    PROVE  x \in Tagged("model", A) \cup Tagged("tool", B) <=>
             (\E i \in A : x = <<"model", i>>) \/ (\E i \in B : x = <<"tool", i>>)
BY DEF Tagged

\* Intents are those of the runs.
InBounds == Open \cup Settles \subseteq
    Tagged("model", (1 .. MaxRun) \X (1 .. MaxIter)) \cup Tagged("tool", (1 .. MaxRun) \X Calls)

LEMMA IntentsInBounds == LoopAssumption /\ LInv => InBounds
<1> SUFFICES ASSUME LoopAssumption, LInv PROVE InBounds
  OBVIOUS
<1>1. 1 .. run.n \subseteq 1 .. MaxRun
  BY DEF LInv, Types, Paired, LoopAssumption
<1>2. Ids("model_intent") \subseteq (1 .. MaxRun) \X (1 .. MaxIter) /\ Ids("tool_intent") \subseteq (1 .. MaxRun) \X Calls
  BY <1>1 DEF LInv, Paired
<1>3. /\ OpenModels \subseteq Ids("model_intent") /\ OpenTools \subseteq Ids("tool_intent")
      /\ Ids("model_outcome") \subseteq Ids("model_intent") /\ Ids("tool_outcome") \subseteq Ids("tool_intent")
  BY DEF OpenModels, OpenTools, LInv, Paired
<1> QED
  BY <1>2, <1>3 DEF Open, Settles, Tagged, InBounds

\* What an append does to them: nothing is withdrawn or opened again.
Apart == Open \cap Settles = {}

LEMMA OpenSettledApart == Apart
BY DEF Apart, Open, Settles, Tagged, OpenModels, OpenTools

LEMMA LogGrows ==
    ASSUME LInv, LInv', log \subseteq log'
    PROVE  Settles \subseteq Settles' /\ Open \subseteq Open' \cup Settles'
<1>1. \A k : Ids(k) \subseteq Ids(k)'
  BY DEF Ids
<1>2. OpenModels \subseteq OpenModels' \cup Ids("model_outcome")' /\ OpenTools \subseteq OpenTools' \cup Ids("tool_outcome")'
  BY <1>1 DEF OpenModels, OpenTools
<1>3. Ids("model_outcome") \subseteq Ids("model_outcome")' /\ Ids("tool_outcome") \subseteq Ids("tool_outcome")'
  BY <1>1
<1> QED
  BY <1>2, <1>3 DEF Open, Settles, Tagged

\* A step within a run that starts no tool records.
LEMMA RecordFollows ==
    ASSUME LoopAssumption, LInv, LInv', log \subseteq log', loop.pc # "idle", loop'.pc # "idle", began' = began
    PROVE  Ledger!Record
<1>1. Settles \subseteq Settles' /\ Open \subseteq Open' \cup Settles'
  BY LogGrows
<1>2. Apart'
  BY OpenSettledApart, PTL
<1>3. InBounds'
  <2>1. LoopAssumption'
    BY DEF LoopAssumption
  <2> QED
    BY <2>1, IntentsInBounds, PTL
<1>4. Tagged("tool", began)' = Tagged("tool", began)
  BY DEF Tagged
<1>5. (loop.pc # "idle") = TRUE /\ (loop.pc # "idle")' = TRUE
  OBVIOUS
<1> QED
  BY <1>1, <1>2, <1>3, <1>4, <1>5 DEF Ledger!Record, Open, Settles, Apart, InBounds

LEMMA ClaimFollows ==
    ASSUME LInv, LInv', BeginRun
    PROVE  Ledger!ClaimRun
<1>1. loop.pc = "idle" /\ log' = log \cup Recovered /\ began' = began /\ loop' = [Idle EXCEPT !.pc = "before"]
  BY DEF BeginRun
<1>2. PICK M, O : M = OpenModels /\ O = OpenTools
  OBVIOUS
<1>3. Gains({}, M, {}, O)
  BY <1>1, <1>2, RecoveredGains
<1>4. OpenTools' = {} /\ OpenModels' = {}
  <2>1. /\ OpenTools' = (Ids("tool_intent") \cup {}) \ (Ids("tool_outcome") \cup O)
        /\ OpenModels' = (Ids("model_intent") \cup {}) \ (Ids("model_outcome") \cup M)
    BY <1>3, OpenAfter
  <2> QED
    BY <1>2, <2>1 DEF OpenTools, OpenModels
<1>5. Open' = {}
  BY <1>4 DEF Open, Tagged
<1>6. Settles' = Settles \cup Open
  BY <1>2, <1>3 DEF Gains, Settles, Open, Tagged
<1>7. Tagged("tool", began)' = Tagged("tool", began)
  BY <1>1 DEF Tagged
<1>8. (loop.pc # "idle") = FALSE /\ (loop.pc # "idle")' = TRUE
  BY <1>1 DEF Idle
<1> QED
  BY <1>5, <1>6, <1>7, <1>8 DEF Ledger!ClaimRun, Open, Settles

LEMMA ReleaseFollows ==
    ASSUME LInv, loop.pc # "idle", loop'.pc = "idle", UNCHANGED <<log, run, began>>
    PROVE  Ledger!Release
<1>1. \A k : Ids(k)' = Ids(k)
  BY DEF Ids
<1>2. OpenTools' = OpenTools /\ OpenModels' = OpenModels
  BY <1>1 DEF OpenTools, OpenModels
<1>3. Open' = Open /\ Settles' = Settles /\ Tagged("tool", began)' = Tagged("tool", began)
  BY <1>1, <1>2 DEF Open, Settles, Tagged
<1>4. (loop.pc # "idle") = TRUE /\ (loop.pc # "idle")' = FALSE
  OBVIOUS
<1> QED
  BY <1>3, <1>4 DEF Ledger!Release, Open, Settles

LEMMA ActFollows ==
    ASSUME LoopAssumption, LInv, NEW c \in Calls, StartTool(c), began' # began
    PROVE  Ledger!Next
<1>1. /\ tool[c] = "ready" /\ began' = began \cup {Me(c)} /\ UNCHANGED <<log, run, loop, faults>>
  BY DEF StartTool
<1>2. loop.pc = "tools" /\ Me(c) \in OpenTools /\ Me(c) \notin began
  BY <1>1, ReadyIsOpen
<1>3. PICK i : i = <<"tool", Me(c)>>
  OBVIOUS
<1>4. i \in Open \ Tagged("tool", began) /\ Tagged("tool", began)' = Tagged("tool", began) \cup {i}
  BY <1>1, <1>2, <1>3 DEF Open, Tagged
<1>5. \A k : Ids(k)' = Ids(k)
  BY <1>1 DEF Ids
<1>7. Open' = Open /\ Settles' = Settles
  BY <1>5 DEF Open, Settles, Tagged, OpenTools, OpenModels
<1>8. (loop.pc # "idle") = TRUE /\ (loop.pc # "idle")' = (loop.pc # "idle")
  BY <1>1, <1>2
<1>9. Ledger!Act(i)
  BY <1>4, <1>7, <1>8 DEF Ledger!Act, Open, Settles
<1> QED
  BY <1>4, <1>8, <1>9 DEF Ledger!Next, Open

\* Every step of the loop is one of the ledger, or none.
LEMMA LedgerStep ==
    ASSUME LoopAssumption, LInv, LInv', [Next]_vars
    PROVE  [Ledger!Next]_(Ledger!vars)
<1>1. CASE UNCHANGED vars
  <2>1. UNCHANGED <<log, run, loop, tool, began, faults>>
    BY <1>1 DEF vars
  <2>2. \A k : Ids(k)' = Ids(k)
    BY <2>1 DEF Ids
  <2>3. Open' = Open /\ Settles' = Settles /\ Tagged("tool", began)' = Tagged("tool", began)
    BY <2>1, <2>2 DEF Open, Settles, Tagged, OpenTools, OpenModels
  <2>4. (loop.pc # "idle")' = (loop.pc # "idle")
    BY <2>1
  <2> QED
    BY <2>3, <2>4 DEF Ledger!vars, Open, Settles
<1>2. CASE BeginRun
  BY <1>2, ClaimFollows DEF Ledger!Next
<1>3. ASSUME log \subseteq log', loop.pc # "idle", loop'.pc # "idle", began' = began
      PROVE  Ledger!Next
  BY <1>3, RecordFollows DEF Ledger!Next
<1>4. CASE Go
  <2>1. CASE GiveUp
    <3>1. CASE loop.pc = "end"
      <4>1. loop.pc # "idle" /\ loop'.pc = "idle" /\ UNCHANGED <<log, run, began>>
        BY <2>1, <3>1 DEF GiveUp, Idle
      <4> QED
        BY <4>1, ReleaseFollows DEF Ledger!Next
    <3>2. CASE loop.pc = "before"
      <4>1. loop' = [loop EXCEPT !.pc = "end"] /\ UNCHANGED <<log, began>>
        BY <2>1, <3>2 DEF GiveUp
      <4>2. loop'.pc = "end"
        BY <4>1 DEF LInv, Types, LoopRecord
      <4> QED
        BY <1>3, <3>2, <4>1, <4>2
    <3> QED
      BY <2>1, <3>1, <3>2 DEF GiveUp
  <2>2. CASE Stream \/ Announce \/ Wave
    <3>1. UNCHANGED <<log, began>> /\ loop.pc \in {"stream", "announce", "wave"}
      BY <2>2 DEF Stream, Announce, Wave
    <3>2. loop'.pc # "idle"
      BY <2>2 DEF Stream, Announce, Wave, Goto, LInv, Types, LoopRecord
    <3> QED
      BY <1>3, <3>1, <3>2
  <2>3. ASSUME NEW verdict \in Verdict,
               ModelIntent(verdict) \/ ModelFailed(verdict) \/ Commit(verdict) \/ FinishUnstarted(verdict)
        PROVE  Ledger!Next
    <3>1. log \subseteq log' /\ began' = began /\ loop.pc \in {"before", "model_failed", "commit", "unstarted"}
      BY <2>3 DEF ModelIntent, ModelFailed, Commit, FinishUnstarted, Appended
    <3>2. loop'.pc # "idle"
      BY <2>3 DEF ModelIntent, ModelFailed, Commit, FinishUnstarted, Goto, AfterCommit, LInv, Types, LoopRecord
    <3> QED
      BY <1>3, <3>1, <3>2
  <2>4. ASSUME NEW verdict \in Verdict, NEW observed \in BOOLEAN, Settle(verdict, observed)
        PROVE  Ledger!Next
    <3>1. log \subseteq log' /\ began' = began /\ loop.pc = "tools"
      BY <2>4 DEF Settle, Appended
    <3>2. PICK err : loop' = IF loop.index < loop.wave THEN [loop EXCEPT !.index = @ + 1, !.err = err]
                             ELSE [loop EXCEPT !.cursor = @ + loop.wave, !.pc = IF err THEN "unstarted" ELSE "wave"]
      BY <2>4, Zenon DEF Settle
    <3>3. loop'.pc # "idle"
      BY <3>1, <3>2 DEF LInv, Types, LoopRecord
    <3> QED
      BY <1>3, <3>1, <3>3
  <2>5. ASSUME NEW c \in Calls, StartTool(c)
        PROVE  Ledger!Next
    <3>1. CASE began' # began
      BY <2>5, <3>1, ActFollows
    <3>2. CASE began' = began
      <4>1. log' = log /\ loop' = loop /\ loop.pc # "idle"
        BY <2>5 DEF StartTool, LInv, Waving
      <4> QED
        BY <1>3, <3>2, <4>1
    <3> QED
      BY <3>1, <3>2
  <2>6. ASSUME NEW c \in Calls, ToolReturns(c)
        PROVE  Ledger!Next
    <3>1. log' = log /\ loop' = loop /\ began' = began /\ loop.pc # "idle"
      BY <2>6 DEF ToolReturns, LInv, Waving
    <3> QED
      BY <1>3, <3>1
  <2> QED
    BY <1>4, <2>1, <2>2, <2>3, <2>4, <2>5, <2>6 DEF Go
<1>5. CASE Cancel
  <2>1. log' = log /\ loop' = loop /\ began' = began /\ loop.pc # "idle"
    BY <1>5 DEF Cancel
  <2> QED
    BY <1>3, <2>1
<1>6. CASE Crash
  <2>1. loop.pc # "idle" /\ loop'.pc = "idle" /\ UNCHANGED <<log, run, began>>
    BY <1>6 DEF Crash, Idle
  <2> QED
    BY <2>1, ReleaseFollows DEF Ledger!Next
<1> QED
  BY <1>1, <1>2, <1>4, <1>5, <1>6 DEF Next

LEMMA LedgerBegins ==
    ASSUME Init
    PROVE  Ledger!Init
<1>1. log = {} /\ began = {} /\ loop.pc = "idle"
  BY DEF Init, Idle
<1>2. \A k : Ids(k) = {}
  BY <1>1 DEF Ids
<1>3. Open = {} /\ Settles = {} /\ Tagged("tool", began) = {}
  BY <1>1, <1>2 DEF Open, Settles, Tagged, OpenTools, OpenModels
<1>4. (loop.pc # "idle") = FALSE
  BY <1>1
<1> QED
  BY <1>3, <1>4 DEF Ledger!Init, Open, Settles

\* Whatever fails: a tool is run, or a model asked, on a durable intent without
\* an outcome, at most once, and by the owner of the session; an outcome is
\* recorded once, and a new run settles what an older one left (the loop and
\* AppendRecords, platform/storage/session/records.go, together).
THEOREM LoopImplementsLedger ==
    ASSUME LoopAssumption
    PROVE  Spec => ImplementsLedger
<1>1. Init => Ledger!Init
  BY LedgerBegins
<1>2. LInv /\ LInv' /\ [Next]_vars => [Ledger!Next]_(Ledger!vars)
  BY LedgerStep
<1> QED
  BY <1>1, <1>2, LoopInvariant, PTL DEF Spec, ImplementsLedger, Ledger!Spec

-----------------------------------------------------------------------------
(* Proofs about ToolLock: its types and budget, that conflicting calls     *)
(* never hold their claims together, and that no wake-up is lost.          *)

LockShape ==
    /\ pc \in [Task -> {"idle", "enter", "asleep", "held"}]
    /\ cancelled \in [Task -> BOOLEAN] /\ signal \in [Task -> BOOLEAN]
    /\ active \in SUBSET Task /\ ahead \in [Task -> SUBSET Task]

\* Those that hold claims run; coordinators neither hold nor wait.
Held == (\A t \in active : pc[t] = "held") /\ \A t \in active \cup Waiting : ~Bypasses(t)

\* The list of waiting calls is a list.
Listed ==
    /\ \A t \in Task : ahead[t] \subseteq Waiting /\ t \notin ahead[t]
    /\ \A s, t \in Waiting : s # t => (s \in ahead[t] <=> t \notin ahead[s])

Budget == Cardinality(Waiting) <= MaxWaiters

LockInv == LockShape /\ Held /\ Listed /\ Budget /\ Exclusive /\ SleepersAreBlocked

-----------------------------------------------------------------------------
(* Conflicts do not depend on who came first.                              *)
LEMMA ConflictSymmetric == ASSUME NEW s \in Task, NEW t \in Task PROVE Conflict(s, t) <=> Conflict(t, s)
  BY DEF Conflict

LEMMA WaitingFinite == IsFiniteSet(Waiting) /\ Cardinality(Waiting) \in Nat
  BY ToolLockAssumption, FS_Subset, FS_CardinalityType DEF Waiting

LEMMA InitInv == LockInit => LockInv
  <1> SUFFICES ASSUME LockInit PROVE LockInv
    OBVIOUS
  <1>1. Waiting = {}
    BY DEF LockInit, Waiting
  <1>2. Budget
    BY <1>1, FS_EmptySet, ToolLockAssumption DEF Budget
  <1> QED
    BY <1>1, <1>2 DEF LockInit, LockInv, LockShape, Held, Listed, Exclusive, SleepersAreBlocked

-----------------------------------------------------------------------------
(* A round of the loop, for a call that is at the end of the list or in it. *)
LEMMA LookInv ==
    ASSUME LockInv, NEW t \in Task, NEW before \in SUBSET Waiting, Look(t, before), UNCHANGED cancelled, ~Bypasses(t),
           \/ pc[t] = "enter" /\ before = Waiting /\ ~Full
           \/ pc[t] = "asleep" /\ before = ahead[t]
    PROVE  LockInv'
  <1>0. before \subseteq Task /\ t \notin before /\ t \notin active
    BY DEF LockInv, LockShape, Held, Listed, Waiting
  <1>1. CASE cancelled[t] /\ pc' = [pc EXCEPT ![t] = "idle"] /\ ahead' = Gone(t)
                /\ signal' = [Notified EXCEPT ![t] = FALSE] /\ UNCHANGED active
    <2>1. LockShape'
      BY <1>1 DEF LockInv, LockShape, Gone, Notified
    <2>2. Waiting' = Waiting \ {t}
      BY <1>1 DEF LockInv, LockShape, Waiting
    <2>3. Listed'
      <3>1. ahead'[t] = {} /\ \A u \in Task : u # t => ahead'[u] = ahead[u] \ {t}
        BY <1>1 DEF LockInv, LockShape, Gone
      <3>2. \A u \in Task : ahead'[u] \subseteq Waiting' /\ u \notin ahead'[u]
        BY <2>2, <3>1 DEF LockInv, Listed
      <3>3. \A u, v \in Waiting' : u # v => (u \in ahead'[v] <=> v \notin ahead'[u])
        BY <2>2, <3>1 DEF LockInv, Listed, Waiting
      <3> QED
        BY <3>2, <3>3 DEF Listed
    <2>4. Budget'
      <3>1. Cardinality(Waiting') = Cardinality(Waiting) \/ Cardinality(Waiting') = Cardinality(Waiting) - 1
        BY <2>2, WaitingFinite, FS_RemoveElement
      <3> QED
        BY <3>1, WaitingFinite, ToolLockAssumption DEF LockInv, Budget
    <2>5. Exclusive'
      BY <1>1 DEF LockInv, Exclusive, Conflict
    <2>6. SleepersAreBlocked'
      BY <1>1 DEF LockInv, LockShape, SleepersAreBlocked, Notified
    <2>7. Held'
      BY <1>0, <1>1, <2>2 DEF LockInv, LockShape, Held, Bypasses
    <2> QED
      BY <2>1, <2>3, <2>4, <2>5, <2>6, <2>7 DEF LockInv
  <1>2. CASE ~cancelled[t] /\ MayHold(t, before) /\ pc' = [pc EXCEPT ![t] = "held"] /\ ahead' = Gone(t)
                /\ active' = active \cup {t} /\ signal' = [signal EXCEPT ![t] = FALSE]
    <2>1. LockShape'
      BY <1>2 DEF LockInv, LockShape, Gone
    <2>2. Waiting' = Waiting \ {t}
      BY <1>2 DEF LockInv, LockShape, Waiting
    <2>3. Listed'
      <3>1. ahead'[t] = {} /\ \A u \in Task : u # t => ahead'[u] = ahead[u] \ {t}
        BY <1>2 DEF LockInv, LockShape, Gone
      <3>2. \A u \in Task : ahead'[u] \subseteq Waiting' /\ u \notin ahead'[u]
        BY <2>2, <3>1 DEF LockInv, Listed
      <3>3. \A u, v \in Waiting' : u # v => (u \in ahead'[v] <=> v \notin ahead'[u])
        BY <2>2, <3>1 DEF LockInv, Listed, Waiting
      <3> QED
        BY <3>2, <3>3 DEF Listed
    <2>4. Budget'
      <3>1. Cardinality(Waiting') = Cardinality(Waiting) \/ Cardinality(Waiting') = Cardinality(Waiting) - 1
        BY <2>2, WaitingFinite, FS_RemoveElement
      <3> QED
        BY <3>1, WaitingFinite, ToolLockAssumption DEF LockInv, Budget
    <2>5. Exclusive'
      <3>1. \A s \in active : ~Conflict(s, t) /\ ~Conflict(t, s)
        BY <1>2, ConflictSymmetric DEF LockInv, LockShape, MayHold
      <3> QED
        BY <1>2, <3>1 DEF LockInv, Exclusive, Conflict
    <2>6. SleepersAreBlocked'
      <3> SUFFICES ASSUME NEW u \in Task, pc'[u] = "asleep", ~signal'[u] PROVE ~MayHold(u, ahead[u])'
        BY DEF SleepersAreBlocked
      <3>1. u # t /\ pc[u] = "asleep" /\ ~signal[u]
        BY <1>2 DEF LockInv, LockShape
      <3>2. PICK s \in active \cup ahead[u] : Conflict(s, u)
        BY <3>1 DEF LockInv, SleepersAreBlocked, MayHold
      <3>3. s \in active' \cup ahead'[u]
        BY <1>2, <3>1, <3>2 DEF LockInv, LockShape, Gone
      <3> QED
        BY <3>2, <3>3 DEF MayHold, Conflict
    <2>7. Held'
      BY <1>0, <1>2, <2>2 DEF LockInv, LockShape, Held, Bypasses
    <2> QED
      BY <2>1, <2>3, <2>4, <2>5, <2>6, <2>7 DEF LockInv
  <1>3. CASE ~cancelled[t] /\ ~MayHold(t, before) /\ pc' = [pc EXCEPT ![t] = "asleep"]
                /\ ahead' = [ahead EXCEPT ![t] = before] /\ signal' = [signal EXCEPT ![t] = FALSE] /\ UNCHANGED active
    <2>1. LockShape'
      BY <1>0, <1>3 DEF LockInv, LockShape
    <2>2. Waiting' = Waiting \cup {t}
      BY <1>3 DEF LockInv, LockShape, Waiting
    <2>3. Listed'
      <3>1. ahead'[t] = before /\ \A u \in Task : u # t => ahead'[u] = ahead[u]
        BY <1>3 DEF LockInv, LockShape
      <3>3. \A u \in Task : ahead'[u] \subseteq Waiting' /\ u \notin ahead'[u]
        BY <1>0, <2>2, <3>1 DEF LockInv, Listed
      <3>4. \A u \in Waiting \ {t} : u \in ahead'[t] <=> t \notin ahead'[u]
        <4>1. CASE pc[t] = "enter" /\ before = Waiting
          BY <3>1, <4>1 DEF LockInv, Listed, Waiting
        <4>2. CASE pc[t] = "asleep" /\ before = ahead[t]
          BY <3>1, <4>2 DEF LockInv, Listed, Waiting
        <4> QED
          BY <4>1, <4>2
      <3>5. \A u, v \in Waiting \ {t} : u # v => (u \in ahead'[v] <=> v \notin ahead'[u])
        BY <3>1 DEF LockInv, Listed, Waiting
      <3> QED
        BY <2>2, <3>3, <3>4, <3>5 DEF Listed
    <2>4. Budget'
      <3>1. CASE pc[t] = "asleep"
        BY <2>2, <3>1, Waiting \cup {t} = Waiting DEF LockInv, Budget, Waiting
      <3>2. CASE ~Full /\ t \notin Waiting
        <4>1. Cardinality(Waiting') = Cardinality(Waiting) + 1
          BY <2>2, <3>2, WaitingFinite, FS_AddElement
        <4> QED
          BY <3>2, <4>1, WaitingFinite, ToolLockAssumption DEF Full, Budget
      <3> QED
        BY <3>1, <3>2 DEF Waiting
    <2>5. Exclusive'
      BY <1>3 DEF LockInv, Exclusive, Conflict
    <2>6. SleepersAreBlocked'
      <3> SUFFICES ASSUME NEW u \in Task, pc'[u] = "asleep", ~signal'[u] PROVE ~MayHold(u, ahead[u])'
        BY DEF SleepersAreBlocked
      <3>1. CASE u = t
        BY <1>3, <3>1 DEF LockInv, LockShape, MayHold, Conflict
      <3>2. CASE u # t
        <4>1. pc[u] = "asleep" /\ ~signal[u] /\ ahead'[u] = ahead[u]
          BY <1>3, <3>2 DEF LockInv, LockShape
        <4> QED
          BY <1>3, <4>1 DEF LockInv, SleepersAreBlocked, MayHold, Conflict
      <3> QED
        BY <3>1, <3>2
    <2>7. Held'
      BY <1>0, <1>3, <2>2 DEF LockInv, LockShape, Held, Bypasses
    <2> QED
      BY <2>1, <2>3, <2>4, <2>5, <2>6, <2>7 DEF LockInv
  <1> QED
    BY <1>1, <1>2, <1>3 DEF Look

-----------------------------------------------------------------------------
(* Steps that leave the list alone.                                        *)
LEMMA CallInv == ASSUME LockInv, NEW t \in Task, Call(t) PROVE LockInv'
  <1>1. Waiting' = Waiting
    BY DEF Call, LockInv, LockShape, Waiting
  <1>2. LockShape' /\ Held' /\ Listed'
    BY <1>1 DEF Call, LockInv, LockShape, Held, Listed, Bypasses
  <1>3. Budget'
    BY <1>1 DEF LockInv, Budget
  <1>4. Exclusive'
    BY DEF Call, LockInv, Exclusive, Conflict
  <1>5. SleepersAreBlocked'
    BY DEF Call, LockInv, LockShape, SleepersAreBlocked, MayHold, Conflict
  <1> QED
    BY <1>2, <1>3, <1>4, <1>5 DEF LockInv

\* A call that is let through, or turned away.
LEMMA PassInv ==
    ASSUME LockInv, NEW t \in Task, pc[t] = "enter", NEW next \in {"idle", "held"},
           pc' = [pc EXCEPT ![t] = next], UNCHANGED <<cancelled, signal, active, ahead>>
    PROVE  LockInv'
  <1>1. Waiting' = Waiting
    BY DEF LockInv, LockShape, Waiting
  <1>0. t \notin active
    BY DEF LockInv, Held
  <1>2. LockShape' /\ Held' /\ Listed'
    BY <1>0, <1>1 DEF LockInv, LockShape, Held, Listed, Bypasses
  <1>3. Budget'
    BY <1>1 DEF LockInv, Budget
  <1>4. Exclusive'
    BY DEF LockInv, Exclusive, Conflict
  <1>5. SleepersAreBlocked'
    BY DEF LockInv, LockShape, SleepersAreBlocked, MayHold, Conflict
  <1> QED
    BY <1>2, <1>3, <1>4, <1>5 DEF LockInv

LEMMA ReleaseInv == ASSUME LockInv, NEW t \in Task, Release(t) PROVE LockInv'
  <1>1. Waiting' = Waiting
    BY DEF Release, LockInv, LockShape, Waiting
  <1>2. LockShape'
    BY DEF Release, LockInv, LockShape, Notified
  <1>3. Held' /\ Listed'
    BY <1>1 DEF Release, LockInv, LockShape, Held, Listed, Bypasses
  <1>4. Budget'
    BY <1>1 DEF LockInv, Budget
  <1>5. Exclusive'
    BY DEF Release, LockInv, Exclusive, Conflict
  <1>6. SleepersAreBlocked'
    <2>1. CASE Bypasses(t)
      <3>1. t \notin active
        BY <2>1 DEF LockInv, Held
      <3> QED
        BY <2>1, <3>1 DEF Release, LockInv, LockShape, SleepersAreBlocked, MayHold, Conflict
    <2>2. CASE ~Bypasses(t)
      BY <2>2 DEF Release, LockInv, LockShape, SleepersAreBlocked, Notified
    <2> QED
      BY <2>1, <2>2
  <1> QED
    BY <1>2, <1>3, <1>4, <1>5, <1>6 DEF LockInv

LEMMA CancelInv == ASSUME LockInv, NEW t \in Task, CancelCall(t) PROVE LockInv'
  BY DEF CancelCall, LockInv, LockShape, Held, Listed, Budget, Waiting, Bypasses, Exclusive, SleepersAreBlocked, MayHold, Conflict

LEMMA StepInv == LockInv /\ [LockNext]_lockVars => LockInv'
  <1> SUFFICES ASSUME LockInv, [LockNext]_lockVars PROVE LockInv'
    OBVIOUS
  <1>1. ASSUME NEW t \in Task, Acquire(t) PROVE LockInv'
    <2>1. CASE Bypasses(t) \/ Full
      BY <1>1, <2>1, PassInv DEF Acquire
    <2>2. CASE ~Bypasses(t) /\ ~Full
      BY <1>1, <2>2, LookInv DEF Acquire
    <2> QED
      BY <2>1, <2>2
  <1>2. ASSUME NEW t \in Task, Retry(t) PROVE LockInv'
    BY <1>2, LookInv DEF Retry, LockInv, Held, Waiting, Listed
  <1>3. CASE UNCHANGED lockVars
    BY <1>3 DEF lockVars, LockInv, LockShape, Held, Listed, Budget, Waiting, Bypasses, Exclusive, SleepersAreBlocked, MayHold, Conflict
  <1> QED
    BY <1>1, <1>2, <1>3, CallInv, ReleaseInv, CancelInv DEF LockNext

-----------------------------------------------------------------------------
\* The inductive invariant of the registry.
THEOREM LockInvariant == LockSpec => []LockInv
  BY InitInv, StepInv, PTL DEF LockSpec

\* The types of Acquire and release, the order and the budget of waiting.
THEOREM LockTypes == LockSpec => []ToolLockTypeOK
  <1>1. LockInv => ToolLockTypeOK
    BY DEF LockInv, LockShape, Listed, Budget, ToolLockTypeOK
  <1> QED
    BY <1>1, LockInvariant, PTL

\* canAcquire lets no two conflicting calls run at the same time.
THEOREM LockExclusive == LockSpec => []Exclusive
  <1>1. LockInv => Exclusive
    BY DEF LockInv
  <1> QED
    BY <1>1, LockInvariant, PTL

\* Acquire, release and cancellation wake every call that may go on.
THEOREM LockNoLostWakeUp == LockSpec => []SleepersAreBlocked
  <1>1. LockInv => SleepersAreBlocked
    BY DEF LockInv
  <1> QED
    BY <1>1, LockInvariant, PTL

-----------------------------------------------------------------------------
(* One call of a tool, and one of a model, with their wrappers.            *)

CONSTANTS Depth, MaxNext, NextCalls, MaxChunks
VARIABLES toolLease, toolWrapper, toolBase, toolPc, toolResult, executed, vetoed, wrong
VARIABLES output, modelLease, modelWrapper, call, callback, modelResult, shown, failed, late, overlap

Tool == INSTANCE ToolCall WITH
  MaxCalls <- MaxNext, lease <- toolLease, wrapper <- toolWrapper, base <- toolBase,
  pc <- toolPc, result <- toolResult

Model == INSTANCE ModelCall WITH
  Calls <- NextCalls, inv <- output, lease <- modelLease, wrapper <- modelWrapper,
  cb <- callback, result <- modelResult

Leases   == [open : BOOLEAN, used : BOOLEAN, active : BOOLEAN, violation : BOOLEAN, failed : BOOLEAN]
Wrappers == [pc : {"idle", "running", "leaving", "returned"}, err : BOOLEAN, calls : Nat]
Busy(l)  == toolWrapper[l].pc \in {"running", "leaving"}

ToolTyped ==
    /\ toolLease \in [Tool!Layers -> Leases] /\ toolWrapper \in [Tool!Layers -> Wrappers]
    /\ toolBase \in {"idle", "running", "ok", "err"} /\ toolPc \in {"before", "wrapping", "after", "returned"}
    /\ toolResult \in {"none", "ok", "blocked", "err"} /\ executed \in Nat /\ vetoed \in BOOLEAN /\ wrong \subseteq Tool!Layers

\* The lease of a wrapper: open while it runs, and never taken back.
LeaseHolds(l) ==
    /\ toolLease[l].open <=> toolWrapper[l].pc = "running"
    /\ toolLease[l].active => toolLease[l].used /\ Busy(l)
    /\ toolLease[l].used => toolWrapper[l].pc # "idle"
    /\ l \in wrong <=> toolLease[l].failed \/ toolLease[l].violation
    /\ l \in wrong => toolWrapper[l].pc # "idle"

\* Who is inside is inside all that are further out, and a failure has reached
\* every wrapper that has seen its next return.
NestingHolds(k, l) ==
    /\ k < l => /\ toolLease[l].active => toolLease[k].active
                /\ toolWrapper[l].pc # "idle" => toolLease[k].used
    /\ l = k + 1 => (Busy(l) <=> toolLease[k].active)
    /\ \A m \in Tool!Layers : l = k + 1 /\ l <= m /\ m \in wrong /\ toolWrapper[l].pc = "returned" => k \in wrong

BaseHolds ==
    /\ toolBase = "running" <=> toolLease[Depth].active
    /\ toolBase # "idle" => toolLease[Depth].used
    /\ toolBase = "err" => Depth \in wrong
    /\ executed = IF toolBase = "idle" THEN 0 ELSE 1

ResultHolds ==
    /\ toolPc = "wrapping" <=> Busy(1)
    /\ toolPc = "before" \/ vetoed => toolBase = "idle" /\ \A l \in Tool!Layers : toolWrapper[l].pc = "idle"
    /\ toolResult = "ok" => toolPc = "returned"
    /\ toolResult = "ok" \/ (toolPc = "after" /\ toolResult = "none") => wrong = {} /\ toolBase # "err"

TInv ==
    /\ ToolTyped /\ BaseHolds /\ ResultHolds
    /\ \A l \in Tool!Layers : LeaseHolds(l) /\ \A k \in Tool!Layers : NestingHolds(k, l)

LEMMA ToolInitHolds == ASSUME Tool!ToolCallAssumption, Tool!Init PROVE TInv
  <1>1. 1 \in Tool!Layers /\ Depth \in Tool!Layers
    BY DEF Tool!ToolCallAssumption, Tool!Layers
  <1>2. ToolTyped
    BY DEF Tool!Init, ToolTyped, Leases, Wrappers
  <1>3. \A l \in Tool!Layers : LeaseHolds(l) /\ \A k \in Tool!Layers : NestingHolds(k, l)
    BY DEF Tool!Init, LeaseHolds, NestingHolds, Busy
  <1>4. BaseHolds /\ ResultHolds
    BY <1>1 DEF Tool!Init, BaseHolds, ResultHolds, Busy
  <1> QED BY <1>2, <1>3, <1>4 DEF TInv

\* Nobody is inside while the call does not run its wrappers.
LEMMA NobodyInside == ASSUME Tool!ToolCallAssumption, TInv, toolPc # "wrapping" PROVE \A l \in Tool!Layers : ~toolLease[l].active /\ ~Busy(l)
  <1>1. 1 \in Tool!Layers /\ Depth \in Nat
    BY DEF Tool!ToolCallAssumption, Tool!Layers
  <1>2. ~toolLease[1].active /\ ~Busy(1)
    BY <1>1 DEF TInv, ResultHolds, LeaseHolds
  <1>3. ASSUME NEW l \in Tool!Layers PROVE ~toolLease[l].active
    <2>1. l = 1 \/ 1 < l
      BY DEF Tool!Layers
    <2> QED BY <1>1, <1>2, <2>1 DEF TInv, NestingHolds
  <1>4. ASSUME NEW l \in Tool!Layers PROVE ~Busy(l)
    <2>1. CASE l = 1
      BY <1>2, <2>1
    <2>2. CASE l # 1
      <3>1. l - 1 \in Tool!Layers /\ l = (l - 1) + 1
        BY <1>1, <2>2 DEF Tool!Layers
      <3> QED BY <1>3, <3>1 DEF TInv, NestingHolds
    <2> QED BY <2>1, <2>2
  <1> QED BY <1>3, <1>4

\* A wrapper that is inside has everybody further out inside.
LEMMA OutsideBusy ==
  ASSUME Tool!ToolCallAssumption, TInv, NEW l \in Tool!Layers, Busy(l), NEW k \in Tool!Layers, k < l
  PROVE  toolLease[k].active /\ Busy(k)
  <1>1. l \in Nat /\ k \in Nat /\ Depth \in Nat /\ k >= 1
    BY DEF Tool!ToolCallAssumption, Tool!Layers
  <1>2. l - 1 \in Tool!Layers /\ l = (l - 1) + 1 /\ (k = l - 1 \/ k < l - 1)
    BY <1>1 DEF Tool!Layers
  <1>3. toolLease[l - 1].active
    BY <1>2 DEF TInv, NestingHolds
  <1>4. toolLease[k].active
    BY <1>2, <1>3 DEF TInv, NestingHolds
  <1> QED BY <1>4 DEF TInv, LeaseHolds

LEMMA BeforeKeeps == ASSUME Tool!ToolCallAssumption, TInv, NEW verdict \in {"pass", "veto", "err"}, Tool!Before(verdict) PROVE TInv'
  <1>1. 1 \in Tool!Layers /\ Depth \in Tool!Layers /\ Depth \in Nat
    BY DEF Tool!ToolCallAssumption, Tool!Layers
  <1>2. toolLease \in [Tool!Layers -> Leases] /\ toolWrapper \in [Tool!Layers -> Wrappers]
    BY DEF TInv, ToolTyped
  <1>3. /\ toolPc = "before" /\ toolBase = "idle" /\ executed = 0 /\ toolResult # "ok"
        /\ \A l \in Tool!Layers : toolWrapper[l].pc = "idle" /\ ~toolLease[l].active /\ ~toolLease[l].used /\ ~toolLease[l].open /\ l \notin wrong
    BY DEF Tool!Before, TInv, ResultHolds, BaseHolds, LeaseHolds, Busy
  <1>4. wrong = {}
    BY <1>3 DEF TInv, ToolTyped
  <1>5. toolBase' = "idle" /\ executed' = 0 /\ wrong' = {} /\ vetoed' = (verdict # "pass")
    BY <1>3, <1>4 DEF Tool!Before
  <1>6. CASE verdict = "pass"
    <2>1. /\ toolWrapper' \in [Tool!Layers -> Wrappers] /\ toolWrapper'[1].pc = "running"
          /\ \A l \in Tool!Layers \ {1} : toolWrapper'[l] = toolWrapper[l]
          /\ toolLease' \in [Tool!Layers -> Leases] /\ toolLease'[1].open
          /\ \A l \in Tool!Layers \ {1} : toolLease'[l] = toolLease[l]
          /\ \A l \in Tool!Layers : /\ toolLease'[l].used = toolLease[l].used /\ toolLease'[l].active = toolLease[l].active
                                    /\ toolLease'[l].violation = toolLease[l].violation /\ toolLease'[l].failed = toolLease[l].failed
          /\ toolPc' = "wrapping" /\ toolResult' = toolResult
      <3>1. /\ toolWrapper' = [toolWrapper EXCEPT ![1].pc = "running"] /\ toolLease' = [toolLease EXCEPT ![1].open = TRUE]
            /\ toolPc' = "wrapping" /\ toolResult' = toolResult
        BY <1>6 DEF Tool!Before, Tool!Begin
      <3>2. /\ toolWrapper' \in [Tool!Layers -> Wrappers] /\ toolWrapper'[1].pc = "running"
            /\ \A l \in Tool!Layers \ {1} : toolWrapper'[l] = toolWrapper[l]
        BY <1>1, <1>2, <3>1 DEF Wrappers
      <3>3. /\ toolLease' \in [Tool!Layers -> Leases] /\ toolLease'[1] = [toolLease[1] EXCEPT !.open = TRUE]
            /\ \A l \in Tool!Layers \ {1} : toolLease'[l] = toolLease[l]
        BY <1>1, <1>2, <3>1 DEF Leases
      <3>4. toolLease[1] \in Leases
        BY <1>1, <1>2
      <3>5. /\ toolLease'[1].open /\ toolLease'[1].used = toolLease[1].used /\ toolLease'[1].active = toolLease[1].active
            /\ toolLease'[1].violation = toolLease[1].violation /\ toolLease'[1].failed = toolLease[1].failed
        BY <3>3, <3>4 DEF Leases
      <3> QED BY <3>1, <3>2, <3>3, <3>5
    <2>2. ToolTyped'
      BY <1>5, <2>1 DEF TInv, ToolTyped
    <2>3. \A l \in Tool!Layers : LeaseHolds(l)'
      BY <1>3, <1>4, <1>5, <2>1 DEF TInv, LeaseHolds, Busy
    <2>4. \A l, k \in Tool!Layers : NestingHolds(k, l)'
      <3>1. \A l, k \in Tool!Layers : k < l \/ l = k + 1 => l # 1
        BY DEF Tool!Layers
      <3> QED BY <1>3, <1>5, <2>1, <3>1 DEF NestingHolds, Busy
    <2>5. BaseHolds' /\ ResultHolds'
      BY <1>1, <1>3, <1>5, <1>6, <2>1 DEF BaseHolds, ResultHolds, Busy
    <2> QED BY <2>2, <2>3, <2>4, <2>5 DEF TInv
  <1>7. CASE verdict # "pass"
    <2>1. UNCHANGED <<toolWrapper, toolLease>> /\ \/ toolPc' = "after" /\ toolResult' = "blocked"
                                                  \/ toolPc' = "returned" /\ toolResult' = "err"
      BY <1>7 DEF Tool!Before
    <2>2. ToolTyped'
      BY <1>5, <2>1 DEF TInv, ToolTyped
    <2>3. \A l \in Tool!Layers : LeaseHolds(l)' /\ \A k \in Tool!Layers : NestingHolds(k, l)'
      BY <1>4, <1>5, <2>1 DEF TInv, LeaseHolds, NestingHolds, Busy
    <2>4. BaseHolds' /\ ResultHolds'
      BY <1>1, <1>3, <1>4, <1>5, <2>1 DEF TInv, BaseHolds, ResultHolds, Busy
    <2> QED BY <2>2, <2>3, <2>4 DEF TInv
  <1> QED BY <1>6, <1>7

\* Who is inside makes the call one that runs its wrappers, so it is not vetoed.
LEMMA InsideIs ==
  ASSUME Tool!ToolCallAssumption, TInv, NEW l \in Tool!Layers, Busy(l)
  PROVE  toolPc = "wrapping" /\ ~vetoed /\ toolResult # "ok"
  <1>1. toolPc = "wrapping"
    BY NobodyInside
  <1> QED BY <1>1 DEF TInv, ResultHolds, Busy

LEMMA RefuseLateKeeps == ASSUME Tool!ToolCallAssumption, TInv, NEW l \in Tool!Layers, Tool!RefuseLate(l) PROVE TInv'
  <1>1. 1 \in Tool!Layers /\ Depth \in Tool!Layers
    BY DEF Tool!ToolCallAssumption, Tool!Layers
  <1>2. toolWrapper \in [Tool!Layers -> Wrappers] /\ toolWrapper[l] \in Wrappers
    BY DEF TInv, ToolTyped
  <1>3. UNCHANGED <<toolLease, toolBase, toolPc, toolResult, executed, vetoed, wrong>>
        /\ toolWrapper' = [toolWrapper EXCEPT ![l].calls = @ + 1]
    BY DEF Tool!RefuseLate
  <1>4. toolWrapper' \in [Tool!Layers -> Wrappers] /\ \A o \in Tool!Layers : toolWrapper'[o].pc = toolWrapper[o].pc
    BY <1>2, <1>3 DEF Wrappers
  <1>5. ToolTyped'
    BY <1>3, <1>4 DEF TInv, ToolTyped
  <1>6. \A o \in Tool!Layers : LeaseHolds(o)' /\ \A k \in Tool!Layers : NestingHolds(k, o)'
    BY <1>3, <1>4 DEF TInv, LeaseHolds, NestingHolds, Busy
  <1>7. BaseHolds' /\ ResultHolds'
    BY <1>1, <1>3, <1>4 DEF TInv, BaseHolds, ResultHolds, Busy
  <1> QED BY <1>5, <1>6, <1>7 DEF TInv

LEMMA RefuseWrongKeeps ==
  ASSUME Tool!ToolCallAssumption, TInv, NEW l \in Tool!Layers, NEW changed \in BOOLEAN, Tool!RefuseWrong(l, changed) PROVE TInv'
  <1>1. 1 \in Tool!Layers /\ Depth \in Tool!Layers
    BY DEF Tool!ToolCallAssumption, Tool!Layers
  <1>2. /\ toolLease \in [Tool!Layers -> Leases] /\ toolWrapper \in [Tool!Layers -> Wrappers]
        /\ toolWrapper[l] \in Wrappers /\ toolLease[l] \in Leases
    BY DEF TInv, ToolTyped
  <1>3. toolWrapper[l].pc = "running" /\ Busy(l)
    BY DEF Tool!RefuseWrong, TInv, LeaseHolds, Busy
  <1>4. toolPc = "wrapping" /\ ~vetoed /\ toolResult # "ok"
    BY <1>3, InsideIs
  <1>5. /\ UNCHANGED <<toolBase, toolPc, toolResult, executed, vetoed>> /\ wrong' = wrong \cup {l}
        /\ toolWrapper' = [toolWrapper EXCEPT ![l].calls = @ + 1]
        /\ toolLease' = [toolLease EXCEPT ![l] = [toolLease[l] EXCEPT !.used = TRUE, !.violation = TRUE]]
    BY <1>2 DEF Tool!RefuseWrong
  <1>6. toolWrapper' \in [Tool!Layers -> Wrappers] /\ \A o \in Tool!Layers : toolWrapper'[o].pc = toolWrapper[o].pc
    BY <1>2, <1>5 DEF Wrappers
  <1>7. /\ toolLease' \in [Tool!Layers -> Leases] /\ \A o \in Tool!Layers \ {l} : toolLease'[o] = toolLease[o]
        /\ toolLease'[l].used /\ toolLease'[l].violation
        /\ toolLease'[l].open = toolLease[l].open /\ toolLease'[l].active = toolLease[l].active
    BY <1>2, <1>5 DEF Leases
  <1>8. ToolTyped'
    BY <1>5, <1>6, <1>7 DEF TInv, ToolTyped
  <1>9. \A o \in Tool!Layers : LeaseHolds(o)'
    BY <1>3, <1>5, <1>6, <1>7 DEF TInv, LeaseHolds, Busy
  <1>10. ASSUME NEW o \in Tool!Layers, NEW k \in Tool!Layers PROVE NestingHolds(k, o)'
    <2>1. k < o => /\ toolLease'[o].active => toolLease'[k].active
                   /\ toolWrapper'[o].pc # "idle" => toolLease'[k].used
      BY <1>6, <1>7 DEF TInv, NestingHolds
    <2>2. o = k + 1 => (Busy(o)' <=> toolLease'[k].active)
      BY <1>6, <1>7 DEF TInv, NestingHolds, Busy
    <2>3. ASSUME NEW m \in Tool!Layers, o = k + 1, o <= m, m \in wrong', toolWrapper'[o].pc = "returned" PROVE k \in wrong'
      <3>1. CASE m = l
        <4>1. o = l \/ o < l
          BY <2>3, <3>1 DEF Tool!Layers
        <4>2. Busy(o)
          BY <1>3, <4>1, OutsideBusy
        <4> QED BY <1>6, <2>3, <4>2 DEF Busy
      <3>2. CASE m # l
        BY <1>5, <1>6, <2>3, <3>2 DEF TInv, NestingHolds
      <3> QED BY <3>1, <3>2
    <2> QED BY <2>1, <2>2, <2>3 DEF NestingHolds
  <1>11. BaseHolds'
    BY <1>1, <1>5, <1>7 DEF TInv, BaseHolds
  <1>12. ResultHolds'
    BY <1>1, <1>4, <1>5, <1>6 DEF TInv, ResultHolds, Busy
  <1> QED BY <1>8, <1>9, <1>10, <1>11, <1>12 DEF TInv

LEMMA AdmitKeeps == ASSUME Tool!ToolCallAssumption, TInv, NEW l \in Tool!Layers, Tool!Admit(l) PROVE TInv'
  <1>1. 1 \in Tool!Layers /\ Depth \in Tool!Layers /\ Depth \in Nat /\ l \in Nat
    BY DEF Tool!ToolCallAssumption, Tool!Layers
  <1>2. /\ toolLease \in [Tool!Layers -> Leases] /\ toolWrapper \in [Tool!Layers -> Wrappers]
        /\ toolWrapper[l] \in Wrappers /\ toolLease[l] \in Leases
    BY DEF TInv, ToolTyped
  <1>3. toolWrapper[l].pc = "running" /\ Busy(l) /\ ~toolLease[l].used /\ ~toolLease[l].active
    BY DEF Tool!Admit, TInv, LeaseHolds, Busy
  <1>4. toolPc = "wrapping" /\ ~vetoed /\ toolResult # "ok"
    BY <1>3, InsideIs
  <1>5. UNCHANGED <<toolPc, toolResult, vetoed, wrong>>
    BY DEF Tool!Admit
  <1>6. \A o \in Tool!Layers : l < o => toolWrapper[o].pc = "idle" /\ ~toolLease[o].active /\ o \notin wrong
    BY <1>3 DEF TInv, NestingHolds, LeaseHolds, Busy
  <1>7. CASE l = Depth
    <2>1. /\ toolWrapper' = [toolWrapper EXCEPT ![l].calls = @ + 1] /\ toolBase' = "running" /\ executed' = executed + 1
          /\ toolLease' = [toolLease EXCEPT ![l] = [toolLease[l] EXCEPT !.used = TRUE, !.active = TRUE]]
      BY <1>2, <1>7 DEF Tool!Admit
    <2>2. toolWrapper' \in [Tool!Layers -> Wrappers] /\ \A o \in Tool!Layers : toolWrapper'[o].pc = toolWrapper[o].pc
      BY <1>2, <2>1 DEF Wrappers
    <2>3. /\ toolLease' \in [Tool!Layers -> Leases] /\ \A o \in Tool!Layers \ {l} : toolLease'[o] = toolLease[o]
          /\ toolLease'[l].used /\ toolLease'[l].active /\ toolLease'[l].open = toolLease[l].open
          /\ toolLease'[l].violation = toolLease[l].violation /\ toolLease'[l].failed = toolLease[l].failed
      BY <1>2, <2>1 DEF Leases
    <2>4. toolBase = "idle" /\ executed = 0
      BY <1>3, <1>7 DEF TInv, BaseHolds, LeaseHolds
    <2>5. ToolTyped'
      BY <1>5, <2>1, <2>2, <2>3, <2>4 DEF TInv, ToolTyped
    <2>6. \A o \in Tool!Layers : LeaseHolds(o)'
      BY <1>3, <1>5, <2>2, <2>3 DEF TInv, LeaseHolds, Busy
    <2>7. ASSUME NEW o \in Tool!Layers, NEW k \in Tool!Layers PROVE NestingHolds(k, o)'
      <3>1. o <= l /\ (k < o => k # l) /\ (o = k + 1 => k # l)
        BY <1>1, <1>7 DEF Tool!Layers
      <3>2. k < o => /\ toolLease'[o].active => toolLease'[k].active
                     /\ toolWrapper'[o].pc # "idle" => toolLease'[k].used
        <4>1. CASE o = l
          BY <1>3, <2>2, <2>3, <3>1, <4>1, OutsideBusy DEF TInv, NestingHolds
        <4>2. CASE o # l
          BY <2>2, <2>3, <3>1, <4>2 DEF TInv, NestingHolds
        <4> QED BY <4>1, <4>2
      <3>3. o = k + 1 => (Busy(o)' <=> toolLease'[k].active)
        BY <2>2, <2>3, <3>1 DEF TInv, NestingHolds, Busy
      <3>4. \A m \in Tool!Layers : o = k + 1 /\ o <= m /\ m \in wrong' /\ toolWrapper'[o].pc = "returned" => k \in wrong'
        BY <1>5, <2>2 DEF TInv, NestingHolds
      <3> QED BY <3>2, <3>3, <3>4 DEF NestingHolds
    <2>8. BaseHolds'
      BY <1>5, <1>7, <2>1, <2>3, <2>4 DEF BaseHolds
    <2>9. ResultHolds'
      BY <1>1, <1>4, <1>5, <2>2 DEF TInv, ResultHolds, Busy
    <2> QED BY <2>5, <2>6, <2>7, <2>8, <2>9 DEF TInv
  <1>8. CASE l # Depth
    <2>1. PICK n : n = l + 1
      OBVIOUS
    <2>2. /\ n \in Tool!Layers /\ n # l /\ n # 1 /\ l < n /\ n \in Nat
          /\ \A o \in Tool!Layers : (n < o => l < o) /\ (o = n + 1 => l < o)
      BY <1>1, <1>8, <2>1 DEF Tool!Layers
    <2>3. toolWrapper[n].pc = "idle" /\ ~toolLease[n].active /\ toolWrapper[n] \in Wrappers /\ toolLease[n] \in Leases /\ ~toolLease[n].used
      BY <1>2, <1>6, <2>2 DEF TInv, LeaseHolds
    <2>4. /\ toolWrapper' = [toolWrapper EXCEPT ![l].calls = @ + 1, ![n].pc = "running"] /\ toolBase' = toolBase /\ executed' = executed
          /\ toolLease' = [toolLease EXCEPT ![l] = [toolLease[l] EXCEPT !.used = TRUE, !.active = TRUE], ![n].open = TRUE]
      BY <1>2, <1>8, <2>1 DEF Tool!Admit
    <2>5. /\ toolWrapper' \in [Tool!Layers -> Wrappers] /\ toolWrapper'[n].pc = "running"
          /\ \A o \in Tool!Layers \ {n} : toolWrapper'[o].pc = toolWrapper[o].pc
      BY <1>2, <2>2, <2>3, <2>4 DEF Wrappers
    <2>6. toolLease'[l] = [toolLease[l] EXCEPT !.used = TRUE, !.active = TRUE] /\ toolLease'[n] = [toolLease[n] EXCEPT !.open = TRUE]
          /\ \A o \in Tool!Layers \ {l, n} : toolLease'[o] = toolLease[o]
      BY <1>2, <2>2, <2>4
    <2>7. toolLease' \in [Tool!Layers -> Leases]
      BY <1>2, <2>3, <2>4 DEF Leases
    <2>8. /\ toolLease'[l].used /\ toolLease'[l].active /\ toolLease'[l].open = toolLease[l].open
          /\ toolLease'[l].violation = toolLease[l].violation /\ toolLease'[l].failed = toolLease[l].failed
          /\ toolLease'[n].open /\ toolLease'[n].used = toolLease[n].used /\ toolLease'[n].active = toolLease[n].active
          /\ toolLease'[n].violation = toolLease[n].violation /\ toolLease'[n].failed = toolLease[n].failed
      BY <1>2, <2>3, <2>6 DEF Leases
    <2>9. ToolTyped'
      BY <1>5, <2>4, <2>5, <2>7 DEF TInv, ToolTyped
    <2>10. \A o \in Tool!Layers : LeaseHolds(o)'
      <3> SUFFICES ASSUME NEW o \in Tool!Layers PROVE LeaseHolds(o)'
        OBVIOUS
      <3>1. LeaseHolds(o)
        BY DEF TInv
      <3>2. CASE o = l
        BY <1>3, <1>5, <2>2, <2>5, <2>8, <3>1, <3>2 DEF LeaseHolds, Busy
      <3>3. CASE o = n
        BY <1>5, <1>6, <2>2, <2>3, <2>5, <2>8, <3>1, <3>3 DEF LeaseHolds, Busy
      <3>4. CASE o # l /\ o # n
        <4>1. toolLease'[o] = toolLease[o] /\ toolWrapper'[o].pc = toolWrapper[o].pc
          BY <2>5, <2>6, <3>4
        <4> QED BY <1>5, <3>1, <4>1 DEF LeaseHolds, Busy
      <3> QED BY <3>2, <3>3, <3>4
    <2>11. ASSUME NEW o \in Tool!Layers, NEW k \in Tool!Layers PROVE NestingHolds(k, o)'
      <3>1. /\ k < o => /\ toolLease[o].active => toolLease[k].active
                        /\ toolWrapper[o].pc # "idle" => toolLease[k].used
            /\ o = k + 1 => (Busy(o) <=> toolLease[k].active)
        BY DEF TInv, NestingHolds
      <3>2. k < o /\ o = n => k = l \/ k < l
        BY <2>1, <2>2 DEF Tool!Layers
      <3>3. o = k + 1 => (o = n <=> k = l)
        BY <1>1, <2>1 DEF Tool!Layers
      <3>4. k < l => toolLease[k].active /\ toolLease[k].used
        BY <1>3, OutsideBusy DEF TInv, LeaseHolds
      <3>5. k < o => /\ toolLease'[o].active => toolLease'[k].active
                     /\ toolWrapper'[o].pc # "idle" => toolLease'[k].used
        <4>1. CASE o = n
          BY <2>2, <2>3, <2>6, <2>8, <3>2, <3>4, <4>1
        <4>2. CASE o = l
          BY <2>2, <2>6, <2>8, <3>1, <3>4, <4>2 DEF Tool!Layers
        <4>3. CASE o # n /\ o # l
          <5>1. /\ toolLease'[o].active => toolLease[o].active
                /\ toolWrapper'[o].pc = toolWrapper[o].pc
            BY <2>5, <2>6, <4>3
          <5>2. (toolLease[k].used => toolLease'[k].used) /\ (toolLease[k].active => toolLease'[k].active)
            BY <2>6, <2>8
          <5>3. ASSUME k < o, toolLease'[o].active PROVE toolLease'[k].active
            BY <3>1, <5>1, <5>2, <5>3
          <5>4. ASSUME k < o, toolWrapper'[o].pc # "idle" PROVE toolLease'[k].used
            BY <3>1, <5>1, <5>2, <5>4
          <5> QED BY <5>3, <5>4
        <4> QED BY <4>1, <4>2, <4>3
      <3>6. o = k + 1 => (Busy(o)' <=> toolLease'[k].active)
        <4> SUFFICES ASSUME o = k + 1 PROVE Busy(o)' <=> toolLease'[k].active
          OBVIOUS
        <4>1. CASE o = n
          BY <2>5, <2>8, <3>3, <4>1 DEF Busy
        <4>2. CASE o # n
          <5>1. k # l /\ toolLease'[k].active = toolLease[k].active
            BY <2>6, <2>8, <3>3, <4>2
          <5> QED BY <2>5, <3>1, <4>2, <5>1 DEF Busy
        <4> QED BY <4>1, <4>2
      <3>7. \A m \in Tool!Layers : o = k + 1 /\ o <= m /\ m \in wrong' /\ toolWrapper'[o].pc = "returned" => k \in wrong'
        <4>1. toolWrapper'[o].pc = "returned" => toolWrapper[o].pc = "returned"
          BY <2>5
        <4> QED BY <1>5, <4>1 DEF TInv, NestingHolds
      <3> QED BY <3>5, <3>6, <3>7 DEF NestingHolds
    <2>12. BaseHolds'
      <3>1. toolLease'[Depth].active = toolLease[Depth].active /\ (toolLease[Depth].used => toolLease'[Depth].used)
        BY <1>1, <1>8, <2>2, <2>6, <2>8
      <3> QED BY <1>5, <2>4, <3>1 DEF TInv, BaseHolds
    <2>13. ResultHolds'
      BY <1>1, <1>4, <1>5, <2>2, <2>5 DEF TInv, ResultHolds, Busy
    <2> QED BY <2>9, <2>10, <2>11, <2>12, <2>13 DEF TInv
  <1> QED BY <1>7, <1>8

LEMMA BaseReturnsKeeps == ASSUME Tool!ToolCallAssumption, TInv, NEW err \in BOOLEAN, Tool!ToolReturns(err) PROVE TInv'
  <1>1. 1 \in Tool!Layers /\ Depth \in Tool!Layers /\ \A o \in Tool!Layers : ~(Depth < o)
    BY DEF Tool!ToolCallAssumption, Tool!Layers
  <1>2. toolLease \in [Tool!Layers -> Leases] /\ toolLease[Depth] \in Leases
    BY <1>1 DEF TInv, ToolTyped
  <1>3. toolBase = "running" /\ toolLease[Depth].active /\ toolLease[Depth].used /\ Busy(Depth) /\ executed = 1
    BY <1>1 DEF Tool!ToolReturns, TInv, BaseHolds, LeaseHolds
  <1>4. toolPc = "wrapping" /\ ~vetoed /\ toolResult # "ok"
    BY <1>1, <1>3, InsideIs
  <1>5. /\ UNCHANGED <<toolWrapper, toolPc, toolResult, executed, vetoed>> /\ toolBase' = IF err THEN "err" ELSE "ok"
        /\ wrong' = IF err THEN wrong \cup {Depth} ELSE wrong
        /\ toolLease' = [toolLease EXCEPT ![Depth] = [toolLease[Depth] EXCEPT !.active = FALSE, !.failed = toolLease[Depth].failed \/ err]]
    BY <1>1, <1>2 DEF Tool!ToolReturns, Tool!Gave
  <1>6. toolLease'[Depth] = [toolLease[Depth] EXCEPT !.active = FALSE, !.failed = toolLease[Depth].failed \/ err]
        /\ \A o \in Tool!Layers \ {Depth} : toolLease'[o] = toolLease[o]
    BY <1>1, <1>2, <1>5
  <1>7. toolLease' \in [Tool!Layers -> Leases]
    BY <1>2, <1>5 DEF Leases
  <1>8. /\ ~toolLease'[Depth].active /\ toolLease'[Depth].used = toolLease[Depth].used /\ toolLease'[Depth].open = toolLease[Depth].open
        /\ toolLease'[Depth].violation = toolLease[Depth].violation /\ (toolLease'[Depth].failed <=> toolLease[Depth].failed \/ err)
    BY <1>2, <1>6 DEF Leases
  <1>9. ToolTyped'
    BY <1>1, <1>5, <1>7 DEF TInv, ToolTyped
  <1>10. ASSUME NEW o \in Tool!Layers PROVE LeaseHolds(o)'
    <2>1. LeaseHolds(o)
      BY DEF TInv
    <2>2. CASE o = Depth
      BY <1>3, <1>5, <1>8, <2>1, <2>2 DEF LeaseHolds, Busy
    <2>3. CASE o # Depth
      BY <1>5, <1>6, <2>1, <2>3 DEF LeaseHolds, Busy
    <2> QED BY <2>2, <2>3
  <1>11. ASSUME NEW o \in Tool!Layers, NEW k \in Tool!Layers PROVE NestingHolds(k, o)'
    <2>1. (k < o => k # Depth) /\ (o = k + 1 => k # Depth)
      <3>1. o = k + 1 => k < o
        BY DEF Tool!Layers
      <3> QED BY <1>1, <3>1
    <2>2. k < o => /\ toolLease'[o].active => toolLease'[k].active
                   /\ toolWrapper'[o].pc # "idle" => toolLease'[k].used
      <3>1. toolLease'[o].active => toolLease[o].active
        BY <1>6, <1>8
      <3> QED BY <1>5, <1>6, <2>1, <3>1 DEF TInv, NestingHolds
    <2>3. o = k + 1 => (Busy(o)' <=> toolLease'[k].active)
      BY <1>5, <1>6, <2>1 DEF TInv, NestingHolds, Busy
    <2>4. ASSUME NEW m \in Tool!Layers, o = k + 1, o <= m, m \in wrong', toolWrapper'[o].pc = "returned" PROVE k \in wrong'
      <3>1. CASE m \in wrong
        BY <1>5, <2>4, <3>1 DEF TInv, NestingHolds
      <3>2. CASE m \notin wrong
        <4>1. m = Depth /\ (o = Depth \/ o < Depth)
          BY <1>5, <2>4, <3>2 DEF Tool!ToolCallAssumption, Tool!Layers
        <4>2. Busy(o)
          BY <1>1, <1>3, <4>1, OutsideBusy
        <4> QED BY <1>5, <2>4, <4>2 DEF Busy
      <3> QED BY <3>1, <3>2
    <2> QED BY <2>2, <2>3, <2>4 DEF NestingHolds
  <1>12. BaseHolds'
    BY <1>3, <1>5, <1>8 DEF BaseHolds
  <1>13. ResultHolds'
    BY <1>1, <1>4, <1>5 DEF TInv, ResultHolds, Busy
  <1> QED BY <1>9, <1>10, <1>11, <1>12, <1>13 DEF TInv

LEMMA WrapperReturnsKeeps ==
  ASSUME Tool!ToolCallAssumption, TInv, NEW l \in Tool!Layers, NEW err \in BOOLEAN, Tool!WrapperReturns(l, err) PROVE TInv'
  <1>1. 1 \in Tool!Layers /\ Depth \in Tool!Layers
    BY DEF Tool!ToolCallAssumption, Tool!Layers
  <1>2. /\ toolLease \in [Tool!Layers -> Leases] /\ toolWrapper \in [Tool!Layers -> Wrappers]
        /\ toolWrapper[l] \in Wrappers /\ toolLease[l] \in Leases
    BY DEF TInv, ToolTyped
  <1>3. toolWrapper[l].pc = "running" /\ Busy(l)
    BY DEF Tool!WrapperReturns, Busy
  <1>4. toolPc = "wrapping" /\ ~vetoed /\ toolResult # "ok"
    BY <1>3, InsideIs
  <1>5. /\ UNCHANGED <<toolBase, toolPc, toolResult, executed, vetoed, wrong>>
        /\ toolWrapper' = [toolWrapper EXCEPT ![l] = [toolWrapper[l] EXCEPT !.pc = "leaving", !.err = err]]
        /\ toolLease' = [toolLease EXCEPT ![l].open = FALSE]
    BY <1>2 DEF Tool!WrapperReturns
  <1>6. /\ toolWrapper' \in [Tool!Layers -> Wrappers] /\ toolWrapper'[l].pc = "leaving"
        /\ \A o \in Tool!Layers \ {l} : toolWrapper'[o].pc = toolWrapper[o].pc
    BY <1>2, <1>5 DEF Wrappers
  <1>7. /\ toolLease' \in [Tool!Layers -> Leases] /\ ~toolLease'[l].open
        /\ \A o \in Tool!Layers \ {l} : toolLease'[o] = toolLease[o]
        /\ \A o \in Tool!Layers : /\ toolLease'[o].used = toolLease[o].used /\ toolLease'[o].active = toolLease[o].active
                                  /\ toolLease'[o].violation = toolLease[o].violation /\ toolLease'[o].failed = toolLease[o].failed
    BY <1>2, <1>5 DEF Leases
  <1>8. \A o \in Tool!Layers : /\ Busy(o)' <=> Busy(o)
                               /\ toolWrapper'[o].pc = "idle" <=> toolWrapper[o].pc = "idle"
                               /\ toolWrapper'[o].pc = "returned" <=> toolWrapper[o].pc = "returned"
    BY <1>3, <1>6 DEF Busy
  <1>9. ToolTyped'
    BY <1>5, <1>6, <1>7 DEF TInv, ToolTyped
  <1>10. ASSUME NEW o \in Tool!Layers PROVE LeaseHolds(o)'
    <2>1. LeaseHolds(o)
      BY DEF TInv
    <2> QED BY <1>5, <1>6, <1>7, <1>8, <2>1 DEF LeaseHolds
  <1>11. \A o, k \in Tool!Layers : NestingHolds(k, o)'
    BY <1>5, <1>7, <1>8 DEF TInv, NestingHolds
  <1>12. BaseHolds'
    BY <1>1, <1>5, <1>7 DEF TInv, BaseHolds
  <1>13. ResultHolds'
    BY <1>1, <1>4, <1>5, <1>8 DEF TInv, ResultHolds
  <1> QED BY <1>9, <1>10, <1>11, <1>12, <1>13 DEF TInv

\* A failure further in has reached the wrapper that is about to leave.
LEMMA FailureArrives ==
  ASSUME Tool!ToolCallAssumption, TInv, NEW l \in Tool!Layers, ~toolLease[l].active, NEW m \in Tool!Layers, l <= m, m \in wrong
  PROVE  l \in wrong
  <1>1. CASE m = l
    BY <1>1
  <1>2. CASE m # l
    <2>1. PICK n : n = l + 1
      OBVIOUS
    <2>2. n \in Tool!Layers /\ n <= m /\ (n = m \/ n < m)
      BY <1>2, <2>1 DEF Tool!ToolCallAssumption, Tool!Layers
    <2>3. toolWrapper[n].pc # "idle"
      BY <2>2 DEF TInv, NestingHolds, LeaseHolds
    <2>4. ~Busy(n)
      BY <2>1, <2>2 DEF TInv, NestingHolds
    <2>5. toolWrapper[n].pc = "returned"
      <3>1. toolWrapper[n] \in Wrappers
        BY <2>2 DEF TInv, ToolTyped
      <3> QED BY <2>3, <2>4, <3>1 DEF Busy, Wrappers
    <2> QED BY <2>1, <2>2, <2>5 DEF TInv, NestingHolds
  <1> QED BY <1>1, <1>2

LEMMA WrapperLeftKeeps == ASSUME Tool!ToolCallAssumption, TInv, NEW l \in Tool!Layers, Tool!WrapperLeft(l) PROVE TInv'
  <1>1. 1 \in Tool!Layers /\ Depth \in Tool!Layers /\ Depth \in Nat /\ l \in Nat
    BY DEF Tool!ToolCallAssumption, Tool!Layers
  <1>2. /\ toolLease \in [Tool!Layers -> Leases] /\ toolWrapper \in [Tool!Layers -> Wrappers]
        /\ toolWrapper[l] \in Wrappers /\ toolLease[l] \in Leases
    BY DEF TInv, ToolTyped
  <1>3. toolWrapper[l].pc = "leaving" /\ Busy(l) /\ ~toolLease[l].active /\ UNCHANGED <<toolBase, executed, vetoed>>
        /\ toolWrapper' = [toolWrapper EXCEPT ![l].pc = "returned"]
    BY DEF Tool!WrapperLeft, Busy
  <1>4. toolPc = "wrapping" /\ ~vetoed /\ toolResult # "ok"
    BY <1>3, InsideIs
  <1>5. /\ toolWrapper' \in [Tool!Layers -> Wrappers] /\ toolWrapper'[l].pc = "returned"
        /\ \A o \in Tool!Layers \ {l} : toolWrapper'[o].pc = toolWrapper[o].pc
    BY <1>2, <1>3 DEF Wrappers
  <1>6. \A o \in Tool!Layers : (l < o \/ o = l) => ~toolLease[o].active
    BY <1>3 DEF TInv, NestingHolds
  <1>7. CASE l > 1
    <2>1. PICK n : n = l - 1
      OBVIOUS
    <2>2. /\ n \in Tool!Layers /\ l = n + 1 /\ n < l /\ n # l /\ l # 1 /\ n # Depth /\ n \in Nat
          /\ \A o \in Tool!Layers : (n < o => o = l \/ l < o) /\ (\A k \in Tool!Layers : o = k + 1 => (k = n <=> o = l))
      BY <1>1, <1>7, <2>1 DEF Tool!Layers
    <2>3. toolLease[n] \in Leases /\ toolLease[n].active /\ toolLease[n].used /\ Busy(n)
      BY <1>2, <1>3, <2>2 DEF TInv, NestingHolds, LeaseHolds
    <2> PICK bad \in BOOLEAN : bad = Tool!Outcome(l)
      BY <1>2 DEF Tool!Outcome, Wrappers, Leases
    <2>4. /\ UNCHANGED <<toolPc, toolResult>> /\ wrong' = IF bad THEN wrong \cup {n} ELSE wrong
          /\ toolLease' = [toolLease EXCEPT ![n] = [toolLease[n] EXCEPT !.active = FALSE, !.failed = toolLease[n].failed \/ bad]]
      BY <1>2, <1>7, <2>1, <2>2 DEF Tool!WrapperLeft, Tool!Gave
    <2>5. toolLease'[n] = [toolLease[n] EXCEPT !.active = FALSE, !.failed = toolLease[n].failed \/ bad]
          /\ \A o \in Tool!Layers \ {n} : toolLease'[o] = toolLease[o]
      BY <1>2, <2>2, <2>4
    <2>6. toolLease' \in [Tool!Layers -> Leases]
      BY <1>2, <2>3, <2>4 DEF Leases
    <2>7. /\ ~toolLease'[n].active /\ toolLease'[n].used /\ toolLease'[n].open = toolLease[n].open
          /\ toolLease'[n].violation = toolLease[n].violation /\ (toolLease'[n].failed <=> toolLease[n].failed \/ bad)
      BY <2>3, <2>5 DEF Leases
    <2>8. ToolTyped'
      BY <1>3, <1>5, <2>2, <2>4, <2>6 DEF TInv, ToolTyped
    <2>9. ASSUME NEW o \in Tool!Layers PROVE LeaseHolds(o)'
      <3>1. LeaseHolds(o)
        BY DEF TInv
      <3>2. CASE o = n
        BY <1>5, <2>2, <2>3, <2>4, <2>7, <3>1, <3>2 DEF LeaseHolds, Busy
      <3>3. CASE o = l
        BY <1>3, <1>5, <2>2, <2>4, <2>5, <3>1, <3>3 DEF LeaseHolds, Busy
      <3>4. CASE o # n /\ o # l
        BY <1>5, <2>4, <2>5, <3>1, <3>4 DEF LeaseHolds, Busy
      <3> QED BY <3>2, <3>3, <3>4
    <2>10. ASSUME NEW o \in Tool!Layers, NEW k \in Tool!Layers PROVE NestingHolds(k, o)'
      <3>1. k < o => /\ toolLease'[o].active => toolLease'[k].active
                     /\ toolWrapper'[o].pc # "idle" => toolLease'[k].used
        <4> HAVE k < o
        <4>1. toolWrapper'[o].pc # "idle" => toolWrapper[o].pc # "idle"
          BY <1>3, <1>5
        <4>2. (toolLease[k].used => toolLease'[k].used) /\ (toolLease'[o].active => toolLease[o].active)
          BY <2>5, <2>7
        <4>3. k = n => ~toolLease[o].active
          BY <1>6, <2>2
        <4>4. k # n => toolLease'[k] = toolLease[k]
          BY <2>5
        <4> QED BY <4>1, <4>2, <4>3, <4>4 DEF TInv, NestingHolds
      <3>2. o = k + 1 => (Busy(o)' <=> toolLease'[k].active)
        <4> SUFFICES ASSUME o = k + 1 PROVE Busy(o)' <=> toolLease'[k].active
          OBVIOUS
        <4>1. CASE o = l
          <5>1. k = n
            BY <2>2, <4>1
          <5> QED BY <1>5, <2>7, <4>1, <5>1 DEF Busy
        <4>2. CASE o # l
          <5>1. k # n
            BY <2>2, <4>2
          <5> QED BY <1>5, <2>5, <4>2, <5>1 DEF TInv, NestingHolds, Busy
        <4> QED BY <4>1, <4>2
      <3>3. ASSUME NEW m \in Tool!Layers, o = k + 1, o <= m, m \in wrong', toolWrapper'[o].pc = "returned" PROVE k \in wrong'
        <4>1. CASE o = l
          <5>1. k = n /\ m # n /\ m \in wrong
            BY <2>2, <2>4, <3>3, <4>1 DEF Tool!Layers
          <5>2. l \in wrong
            BY <1>3, <3>3, <4>1, <5>1, FailureArrives
          <5>3. bad
            BY <5>2 DEF TInv, LeaseHolds, Tool!Outcome
          <5> QED BY <2>4, <5>1, <5>3
        <4>2. CASE o # l
          <5>1. toolWrapper[o].pc = "returned"
            BY <1>5, <3>3, <4>2
          <5>2. CASE m \in wrong
            BY <2>4, <3>3, <5>1, <5>2 DEF TInv, NestingHolds
          <5>3. CASE m \notin wrong
            <6>1. m = n
              BY <2>4, <3>3, <5>3
            <6>2. o < l
              BY <2>2, <3>3, <6>1 DEF Tool!Layers
            <6>3. Busy(o)
              BY <1>3, <6>2, OutsideBusy
            <6> QED BY <5>1, <6>3 DEF Busy
          <5> QED BY <5>2, <5>3
        <4> QED BY <4>1, <4>2
      <3> QED BY <3>1, <3>2, <3>3 DEF NestingHolds
    <2>11. BaseHolds'
      BY <1>1, <1>3, <2>2, <2>4, <2>5 DEF TInv, BaseHolds
    <2>12. ResultHolds'
      BY <1>1, <1>3, <1>4, <1>5, <2>2, <2>4 DEF TInv, ResultHolds, Busy
    <2> QED BY <2>8, <2>9, <2>10, <2>11, <2>12 DEF TInv
  <1>8. CASE ~(l > 1)
    <2>1. l = 1
      BY <1>1, <1>8 DEF Tool!Layers
    <2> PICK bad \in BOOLEAN : bad = Tool!Outcome(1)
      BY <1>2, <2>1 DEF Tool!Outcome, Wrappers, Leases
    <2>2. /\ UNCHANGED <<toolLease, wrong>> /\ toolPc' = (IF bad THEN "returned" ELSE "after")
          /\ toolResult' = IF bad THEN "err" ELSE "none"
      BY <1>8, <2>1 DEF Tool!WrapperLeft
    <2>3. ToolTyped'
      BY <1>3, <1>5, <2>2 DEF TInv, ToolTyped
    <2>4. \A o \in Tool!Layers : LeaseHolds(o)'
      <3> SUFFICES ASSUME NEW o \in Tool!Layers PROVE LeaseHolds(o)'
        OBVIOUS
      <3>1. LeaseHolds(o)
        BY DEF TInv
      <3> QED BY <1>3, <1>5, <2>2, <3>1 DEF LeaseHolds, Busy
    <2>5. \A o, k \in Tool!Layers : NestingHolds(k, o)'
      <3> SUFFICES ASSUME NEW o \in Tool!Layers, NEW k \in Tool!Layers PROVE NestingHolds(k, o)'
        OBVIOUS
      <3>1. (k < o => o # l) /\ (o = k + 1 => o # l)
        BY <2>1 DEF Tool!Layers
      <3> QED BY <1>3, <1>5, <2>2, <3>1 DEF TInv, NestingHolds, Busy
    <2>6. BaseHolds'
      BY <1>3, <2>2 DEF TInv, BaseHolds
    <2>7. ~bad => wrong = {} /\ toolBase # "err"
      <3> SUFFICES ASSUME ~bad PROVE wrong = {} /\ toolBase # "err"
        OBVIOUS
      <3>1. l \notin wrong
        BY <2>1 DEF TInv, LeaseHolds, Tool!Outcome
      <3>2. \A m \in Tool!Layers : m \notin wrong
        <4> SUFFICES ASSUME NEW m \in Tool!Layers, m \in wrong PROVE FALSE
          OBVIOUS
        <4>1. l <= m
          BY <2>1 DEF Tool!Layers
        <4> QED BY <1>3, <3>1, <4>1, FailureArrives
      <3> QED BY <1>1, <3>2 DEF TInv, ToolTyped, BaseHolds
    <2>8. ResultHolds'
      BY <1>1, <1>3, <1>4, <1>5, <2>1, <2>2, <2>7 DEF ResultHolds, Busy
    <2> QED BY <2>3, <2>4, <2>5, <2>6, <2>8 DEF TInv
  <1> QED BY <1>7, <1>8

LEMMA ToolStepHolds == ASSUME Tool!ToolCallAssumption, TInv, [Tool!Next]_Tool!vars PROVE TInv'
  <1>1. ASSUME NEW err \in BOOLEAN, Tool!After(err) PROVE TInv'
    <2>1. /\ UNCHANGED <<toolLease, toolWrapper, toolBase, executed, vetoed, wrong>> /\ toolPc = "after" /\ toolPc' = "returned"
          /\ toolResult' \in {"err", "ok", toolResult} /\ (toolResult' = "ok" => toolResult \in {"none", "ok"})
      BY <1>1 DEF Tool!After
    <2>2. ToolTyped' /\ BaseHolds'
      BY <2>1 DEF TInv, ToolTyped, BaseHolds
    <2>3. \A l \in Tool!Layers : LeaseHolds(l)' /\ \A k \in Tool!Layers : NestingHolds(k, l)'
      BY <2>1 DEF TInv, LeaseHolds, NestingHolds, Busy
    <2>4. ResultHolds'
      BY <2>1 DEF TInv, ResultHolds, Busy
    <2> QED BY <2>2, <2>3, <2>4 DEF TInv
  <1>2. CASE UNCHANGED Tool!vars
    BY <1>2 DEF Tool!vars, TInv, ToolTyped, BaseHolds, ResultHolds, LeaseHolds, NestingHolds, Busy
  <1> QED BY <1>1, <1>2, BeforeKeeps, RefuseLateKeeps, RefuseWrongKeeps, AdmitKeeps, BaseReturnsKeeps, WrapperReturnsKeeps,
             WrapperLeftKeeps DEF Tool!Next

\* Whoever is inside is so at every layer further out, the tool ran once if it
\* was reached, and a failure has reached everyone who saw its next return, in
\* every state of executeTool and for any number of wrappers.
THEOREM ToolCallInvariant == Tool!ToolCallAssumption /\ Tool!Spec => []TInv
  <1> SUFFICES ASSUME Tool!ToolCallAssumption PROVE Tool!Spec => []TInv
    OBVIOUS
  <1>1. Tool!Init => TInv
    BY ToolInitHolds
  <1>2. TInv /\ [Tool!Next]_Tool!vars => TInv'
    BY ToolStepHolds
  <1> QED BY <1>1, <1>2, PTL DEF Tool!Spec

\* A committed call has its effect at most once and none if it was vetoed; its
\* result is the last thing that happens, and says "ok" only if no layer failed
\* or misused its next.
THEOREM ToolCallIsExact ==
    Tool!ToolCallAssumption /\ Tool!Spec => [](Tool!ToolCallTypeOK /\ Tool!ToolRunsOnce /\ Tool!FailureIsKept /\ Tool!VetoHolds /\ Tool!ResultIsLast)
  <1> SUFFICES ASSUME Tool!ToolCallAssumption
               PROVE  Tool!Spec => [](Tool!ToolCallTypeOK /\ Tool!ToolRunsOnce /\ Tool!FailureIsKept /\ Tool!VetoHolds /\ Tool!ResultIsLast)
    OBVIOUS
  <1>1. ASSUME TInv PROVE Tool!ToolCallTypeOK /\ Tool!ToolRunsOnce /\ Tool!FailureIsKept /\ Tool!VetoHolds /\ Tool!ResultIsLast
    <2>1. Tool!ToolCallTypeOK
      BY <1>1 DEF TInv, LeaseHolds, ResultHolds, Tool!ToolCallTypeOK
    <2>2. Tool!ToolRunsOnce /\ Tool!VetoHolds /\ Tool!FailureIsKept
      BY <1>1 DEF TInv, BaseHolds, ResultHolds, Tool!ToolRunsOnce, Tool!VetoHolds, Tool!FailureIsKept
    <2>3. Tool!ResultIsLast
      <3>1. Depth \in Tool!Layers
        BY DEF Tool!ToolCallAssumption, Tool!Layers
      <3> QED BY <1>1, <3>1, NobodyInside DEF TInv, BaseHolds, Tool!ResultIsLast
    <2> QED BY <2>1, <2>2, <2>3
  <1> QED BY <1>1, ToolCallInvariant, PTL


-----------------------------------------------------------------------------

Inside   == {"checking", "streaming", "joining", "ending"}
Stages   == {"idle", "admitted", "leaving", "done"} \cup Inside
Attempts == [pc : Stages, private : BOOLEAN, err : BOOLEAN]
Streams  == [pc : {"none", "emit", "deliver"}, open : BOOLEAN, err : BOOLEAN, n : Nat]
Outputs  == [active : BOOLEAN, published : BOOLEAN, failure : BOOLEAN]
Live(c)  == call[c].pc \notin {"idle", "done"}

ModelTyped ==
    /\ output \in Outputs /\ modelLease \in [open : BOOLEAN, active : Nat]
    /\ modelWrapper \in [pc : {"running", "leaving", "returned"}, err : BOOLEAN]
    /\ call \in [NextCalls -> Attempts] /\ callback \in [NextCalls -> Streams] /\ modelResult \in {"none", "ok", "err"}
    /\ shown \subseteq NextCalls /\ failed \subseteq NextCalls /\ late = FALSE /\ overlap \in BOOLEAN

\* The lease lets one call in at a time.
TurnHolds ==
    /\ \A c, d \in NextCalls : Live(c) /\ Live(d) => c = d
    /\ modelLease.active = 0 \/ (modelLease.active = 1 /\ \E c \in NextCalls : Live(c))
    /\ \A c \in NextCalls : Live(c) => modelLease.active = 1
    /\ output.active => \E c \in NextCalls : call[c].pc \in Inside
    /\ modelWrapper.pc = "running" <=> modelLease.open
    /\ modelResult # "none" <=> modelWrapper.pc = "returned"
    /\ modelWrapper.pc = "returned" => modelLease.active = 0

\* Chunks come while the attempt streams; an attempt that failed after one of
\* them was shown has failed the invocation when it is over.
AttemptHolds(c) ==
    /\ callback[c].open => call[c].pc \in {"streaming", "joining"}
    /\ callback[c].pc # "none" => callback[c].open
    /\ callback[c].pc = "deliver" \/ c \in shown => output.published
    /\ c \in failed => call[c].err /\ call[c].pc \in {"ending", "leaving", "done"}
    /\ c \in shown /\ c \in failed /\ call[c].pc \in {"leaving", "done"} => output.failure

OutcomeHolds ==
    /\ overlap => output.failure
    /\ modelResult = "ok" => ~overlap /\ shown \cap failed = {}

MInv == ModelTyped /\ TurnHolds /\ OutcomeHolds /\ \A c \in NextCalls : AttemptHolds(c)

LEMMA ModelInitHolds == ASSUME Model!Init PROVE MInv
  <1>1. ModelTyped
    BY DEF Model!Init, ModelTyped, Outputs, Attempts, Streams, Stages
  <1>2. TurnHolds /\ OutcomeHolds /\ \A c \in NextCalls : AttemptHolds(c)
    BY DEF Model!Init, TurnHolds, OutcomeHolds, AttemptHolds, Live
  <1> QED BY <1>1, <1>2 DEF MInv

LEMMA AttemptIs ==
  ASSUME MInv, NEW c \in NextCalls
  PROVE  /\ call \in [NextCalls -> Attempts] /\ callback \in [NextCalls -> Streams] /\ output \in Outputs
         /\ call[c] \in Attempts /\ callback[c] \in Streams /\ AttemptHolds(c)
         /\ call[c].pc \in Stages /\ call[c].private \in BOOLEAN /\ call[c].err \in BOOLEAN
         /\ callback[c].pc \in {"none", "emit", "deliver"} /\ callback[c].open \in BOOLEAN /\ callback[c].err \in BOOLEAN /\ callback[c].n \in Nat
         /\ output.active \in BOOLEAN /\ output.published \in BOOLEAN /\ output.failure \in BOOLEAN
  BY DEF MInv, ModelTyped, Attempts, Streams, Outputs

\* While a call is in, it is the only one and the invocation has no result.
LEMMA LiveIsAlone ==
  ASSUME MInv, NEW c \in NextCalls, Live(c)
  PROVE  /\ modelLease.active = 1 /\ modelWrapper.pc # "returned" /\ modelResult = "none"
         /\ \A d \in NextCalls \ {c} : ~Live(d)
         /\ output.active => call[c].pc \in Inside
  <1>1. modelLease.active = 1 /\ \A d \in NextCalls \ {c} : ~Live(d)
    BY DEF MInv, TurnHolds
  <1>2. modelWrapper.pc # "returned" /\ modelResult = "none"
    BY <1>1 DEF MInv, TurnHolds
  <1>3. output.active => call[c].pc \in Inside
    BY <1>1 DEF MInv, TurnHolds, Live, Inside
  <1> QED BY <1>1, <1>2, <1>3

\* A step of the attempt of c.
LEMMA AttemptKeeps ==
  ASSUME MInv, NEW c \in NextCalls, Live(c), NEW q \in Attempts, NEW b \in Streams,
         call' = [call EXCEPT ![c] = q], callback' = [callback EXCEPT ![c] = b], q.pc \notin {"idle", "done"},
         UNCHANGED <<modelLease, modelWrapper, modelResult, overlap>>, late' = FALSE,
         output' \in Outputs, output.failure => output'.failure, output.published => output'.published,
         output'.active => q.pc \in Inside,
         shown' \in {shown, shown \cup {c}}, failed' \in {failed, failed \cup {c}}, AttemptHolds(c)'
  PROVE  MInv'
  <1>1. call \in [NextCalls -> Attempts] /\ callback \in [NextCalls -> Streams]
    BY AttemptIs
  <1>2. /\ call' \in [NextCalls -> Attempts] /\ callback' \in [NextCalls -> Streams] /\ call'[c] = q /\ callback'[c] = b
        /\ \A d \in NextCalls \ {c} : call'[d] = call[d] /\ callback'[d] = callback[d]
    BY <1>1
  <1>3. modelResult = "none" /\ modelLease.active = 1 /\ \A d \in NextCalls \ {c} : ~Live(d)
    BY LiveIsAlone
  <1>4. ModelTyped'
    BY <1>2 DEF MInv, ModelTyped
  <1>5. TurnHolds'
    <2>1. \A d \in NextCalls : Live(d)' <=> d = c
      BY <1>2, <1>3 DEF Live
    <2> QED BY <1>2, <1>3, <2>1 DEF MInv, TurnHolds
  <1>6. OutcomeHolds'
    BY <1>3 DEF MInv, OutcomeHolds
  <1>7. ASSUME NEW d \in NextCalls PROVE AttemptHolds(d)'
    <2>1. CASE d = c
      BY <2>1
    <2>2. CASE d # c
      <3>1. call'[d] = call[d] /\ callback'[d] = callback[d] /\ (d \in shown' <=> d \in shown) /\ (d \in failed' <=> d \in failed)
        BY <1>2, <2>2
      <3>2. AttemptHolds(d)
        BY DEF MInv
      <3> QED BY <3>1, <3>2 DEF AttemptHolds
    <2> QED BY <2>1, <2>2
  <1> QED BY <1>4, <1>5, <1>6, <1>7 DEF MInv

\* The steps of the call that is in, but for its last one.
LEMMA AttemptStepKeeps ==
  ASSUME MInv, NEW c \in NextCalls, NEW err \in BOOLEAN,
         \/ Model!Enter(c) \/ Model!Reject(c) \/ Model!Stream(c) \/ Model!Callback(c) \/ Model!Publish(c) \/ Model!CloseCallback(c)
         \/ Model!EndAttempt(c) \/ Model!Deliver(c, err) \/ Model!StreamReturns(c, err)
  PROVE  MInv'
  <1>1. /\ call \in [NextCalls -> Attempts] /\ callback \in [NextCalls -> Streams] /\ output \in Outputs
        /\ call[c] \in Attempts /\ callback[c] \in Streams /\ AttemptHolds(c) /\ late = FALSE
        /\ call[c].pc \in Stages /\ call[c].private \in BOOLEAN /\ call[c].err \in BOOLEAN
        /\ callback[c].pc \in {"none", "emit", "deliver"} /\ callback[c].open \in BOOLEAN /\ callback[c].err \in BOOLEAN /\ callback[c].n \in Nat
        /\ output.active \in BOOLEAN /\ output.published \in BOOLEAN /\ output.failure \in BOOLEAN
    BY AttemptIs DEF MInv, ModelTyped
  <1>2. Live(c)
    BY <1>1 DEF AttemptHolds, Live, Model!Enter, Model!Reject, Model!Stream, Model!Callback, Model!Publish, Model!CloseCallback, Model!EndAttempt, Model!Deliver, Model!StreamReturns
  <1>3. output.active => call[c].pc \in Inside
    BY <1>2, LiveIsAlone
  <1>4. call = [call EXCEPT ![c] = call[c]] /\ callback = [callback EXCEPT ![c] = callback[c]]
    BY <1>1
  <1>5. CASE Model!Enter(c)
    <2>1. PICK q, i : /\ q = [call[c] EXCEPT !.pc = IF output.active \/ output.failure THEN "leaving" ELSE "checking",
                                            !.err = output.active \/ output.failure]
                      /\ i = IF output.active \/ output.failure THEN [output EXCEPT !.failure = TRUE] ELSE [output EXCEPT !.active = TRUE]
      OBVIOUS
    <2>2. /\ call[c].pc = "admitted" /\ call' = [call EXCEPT ![c] = q] /\ output' = i /\ UNCHANGED <<modelLease, modelWrapper, callback, modelResult, shown, failed, late, overlap>>
      BY <1>1, <1>5, <2>1 DEF Model!Enter, Model!Step
    <2>3. ~output.active /\ ~callback[c].open /\ callback[c].pc = "none" /\ c \notin failed
      BY <1>1, <1>3, <2>2 DEF AttemptHolds, Inside
    <2>4. q \in Attempts /\ q.pc \in {"leaving", "checking"} /\ i \in Outputs /\ i.published = output.published
          /\ (output.failure => i.failure) /\ (i.active => q.pc = "checking")
      BY <1>1, <2>1, <2>3 DEF Attempts, Outputs, Stages, Inside
    <2>5. call'[c] = q /\ callback'[c] = callback[c]
      BY <1>1, <2>2
    <2>6. AttemptHolds(c)'
      BY <1>1, <2>2, <2>3, <2>4, <2>5 DEF AttemptHolds
    <2> QED BY <1>1, <1>2, <1>4, <2>2, <2>4, <2>6, AttemptKeeps DEF Inside
  <1>6. CASE Model!Callback(c)
    <2>1. PICK b : b = [callback[c] EXCEPT !.pc = "emit", !.n = callback[c].n + 1]
      OBVIOUS
    <2>2. /\ callback' = [callback EXCEPT ![c] = b] /\ callback[c].open /\ b \in Streams /\ b.open /\ b.pc = "emit"
          /\ UNCHANGED <<output, modelLease, modelWrapper, call, modelResult, shown, failed, late, overlap>>
      BY <1>1, <1>6, <2>1 DEF Model!Callback, Streams
    <2>3. callback'[c] = b
      BY <1>1, <2>2
    <2>4. AttemptHolds(c)'
      BY <1>1, <2>2, <2>3 DEF AttemptHolds
    <2> QED BY <1>1, <1>2, <1>3, <1>4, <2>2, <2>4, AttemptKeeps DEF Live
  <1>7. CASE Model!Publish(c) \/ Model!Deliver(c, err)
    <2>1. callback[c].open /\ call[c].pc \in {"streaming", "joining"} /\ c \notin failed
      BY <1>1, <1>7 DEF Model!Publish, Model!Deliver, AttemptHolds
    <2>2. UNCHANGED <<modelLease, modelWrapper, call, modelResult, failed, overlap>> /\ late' = FALSE
      BY <1>1, <1>7, <2>1 DEF Model!Publish, Model!Deliver
    <2>3. PICK b : /\ callback' = [callback EXCEPT ![c] = b] /\ b \in Streams /\ b.open
                   /\ b.pc = "deliver" => output'.published
      <3>1. PICK x, y, z : /\ x = [callback[c] EXCEPT !.pc = "none"] /\ y = [callback[c] EXCEPT !.pc = "none", !.err = TRUE]
                           /\ z = [callback[c] EXCEPT !.pc = "deliver"]
        OBVIOUS
      <3>2. PICK w : w = [callback[c] EXCEPT !.pc = "none", !.err = err]
        OBVIOUS
      <3>3. /\ x \in Streams /\ x.open /\ x.pc = "none" /\ y \in Streams /\ y.open /\ y.pc = "none"
            /\ z \in Streams /\ z.open /\ z.pc = "deliver" /\ w \in Streams /\ w.open /\ w.pc = "none"
        BY <1>1, <2>1, <3>1, <3>2 DEF Streams
      <3>4. CASE Model!Deliver(c, err)
        <4>1. callback' = [callback EXCEPT ![c] = w]
          BY <1>1, <3>2, <3>4 DEF Model!Deliver
        <4> QED BY <3>3, <4>1
      <3>5. CASE Model!Publish(c)
        <4>1. \/ callback' = [callback EXCEPT ![c] = x] \/ callback' = [callback EXCEPT ![c] = y]
              \/ callback' = [callback EXCEPT ![c] = z] /\ output' = [output EXCEPT !.published = TRUE]
          BY <1>1, <3>1, <3>5 DEF Model!Publish
        <4>2. output' = [output EXCEPT !.published = TRUE] => output'.published
          BY <1>1 DEF Outputs
        <4> QED BY <3>3, <4>1, <4>2
      <3> QED BY <1>7, <3>4, <3>5
    <2>4. output' \in {output, [output EXCEPT !.published = TRUE]} /\ shown' \in {shown, shown \cup {c}}
          /\ (shown' # shown => output'.published)
      BY <1>1, <1>7 DEF Model!Publish, Model!Deliver, AttemptHolds
    <2>5. output' \in Outputs /\ output'.active = output.active /\ output'.failure = output.failure /\ (output.published => output'.published)
      BY <1>1, <2>4 DEF Outputs
    <2>6. callback'[c] = b
      BY <1>1, <2>3
    <2>7. AttemptHolds(c)'
      BY <1>1, <2>1, <2>2, <2>3, <2>4, <2>5, <2>6 DEF AttemptHolds
    <2> QED BY <1>1, <1>2, <1>3, <1>4, <2>1, <2>2, <2>3, <2>4, <2>5, <2>7, AttemptKeeps DEF Live
  <1>8. CASE Model!CloseCallback(c)
    <2>1. PICK q, b : /\ q = [call[c] EXCEPT !.pc = "ending", !.err = call[c].err \/ callback[c].err]
                      /\ b = [callback[c] EXCEPT !.open = FALSE]
      OBVIOUS
    <2>2. /\ call[c].pc = "joining" /\ callback[c].pc = "none" /\ call' = [call EXCEPT ![c] = q]
          /\ failed' = IF call[c].err \/ callback[c].err THEN failed \cup {c} ELSE failed
          /\ UNCHANGED <<output, modelLease, modelWrapper, modelResult, shown, late, overlap>>
      BY <1>1, <1>8, <2>1 DEF Model!CloseCallback, Model!Step
    <2>3. callback' = [callback EXCEPT ![c] = b]
      BY <1>1, <1>8, <2>1 DEF Model!CloseCallback
    <2>4. /\ q \in Attempts /\ q.pc = "ending" /\ (q.err <=> call[c].err \/ callback[c].err)
          /\ b \in Streams /\ ~b.open /\ b.pc = "none"
      BY <1>1, <2>1, <2>2 DEF Attempts, Streams, Stages, Inside
    <2>5. call'[c] = q /\ callback'[c] = b
      BY <1>1, <2>2, <2>3
    <2>6. c \notin failed /\ (c \in failed' => q.err)
      BY <1>1, <2>2, <2>4 DEF AttemptHolds
    <2>7. AttemptHolds(c)'
      BY <1>1, <2>2, <2>4, <2>5, <2>6 DEF AttemptHolds
    <2> QED BY <1>1, <1>2, <2>2, <2>3, <2>4, <2>7, AttemptKeeps DEF Inside
  <1>9. CASE Model!EndAttempt(c)
    <2>1. PICK q, i : /\ q = [call[c] EXCEPT !.pc = "leaving", !.err = call[c].err]
                      /\ i = [output EXCEPT !.active = FALSE, !.failure = output.failure \/ (call[c].err /\ output.published)]
      OBVIOUS
    <2>2. /\ call[c].pc = "ending" /\ call' = [call EXCEPT ![c] = q] /\ output' = i
          /\ UNCHANGED <<modelLease, modelWrapper, callback, modelResult, shown, failed, late, overlap>>
      BY <1>1, <1>9, <2>1 DEF Model!EndAttempt, Model!Step
    <2>3. /\ q \in Attempts /\ q.pc = "leaving" /\ q.err = call[c].err /\ i \in Outputs /\ ~i.active
          /\ i.published = output.published /\ (i.failure <=> output.failure \/ (call[c].err /\ output.published))
      BY <1>1, <2>1 DEF Attempts, Outputs, Stages, Inside
    <2>4. call'[c] = q
      BY <1>1, <2>2
    <2>5. AttemptHolds(c)'
      BY <1>1, <2>2, <2>3, <2>4 DEF AttemptHolds
    <2> QED BY <1>1, <1>2, <1>4, <2>2, <2>3, <2>5, AttemptKeeps
  <1>10. CASE Model!Reject(c)
    <2>1. PICK q : q = [call[c] EXCEPT !.pc = "ending", !.err = TRUE]
      OBVIOUS
    <2>2. /\ call[c].pc = "checking" /\ call' = [call EXCEPT ![c] = q] /\ q.pc = "ending"
          /\ UNCHANGED <<output, modelLease, modelWrapper, callback, modelResult, shown, failed, late, overlap>> /\ q \in Attempts
      BY <1>1, <1>10, <2>1 DEF Model!Reject, Model!Step, Attempts, Stages, Inside
    <2>3. call'[c] = q /\ AttemptHolds(c)'
      BY <1>1, <2>2 DEF AttemptHolds
    <2> QED BY <1>1, <1>2, <1>3, <1>4, <2>2, <2>3, AttemptKeeps DEF Inside
  <1>11. CASE Model!StreamReturns(c, err)
    <2>1. PICK q : q = [call[c] EXCEPT !.pc = "joining", !.err = err]
      OBVIOUS
    <2>2. /\ call[c].pc = "streaming" /\ call' = [call EXCEPT ![c] = q] /\ q.pc = "joining"
          /\ UNCHANGED <<output, modelLease, modelWrapper, callback, modelResult, shown, failed, late, overlap>> /\ q \in Attempts
      BY <1>1, <1>11, <2>1 DEF Model!StreamReturns, Model!Step, Attempts, Stages, Inside
    <2>3. call'[c] = q /\ AttemptHolds(c)'
      BY <1>1, <2>2 DEF AttemptHolds
    <2> QED BY <1>1, <1>2, <1>3, <1>4, <2>2, <2>3, AttemptKeeps DEF Inside
  <1>12. CASE Model!Stream(c)
    <2>1. PICK q, b : /\ q = [call[c] EXCEPT !.pc = "streaming", !.err = FALSE]
                      /\ b = [callback[c] EXCEPT !.open = TRUE]
      OBVIOUS
    <2>2. /\ call[c].pc = "checking" /\ call' = [call EXCEPT ![c] = q] /\ q.pc = "streaming"
          /\ UNCHANGED <<output, modelLease, modelWrapper, modelResult, shown, failed, late, overlap>> /\ q \in Attempts
      BY <1>1, <1>12, <2>1 DEF Model!Stream, Model!Step, Attempts, Stages, Inside
    <2>3. callback' = [callback EXCEPT ![c] = b] /\ b \in Streams /\ b.open /\ b.pc = callback[c].pc
      BY <1>1, <1>12, <2>1 DEF Model!Stream, Streams
    <2>4. call'[c] = q /\ callback'[c] = b
      BY <1>1, <2>2, <2>3
    <2>5. AttemptHolds(c)'
      BY <1>1, <2>2, <2>3, <2>4 DEF AttemptHolds
    <2> QED BY <1>1, <1>2, <1>3, <2>2, <2>3, <2>5, AttemptKeeps DEF Inside
  <1> QED BY <1>5, <1>10, <1>6, <1>7, <1>8, <1>9, <1>11, <1>12

\* The steps between two calls: an attempt leaves or begins, the wrapper returns.
LEMMA LeaveNextKeeps == ASSUME MInv, NEW c \in NextCalls, Model!LeaveNext(c) PROVE MInv'
  <1>1. /\ call \in [NextCalls -> Attempts] /\ output \in Outputs /\ call[c] \in Attempts /\ AttemptHolds(c)
        /\ call[c].pc = "leaving" /\ call[c].err \in BOOLEAN
        /\ output.active \in BOOLEAN /\ output.published \in BOOLEAN /\ output.failure \in BOOLEAN
    BY AttemptIs DEF Model!LeaveNext
  <1>2. /\ modelLease.active = 1 /\ modelWrapper.pc # "returned" /\ modelResult = "none" /\ ~output.active
        /\ \A d \in NextCalls \ {c} : ~Live(d)
    BY <1>1, LiveIsAlone DEF Live, Inside
  <1>3. PICK q, i : /\ q = [call[c] EXCEPT !.pc = "done", !.err = call[c].err]
                    /\ i = [output EXCEPT !.failure = output.failure \/ (call[c].err /\ output.published)]
    OBVIOUS
  <1>4. /\ call' = [call EXCEPT ![c] = q] /\ output' = i /\ modelLease' = [modelLease EXCEPT !.active = modelLease.active - 1]
        /\ UNCHANGED <<modelWrapper, callback, modelResult, shown, failed, late, overlap>>
    BY <1>1, <1>3 DEF Model!LeaveNext, Model!Step
  <1>5. /\ q \in Attempts /\ q.pc = "done" /\ q.err = call[c].err /\ i \in Outputs /\ ~i.active
        /\ i.published = output.published /\ (output.failure => i.failure)
        /\ (call[c].err /\ output.published => i.failure)
    BY <1>1, <1>2, <1>3 DEF Attempts, Outputs, Stages, Inside
  <1>6. modelLease' \in [open : BOOLEAN, active : Nat] /\ modelLease'.active = 0 /\ modelLease'.open = modelLease.open
    BY <1>2, <1>4 DEF MInv, ModelTyped
  <1>7. call' \in [NextCalls -> Attempts] /\ call'[c] = q /\ \A d \in NextCalls \ {c} : call'[d] = call[d]
    BY <1>1, <1>4, <1>5
  <1>8. ModelTyped'
    BY <1>4, <1>5, <1>6, <1>7 DEF MInv, ModelTyped
  <1>9. TurnHolds'
    <2>1. \A d \in NextCalls : ~Live(d)'
      BY <1>2, <1>5, <1>7 DEF Live
    <2> QED BY <1>2, <1>4, <1>5, <1>6, <2>1 DEF MInv, TurnHolds
  <1>10. OutcomeHolds'
    BY <1>2, <1>4, <1>5 DEF MInv, OutcomeHolds
  <1>11. ASSUME NEW d \in NextCalls PROVE AttemptHolds(d)'
    <2>1. CASE d = c
      BY <1>1, <1>4, <1>5, <1>7, <2>1 DEF AttemptHolds
    <2>2. CASE d # c
      <3>1. call'[d] = call[d] /\ AttemptHolds(d)
        BY <1>7, <2>2 DEF MInv
      <3> QED BY <1>4, <1>5, <3>1 DEF AttemptHolds
    <2> QED BY <2>1, <2>2
  <1> QED BY <1>8, <1>9, <1>10, <1>11 DEF MInv

LEMMA NextCallKeeps == ASSUME MInv, NEW c \in NextCalls, NEW private \in BOOLEAN, Model!NextCall(c, private) PROVE MInv'
  <1>1. /\ call \in [NextCalls -> Attempts] /\ output \in Outputs /\ call[c] \in Attempts /\ AttemptHolds(c)
        /\ call[c].pc = "idle" /\ modelLease \in [open : BOOLEAN, active : Nat] /\ overlap \in BOOLEAN
        /\ output.active \in BOOLEAN /\ output.published \in BOOLEAN /\ output.failure \in BOOLEAN
    BY AttemptIs DEF Model!NextCall, MInv, ModelTyped
  <1>2. /\ UNCHANGED <<modelWrapper, callback, modelResult, shown, failed, late>>
        /\ overlap' = (overlap \/ (modelLease.open /\ modelLease.active > 0))
    BY DEF Model!NextCall
  <1>3. ~callback[c].open /\ callback[c].pc = "none" /\ c \notin failed
    BY <1>1 DEF AttemptHolds
  <1>4. PICK q, r, i : /\ q = [call[c] EXCEPT !.pc = "done", !.err = TRUE] /\ r = [call[c] EXCEPT !.pc = "admitted", !.private = private]
                       /\ i = [output EXCEPT !.failure = output.failure \/ modelLease.open]
    OBVIOUS
  <1>5. /\ q \in Attempts /\ q.pc = "done" /\ r \in Attempts /\ r.pc = "admitted"
        /\ i \in Outputs /\ i.active = output.active /\ i.published = output.published /\ (i.failure <=> output.failure \/ modelLease.open)
    BY <1>1, <1>4 DEF Attempts, Outputs, Stages, Inside
  <1>6. CASE ~modelLease.open \/ modelLease.active > 0
    <2>1. output' = i /\ call' = [call EXCEPT ![c] = q] /\ modelLease' = modelLease
      BY <1>1, <1>4, <1>6 DEF Model!NextCall
    <2>2. call' \in [NextCalls -> Attempts] /\ call'[c] = q /\ \A d \in NextCalls \ {c} : call'[d] = call[d]
      BY <1>1, <1>5, <2>1
    <2>3. ModelTyped'
      BY <1>1, <1>2, <1>5, <2>1, <2>2 DEF MInv, ModelTyped
    <2>4. TurnHolds'
      <3>1. \A d \in NextCalls : /\ Live(d)' <=> Live(d)
                                 /\ call[d].pc \in Inside => call'[d].pc \in Inside
        BY <1>1, <1>5, <2>2 DEF Live, Inside
      <3> QED BY <1>2, <1>5, <2>1, <3>1 DEF MInv, TurnHolds
    <2>5. OutcomeHolds'
      <3>1. modelResult # "none" => ~modelLease.open
        BY DEF MInv, TurnHolds
      <3> QED BY <1>1, <1>2, <1>5, <2>1, <3>1 DEF MInv, OutcomeHolds
    <2>6. ASSUME NEW d \in NextCalls PROVE AttemptHolds(d)'
      <3>1. CASE d = c
        BY <1>1, <1>2, <1>3, <1>5, <2>1, <2>2, <3>1 DEF AttemptHolds
      <3>2. CASE d # c
        <4>1. call'[d] = call[d] /\ AttemptHolds(d)
          BY <2>2, <3>2 DEF MInv
        <4> QED BY <1>2, <1>5, <2>1, <4>1 DEF AttemptHolds
      <3> QED BY <3>1, <3>2
    <2> QED BY <2>3, <2>4, <2>5, <2>6 DEF MInv
  <1>7. CASE modelLease.open /\ ~(modelLease.active > 0)
    <2>1. output' = output /\ call' = [call EXCEPT ![c] = r] /\ modelLease' = [modelLease EXCEPT !.active = modelLease.active + 1]
      BY <1>1, <1>4, <1>7 DEF Model!NextCall
    <2>2. call' \in [NextCalls -> Attempts] /\ call'[c] = r /\ \A d \in NextCalls \ {c} : call'[d] = call[d]
      BY <1>1, <1>5, <2>1
    <2>3. /\ modelLease.active = 0 /\ modelLease' \in [open : BOOLEAN, active : Nat] /\ modelLease'.active = 1 /\ modelLease'.open = modelLease.open
      <3>1. modelLease.active \in Nat
        BY <1>1
      <3>2. modelLease.active = 0 /\ modelLease.active + 1 = 1
        BY <1>7, <3>1
      <3>3. modelLease' = [modelLease EXCEPT !.active = 1]
        BY <2>1, <3>2
      <3> QED BY <1>1, <3>2, <3>3
    <2>4. overlap' = overlap
      BY <1>1, <1>2, <1>7
    <2>5. ModelTyped'
      BY <1>2, <2>1, <2>2, <2>3, <2>4 DEF MInv, ModelTyped
    <2>6. TurnHolds'
      <3>1. \A d \in NextCalls : Live(d)' <=> d = c
        BY <1>5, <2>2, <2>3 DEF MInv, TurnHolds, Live
      <3>2. ~output.active
        BY <2>3 DEF MInv, TurnHolds, Live, Inside
      <3>3. modelWrapper.pc = "running"
        BY <1>7 DEF MInv, TurnHolds
      <3> QED BY <1>2, <2>1, <2>3, <3>1, <3>2, <3>3 DEF MInv, TurnHolds
    <2>7. OutcomeHolds'
      BY <1>2, <2>1, <2>4 DEF MInv, OutcomeHolds
    <2>8. ASSUME NEW d \in NextCalls PROVE AttemptHolds(d)'
      <3>1. CASE d = c
        BY <1>1, <1>2, <1>3, <1>5, <2>1, <2>2, <3>1 DEF AttemptHolds
      <3>2. CASE d # c
        <4>1. call'[d] = call[d] /\ AttemptHolds(d)
          BY <2>2, <3>2 DEF MInv
        <4> QED BY <1>2, <2>1, <4>1 DEF AttemptHolds
      <3> QED BY <3>1, <3>2
    <2> QED BY <2>5, <2>6, <2>7, <2>8 DEF MInv
  <1> QED BY <1>1, <1>6, <1>7

LEMMA WrapperKeeps == ASSUME MInv, NEW err \in BOOLEAN, Model!Replay \/ Model!WrapperReturns(err) \/ Model!WrapperLeft PROVE MInv'
  <1>1. /\ output \in Outputs /\ modelLease \in [open : BOOLEAN, active : Nat]
        /\ modelWrapper \in [pc : {"running", "leaving", "returned"}, err : BOOLEAN]
        /\ output.active \in BOOLEAN /\ output.published \in BOOLEAN /\ output.failure \in BOOLEAN
    BY DEF MInv, ModelTyped, Outputs
  <1>2. CASE Model!Replay
    <2>1. /\ output' = [output EXCEPT !.published = TRUE] /\ UNCHANGED <<modelLease, modelWrapper, call, callback, modelResult, shown, failed, late, overlap>>
      BY <1>2 DEF Model!Replay
    <2>2. output' \in Outputs /\ output'.published /\ output'.active = output.active /\ output'.failure = output.failure
      BY <1>1, <2>1 DEF Outputs
    <2>3. ModelTyped' /\ OutcomeHolds'
      BY <2>1, <2>2 DEF MInv, ModelTyped, OutcomeHolds
    <2>4. TurnHolds'
      BY <2>1, <2>2 DEF MInv, TurnHolds, Live
    <2>5. \A c \in NextCalls : AttemptHolds(c)'
      BY <2>1, <2>2 DEF MInv, AttemptHolds
    <2> QED BY <2>3, <2>4, <2>5 DEF MInv
  <1>3. CASE Model!WrapperReturns(err)
    <2>1. /\ modelWrapper.pc = "running" /\ modelWrapper' = [pc |-> "leaving", err |-> err] /\ modelLease' = [modelLease EXCEPT !.open = FALSE]
          /\ UNCHANGED <<output, call, callback, modelResult, shown, failed, late, overlap>>
      BY <1>3 DEF Model!WrapperReturns
    <2>2. /\ modelLease' \in [open : BOOLEAN, active : Nat] /\ ~modelLease'.open /\ modelLease'.active = modelLease.active
          /\ modelWrapper' \in [pc : {"running", "leaving", "returned"}, err : BOOLEAN] /\ modelWrapper'.pc = "leaving"
      BY <1>1, <2>1
    <2>3. ModelTyped' /\ OutcomeHolds'
      BY <2>1, <2>2 DEF MInv, ModelTyped, OutcomeHolds
    <2>4. TurnHolds'
      BY <2>1, <2>2 DEF MInv, TurnHolds, Live
    <2>5. \A c \in NextCalls : AttemptHolds(c)'
      BY <2>1 DEF MInv, AttemptHolds
    <2> QED BY <2>3, <2>4, <2>5 DEF MInv
  <1>4. CASE Model!WrapperLeft
    <2> PICK failure \in BOOLEAN : failure = (output.failure \/ (modelWrapper.err /\ output.published))
      BY <1>1
    <2>1. /\ modelWrapper.pc = "leaving" /\ modelLease.active = 0 /\ modelWrapper' = [modelWrapper EXCEPT !.pc = "returned"]
          /\ output' = [output EXCEPT !.failure = failure] /\ modelResult' = IF modelWrapper.err \/ failure THEN "err" ELSE "ok"
          /\ UNCHANGED <<modelLease, call, callback, shown, failed, late, overlap>>
      BY <1>4 DEF Model!WrapperLeft
    <2>2. /\ modelWrapper' \in [pc : {"running", "leaving", "returned"}, err : BOOLEAN] /\ modelWrapper'.pc = "returned"
          /\ output' \in Outputs /\ output'.active = output.active /\ output'.published = output.published
          /\ (output'.failure <=> failure) /\ (output.failure => failure)
      BY <1>1, <2>1 DEF Outputs
    <2>3. ModelTyped'
      BY <2>1, <2>2 DEF MInv, ModelTyped
    <2>4. TurnHolds'
      BY <2>1, <2>2 DEF MInv, TurnHolds, Live
    <2>5. \A c \in NextCalls : AttemptHolds(c)'
      BY <2>1, <2>2 DEF MInv, AttemptHolds
    <2>6. ASSUME NEW c \in NextCalls, c \in shown, c \in failed PROVE failure
      <3>1. call[c].pc \in {"idle", "done"}
        BY <2>1 DEF MInv, TurnHolds, Live
      <3> QED BY <2>2, <2>6, <3>1 DEF MInv, AttemptHolds
    <2>7. OutcomeHolds'
      <3>1. modelResult' = "ok" => ~failure
        BY <2>1
      <3>2. shown \subseteq NextCalls
        BY DEF MInv, ModelTyped
      <3>3. ~failure => shown \cap failed = {} /\ ~overlap
        BY <2>2, <2>6, <3>2 DEF MInv, OutcomeHolds
      <3> QED BY <2>1, <2>2, <3>1, <3>3 DEF MInv, OutcomeHolds
    <2> QED BY <2>3, <2>4, <2>5, <2>7 DEF MInv
  <1> QED BY <1>2, <1>3, <1>4

LEMMA ModelStepHolds == ASSUME MInv, [Model!Next]_Model!vars PROVE MInv'
  <1>1. ASSUME NEW c \in NextCalls, NEW err \in BOOLEAN, NEW private \in BOOLEAN,
               \/ Model!NextCall(c, private) \/ Model!LeaveNext(c) \/ Model!Enter(c) \/ Model!Reject(c) \/ Model!Stream(c) \/ Model!Callback(c) \/ Model!Publish(c)
               \/ Model!CloseCallback(c) \/ Model!EndAttempt(c) \/ Model!Deliver(c, err) \/ Model!StreamReturns(c, err)
        PROVE  MInv'
    BY <1>1, NextCallKeeps, LeaveNextKeeps, AttemptStepKeeps
  <1>2. ASSUME NEW err \in BOOLEAN, Model!Replay \/ Model!WrapperReturns(err) \/ Model!WrapperLeft PROVE MInv'
    BY <1>2, WrapperKeeps
  <1>3. CASE UNCHANGED Model!vars
    BY <1>3 DEF Model!vars, MInv, ModelTyped, TurnHolds, OutcomeHolds, AttemptHolds, Live
  <1> QED BY <1>1, <1>2, <1>3 DEF Model!Next

\* One attempt is in at a time, its chunks come while it streams, and one that
\* failed after a chunk was shown has failed the invocation: in every state, for
\* any number of calls of next and of chunks.
THEOREM ModelCallInvariant == Model!Spec => []MInv
  <1>1. Model!Init => MInv
    BY ModelInitHolds
  <1>2. MInv /\ [Model!Next]_Model!vars => MInv'
    BY ModelStepHolds
  <1> QED BY <1>1, <1>2, PTL DEF Model!Spec

\* An invocation that succeeded shows nothing of an attempt that failed, was not
\* called twice at once, and is over; a late chunk reaches no output.
THEOREM ModelCallIsExact ==
    Model!Spec => [](Model!ModelCallTypeOK /\ Model!NoPatchedSuccess /\ Model!NoLateChunk /\ Model!OneAttemptAtATime /\ Model!ResultIsFinal)
  <1>1. ASSUME MInv PROVE Model!ModelCallTypeOK /\ Model!NoPatchedSuccess /\ Model!NoLateChunk /\ Model!OneAttemptAtATime /\ Model!ResultIsFinal
    <2>1. /\ modelLease.active = IF \E c \in NextCalls : call[c].pc \notin {"idle", "done"} THEN 1 ELSE 0
          /\ \A c, d \in NextCalls : call[c].pc \in {"idle", "done"} \/ call[d].pc \in {"idle", "done"} \/ c = d
      BY <1>1 DEF MInv, TurnHolds, Live
    <2>2. Model!ModelCallTypeOK
      <3>1. output.active => \E c \in NextCalls : call[c].pc \in {"checking", "streaming", "joining", "ending"}
        BY <1>1 DEF MInv, TurnHolds, Inside
      <3>2. (modelWrapper.pc = "running" <=> modelLease.open) /\ (modelResult # "none" <=> modelWrapper.pc = "returned")
        BY <1>1 DEF MInv, TurnHolds
      <3> QED BY <2>1, <3>1, <3>2 DEF Model!ModelCallTypeOK
    <2>3. Model!NoPatchedSuccess /\ Model!NoLateChunk
      BY <1>1 DEF MInv, OutcomeHolds, ModelTyped, Model!NoPatchedSuccess, Model!NoLateChunk
    <2>4. Model!OneAttemptAtATime
      BY <1>1 DEF MInv, OutcomeHolds, ModelTyped, Model!OneAttemptAtATime
    <2>5. Model!ResultIsFinal
      <3> SUFFICES ASSUME modelResult # "none", NEW c \in NextCalls PROVE call[c].pc \in {"idle", "done"} /\ callback[c].pc = "none"
        BY DEF Model!ResultIsFinal
      <3>1. call[c].pc \in {"idle", "done"}
        BY <1>1 DEF MInv, TurnHolds, Live
      <3> QED BY <1>1, <3>1 DEF MInv, AttemptHolds
    <2> QED BY <2>2, <2>3, <2>4, <2>5
  <1> QED BY <1>1, ModelCallInvariant, PTL


=============================================================================
