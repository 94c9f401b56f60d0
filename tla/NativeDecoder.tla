--------------------------- MODULE NativeDecoder ---------------------------
(***************************************************************************)
(* The part of the native stream decoders all four protocols share,        *)
(* integration/llm/codec/decoder.go, between the reader of the transport   *)
(* (provider/openai.go) and the accumulator of the consumer                *)
(* (sdk/llm/wire/accumulate.go). A protocol module says what an event does *)
(* to the state of its own decoder and which chunks it emits.              *)
(***************************************************************************)
EXTENDS Naturals, Sequences, FiniteSets, SequencesExt

CONSTANTS
  None,
  Ids,         \* identities of tool calls
  Objects,     \* the piece sequences that are whole argument objects
  MaxCalls, MaxBlocks,
  UsageAfterStop,  \* Gemini: metadata may follow the stop
  MaxEvents    \* bound: events of one stream

VARIABLES
  s,        \* state of the protocol's decoder
  d,        \* state of the shared decoder
  acc,      \* state of the consumer's accumulator
  reading,  \* the transport still reads
  sent      \* history: the events of the provider, while all goes well

vars == <<s, d, acc, reading, sent>>

\* A chunk of content has a slot, or None where order of arrival counts.
Chunk(kind, slot, id, data) == [kind |-> kind, slot |-> slot, id |-> id, data |-> data]
Finished(reason, id) == Chunk("finish", None, id, reason)
IsContent(c) == c.kind \notin {"finish", "usage", "progress"}

\* What a protocol's decoder returns.
Result(t, chunks, done) == [s |-> t, chunks |-> chunks, done |-> done, ok |-> TRUE]
Error(t) == [s |-> t, chunks |-> <<>>, done |-> FALSE, ok |-> FALSE]

DecoderStart == [failed |-> FALSE, terminal |-> FALSE, finished |-> FALSE, finish |-> None,
                 calls |-> {}, slots |-> <<>>, mode |-> None, blocks |-> 0, last |-> None, out |-> <<>>]

-----------------------------------------------------------------------------
\* validateChunk: slots are filled once, except that text grows; one stream is
\* ordered by slots or by arrival, never both.
FitsSlot(m, c) ==
  IF c.slot = None THEN
    /\ m.mode # "slots"
    /\ (c.kind = "text" /\ m.last = "text") \/ m.blocks < MaxBlocks
  ELSE
    /\ m.mode # "arrival"
    /\ IF c.slot \in DOMAIN m.slots THEN c.kind = "text" /\ m.slots[c.slot] = "text"
                                    ELSE Cardinality(DOMAIN m.slots) < MaxBlocks

ValidChunk(m, c) ==
  IsContent(c) =>
    /\ FitsSlot(m, c)
    /\ c.kind = "tool" => (c.id \notin m.calls /\ Cardinality(m.calls) < MaxCalls)

Extend(f, k, v) == [x \in DOMAIN f \cup {k} |-> IF x = k THEN v ELSE f[x]]

Deliver(m, c) ==
  IF m.failed THEN m
  ELSE IF ~ValidChunk(m, c) THEN [m EXCEPT !.failed = TRUE]
  ELSE IF c.kind = "finish" THEN
    IF m.finish # None /\ ~(/\ UsageAfterStop /\ m.finish.data = c.data
                            /\ m.finish.id \in {None, c.id})
    THEN [m EXCEPT !.failed = TRUE] ELSE [m EXCEPT !.finish = c]
  ELSE [m EXCEPT !.out = Append(@, c),
          !.calls = IF c.kind = "tool" THEN @ \cup {c.id} ELSE @,
          !.mode = IF ~IsContent(c) THEN @ ELSE IF c.slot = None THEN "arrival" ELSE "slots",
          !.slots = IF ~IsContent(c) \/ c.slot = None \/ c.slot \in DOMAIN @ THEN @
                    ELSE Extend(@, c.slot, c.kind),
          !.blocks = IF IsContent(c) /\ c.slot = None /\ ~(c.kind = "text" /\ m.last = "text")
                     THEN @ + 1 ELSE @,
          !.last = IF IsContent(c) /\ c.slot = None THEN c.kind ELSE @]

\* Push: the chunks of one event; a failure at any of them is final.
Pushed(r) ==
  LET m == FoldLeft(Deliver, d, r.chunks)
      fails == m.failed \/ ~r.ok \/ (r.done /\ m.finish = None)
  IN [m EXCEPT !.failed = fails, !.terminal = @ \/ (r.done /\ ~fails)]

-----------------------------------------------------------------------------
\* The accumulator: contents by slot or by arrival.

AccStart == [failed |-> FALSE, finished |-> FALSE, calls |-> {}, mode |-> None,
             slots |-> <<>>, list |-> <<>>]

Content(c) == [kind |-> c.kind, id |-> c.id, data |-> c.data]
Grown(x, c) == [x EXCEPT !.data = @ \o c.data]

Accepts(a, c) ==
  IsContent(c) =>
    /\ ~a.finished
    /\ c.kind = "tool" => c.id \notin a.calls
    /\ IF c.slot = None THEN a.mode # "slots"
       ELSE /\ a.mode # "arrival"
            /\ c.slot \in DOMAIN a.slots => (c.kind = "text" /\ a.slots[c.slot].kind = "text")

Take(a, c) ==
  IF a.failed \/ ~Accepts(a, c) THEN [a EXCEPT !.failed = TRUE]
  ELSE IF ~IsContent(c) THEN [a EXCEPT !.finished = @ \/ c.kind = "finish"]
  ELSE LET b == [a EXCEPT !.calls = IF c.kind = "tool" THEN @ \cup {c.id} ELSE @,
                          !.mode = IF c.slot = None THEN "arrival" ELSE "slots"]
           n == Len(a.list)
       IN IF c.slot # None
          THEN [b EXCEPT !.slots = Extend(@, c.slot, IF c.slot \in DOMAIN @ THEN Grown(@[c.slot], c) ELSE Content(c))]
          ELSE IF c.kind = "text" /\ n > 0 /\ a.list[n].kind = "text"
          THEN [b EXCEPT !.list[n] = Grown(@, c)]
          ELSE [b EXCEPT !.list = Append(@, Content(c))]

\* Snapshot: the blocks of the message, by slot or as they arrived.
Message ==
  IF acc.mode = "slots"
  THEN LET order == SetToSortSeq(DOMAIN acc.slots, LAMBDA x, y : x < y) IN
       [i \in DOMAIN order |-> acc.slots[order[i]]]
  ELSE acc.list

-----------------------------------------------------------------------------
Start(t) == s = t /\ d = DecoderStart /\ acc = AccStart /\ reading = TRUE /\ sent = <<>>

\* Stream: an event is read and pushed; reading ends with the terminal event,
\* except where more may follow it, or with a failure.
Push(e, r) ==
  /\ reading /\ Len(sent) < MaxEvents
  /\ d' = Pushed(r)
  /\ IF d'.failed THEN UNCHANGED <<s, sent>> ELSE s' = r.s /\ sent' = Append(sent, e)
  /\ acc' = FoldLeft(Take, acc, SubSeq(d'.out, Len(d.out) + 1, Len(d'.out)))
  /\ reading' = (~d'.failed /\ (d'.terminal => UsageAfterStop))

\* The consumer, or its context, gives up on one of the chunks.
Interrupt(e, r) ==
  \E n \in 0 .. Len(r.chunks) : Push(e, [r EXCEPT !.chunks = SubSeq(@, 1, n), !.ok = FALSE])

\* The connection ends, wherever the reply stands.
Eof == reading /\ reading' = FALSE /\ UNCHANGED <<s, d, acc, sent>>

\* Finish, once reading is over: the outcome goes out if the reply ended.
Finish_Always ==
  /\ ~reading /\ ~d.failed /\ ~d.finished
  /\ d' = [d EXCEPT !.finished = TRUE,
                    !.finish = IF d.finish = None THEN Finished("stop", None) ELSE d.finish]
  /\ acc' = Take(acc, Finished("stop", None))
  /\ UNCHANGED <<s, reading, sent>>
Finish ==
  /\ ~reading /\ ~d.failed /\ ~d.finished
  /\ IF d.terminal THEN d' = [d EXCEPT !.finished = TRUE] /\ acc' = Take(acc, d.finish)
                   ELSE d' = [d EXCEPT !.failed = TRUE] /\ UNCHANGED acc
  /\ UNCHANGED <<s, reading, sent>>

-----------------------------------------------------------------------------
DecoderTypeOK ==
  /\ d.calls = {d.out[i].id : i \in {j \in DOMAIN d.out : d.out[j].kind = "tool"}}
  /\ d.terminal => d.finish # None
  /\ d.finished => d.terminal /\ ~reading
  /\ (reading => ~d.failed)

\* What the decoder lets through, the accumulator behind it takes: two sets of
\* checks in two packages, and no reply is refused after its parts went out.
NothingRefusedLater == ~acc.failed

\* A tool call that goes out has all its arguments and an identity, whatever
\* happens to the reply later: it may be acted on.
ToolsAreWhole ==
  \A i \in DOMAIN d.out : d.out[i].kind = "tool" => d.out[i].data \in Objects /\ d.out[i].id \in Ids

\* The promise of ModelStream.
Tools == SelectSeq(d.out, LAMBDA c : c.kind = "tool")
Promise == INSTANCE ModelStream WITH
  phase <- IF d.failed THEN "failed" ELSE IF d.finished THEN "finished"
           ELSE IF d.terminal THEN "complete" ELSE "open",
  calls <- [i \in DOMAIN Tools |-> Tools[i].id],
  reason <- IF d.terminal /\ d.finish # None THEN d.finish.data ELSE None
KeepsPromise == Promise!Spec
=============================================================================
