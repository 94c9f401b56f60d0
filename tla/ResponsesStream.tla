-------------------------- MODULE ResponsesStream --------------------------
(***************************************************************************)
(* The decoder of OpenAI Responses streams, codec/decode_responses.go:     *)
(* the provider says everything twice or three times, as deltas, as the    *)
(* end of a part and in the finished item, and the decoder hands each part *)
(* over once and insists that the versions agree.                          *)
(***************************************************************************)
EXTENDS NativeDecoder

CONSTANTS ResponsesEvents, Stride

Slot(output, content) == output * Stride + content

ResponsesStart == [tools |-> <<>>, texts |-> <<>>, complete |-> FALSE]

\* [type, output, content, item, call, data, parts, status]
Nothing == [type |-> "ping", output |-> 0, content |-> 0, item |-> None, call |-> None,
            data |-> <<>>, parts |-> <<>>, status |-> "completed"]
Part(kind, data) == [kind |-> kind, data |-> data]

-----------------------------------------------------------------------------
\* Text and refusal: deltas, then one final value which must be their sum.
TextDelta(t, e, kind) ==
  LET k == Slot(e.output, e.content)
      old == IF k \in DOMAIN t.texts THEN t.texts[k]
             ELSE [kind |-> kind, data |-> <<>>, streamed |-> FALSE, done |-> FALSE]
      u == [t EXCEPT !.texts = Extend(@, k, [old EXCEPT !.data = @ \o e.data, !.streamed = TRUE])]
  IN IF old.done \/ old.kind # kind THEN Error(t)
     ELSE Result(u, IF kind = "text" THEN <<Chunk("text", k, None, e.data)>> ELSE <<>>, FALSE)

FinalText(t, k, kind, data) ==
  LET old == IF k \in DOMAIN t.texts THEN t.texts[k]
             ELSE [kind |-> kind, data |-> <<>>, streamed |-> FALSE, done |-> FALSE]
  IN IF \/ old.kind # kind
        \/ (old.streamed \/ old.done) /\ old.data # data
     THEN Error(t)
     ELSE Result([t EXCEPT !.texts = Extend(@, k, [old EXCEPT !.data = data, !.done = TRUE])],
                 IF old.done \/ (kind = "text" /\ old.streamed) THEN <<>>
                 ELSE <<Chunk(kind, k, None, data)>>, FALSE)

\* A finished message repeats its parts.
FinalMessage(t, e) ==
  FoldLeftDomain(LAMBDA r, i :
      IF ~r.ok THEN r
      ELSE LET q == FinalText(r.s, Slot(e.output, i - 1), e.parts[i].kind, e.parts[i].data) IN
           [q EXCEPT !.chunks = r.chunks \o @],
    Result(t, <<>>, FALSE), e.parts)

-----------------------------------------------------------------------------
\* Function calls: opened, their arguments in pieces and as a whole, closed.
OpenCall(t, e) ==
  IF \/ Cardinality(DOMAIN t.tools) >= MaxCalls \/ e.output \in DOMAIN t.tools
     \/ e.item = None \/ e.call = None
     \/ \E x \in DOMAIN t.tools : t.tools[x].call = e.call
  THEN Error(t)
  ELSE Result([t EXCEPT !.tools = Extend(@, e.output,
         [item |-> e.item, call |-> e.call, args |-> e.data, whole |-> FALSE, done |-> FALSE])], <<>>, FALSE)

Open(t, e) == e.output \in DOMAIN t.tools /\ t.tools[e.output].item = e.item /\ ~t.tools[e.output].done

ArgsDelta(t, e) ==
  IF ~Open(t, e) \/ t.tools[e.output].whole THEN Error(t)
  ELSE Result([t EXCEPT !.tools[e.output].args = @ \o e.data], <<>>, FALSE)

ArgsDone(t, e) ==
  IF \/ ~Open(t, e) \/ t.tools[e.output].whole
     \/ t.tools[e.output].args \notin {<<>>, e.data} \/ e.data \notin Objects
  THEN Error(t)
  ELSE Result([t EXCEPT !.tools[e.output] = [@ EXCEPT !.args = e.data, !.whole = TRUE]], <<>>, FALSE)

CloseCall(t, e) ==
  IF \/ ~Open(t, e) \/ t.tools[e.output].call # e.call \/ e.status # "completed"
     \/ t.tools[e.output].args \notin {<<>>, e.data} \/ e.data \notin Objects
  THEN Error(t)
  ELSE Result([t EXCEPT !.tools[e.output] = [@ EXCEPT !.args = e.data, !.done = TRUE]],
              <<Chunk("tool", Slot(e.output, 0), e.call, e.data)>>, FALSE)

\* The reply is complete when everything that was opened is closed.
CompleteReply(t, e) ==
  IF \/ t.complete \/ e.status # "completed"
     \/ \E x \in DOMAIN t.tools : ~t.tools[x].done
     \/ \E x \in DOMAIN t.texts : ~t.texts[x].done
  THEN Error(t)
  ELSE Result([t EXCEPT !.complete = TRUE],
              <<Finished(IF DOMAIN t.tools = {} THEN "stop" ELSE "tool_calls", e.item)>>, TRUE)

ResponsesConsume(t, e) ==
  CASE e.type = "text.delta" -> TextDelta(t, e, "text")
    [] e.type = "refusal.delta" -> TextDelta(t, e, "refusal")
    [] e.type = "text.done" -> FinalText(t, Slot(e.output, e.content), "text", e.data)
    [] e.type = "refusal.done" -> FinalText(t, Slot(e.output, e.content), "refusal", e.data)
    [] e.type = "call.added" -> OpenCall(t, e)
    [] e.type = "args.delta" -> ArgsDelta(t, e)
    [] e.type = "args.done" -> ArgsDone(t, e)
    [] e.type = "call.done" -> CloseCall(t, e)
    [] e.type = "message.done" -> FinalMessage(t, e)
    [] e.type = "reasoning.done" ->
         Result(t, <<Chunk("state", Slot(e.output, 0), None, e.data)>>, FALSE)
    [] e.type = "completed" -> CompleteReply(t, e)
    [] e.type = "failed" -> Error(t)
    [] OTHER -> Result(t, <<>>, FALSE)

Init == Start(ResponsesStart)
Next ==
  \/ \E e \in ResponsesEvents : Push(e, ResponsesConsume(s, e)) \/ Interrupt(e, ResponsesConsume(s, e))
  \/ Eof \/ Finish
Spec == Init /\ [][Next]_vars

-----------------------------------------------------------------------------
\* What the provider said of a part: the sum of its deltas, its final values.
Streamed(k, type) == FlattenSeq([i \in DOMAIN sent |->
  IF sent[i].type = type /\ Slot(sent[i].output, sent[i].content) = k THEN sent[i].data ELSE <<>>])
Finals(k) ==
  {sent[i].data : i \in {j \in DOMAIN sent : sent[j].type \in {"text.done", "refusal.done"}
                                             /\ Slot(sent[j].output, sent[j].content) = k}}
  \cup {sent[i].parts[j].data : i \in {x \in DOMAIN sent : sent[x].type = "message.done"
                                        /\ k \in {Slot(sent[x].output, y - 1) : y \in DOMAIN sent[x].parts}},
                               j \in {k - (k \div Stride) * Stride + 1}}
Whole(output) ==
  {sent[i].data : i \in {j \in DOMAIN sent : sent[j].type \in {"args.done", "call.done"} /\ sent[j].output = output}}
Pieces(output) == FlattenSeq([i \in DOMAIN sent |->
  IF sent[i].type \in {"call.added", "args.delta"} /\ sent[i].output = output THEN sent[i].data ELSE <<>>])

\* Where the reply is announced, all the provider said of a part agrees with the
\* block of the message: every version of every text, every version of every
\* call's arguments; and each part of the reply has one block.
VersionsAgree ==
  d.finished =>
    /\ \A k \in DOMAIN acc.slots :
         LET b == acc.slots[k] IN
         CASE b.kind = "tool" -> Whole(k \div Stride) = {b.data} /\ Pieces(k \div Stride) \in {<<>>, b.data}
           [] b.kind = "state" -> TRUE
           [] OTHER -> Finals(k) = {b.data} /\ Streamed(k, IF b.kind = "text" THEN "text.delta" ELSE "refusal.delta") \in {<<>>, b.data}
    /\ \A i \in DOMAIN sent :
         /\ sent[i].type = "call.added" => acc.slots[Slot(sent[i].output, 0)].id = sent[i].call
         /\ sent[i].type \in {"text.delta", "refusal.delta", "text.done", "refusal.done"} =>
              Slot(sent[i].output, sent[i].content) \in DOMAIN acc.slots
=============================================================================
