----------------------------- MODULE ChatStream -----------------------------
(***************************************************************************)
(* The decoder of OpenAI Chat streams, codec/decode_chat.go: tool calls    *)
(* come in pieces by index and go out when [DONE] arrives, as do refusal   *)
(* and reasoning; text goes out as it comes.                               *)
(***************************************************************************)
EXTENDS NativeDecoder

CONSTANTS ChatEvents, IndexLimit

ChatStart == [tools |-> <<>>, next |-> 0, slot |-> <<>>, refusal |-> <<>>, reasoning |-> <<>>,
              reason |-> None, id |-> None]

\* A chunk has at most one payload of each kind and may carry the outcome:
\* [kind, id, text, refusal, reasoning, tool, finish].
Nothing == [kind |-> "chunk", id |-> None, text |-> <<>>, refusal |-> <<>>, reasoning |-> <<>>,
            tool |-> None, finish |-> None]
Delta(index, id, args) == [index |-> index, id |-> id, args |-> args]

Reserve(t, what) ==
  IF what \in DOMAIN t.slot THEN t
  ELSE [t EXCEPT !.slot = Extend(@, what, t.next), !.next = @ + 1]

BadDelta(t, x) ==
  \/ t.reason # None \/ x.index >= IndexLimit
  \/ /\ x.index \in DOMAIN t.tools /\ x.id # None
     /\ t.tools[x.index].id \notin {None, x.id}

BadChunk(t, e) ==
  \/ e.kind = "error"
  \/ e.id # None /\ t.id \notin {None, e.id}
  \/ t.reason # None /\ (e.refusal # <<>> \/ e.reasoning # <<>> \/ e.text # <<>>)
  \/ e.tool # None /\ BadDelta(t, e.tool)
  \/ e.finish # None /\ (t.reason # None \/ e.finish \notin {"stop", "tool_calls"})

WithTool(t, x) ==
  LET u == Reserve(t, <<"tool", x.index>>)
      old == IF x.index \in DOMAIN t.tools THEN t.tools[x.index] ELSE [id |-> None, args |-> <<>>]
  IN [u EXCEPT !.tools = Extend(@, x.index,
        [id |-> IF x.id # None THEN x.id ELSE old.id, args |-> old.args \o x.args])]

\* Slots in the order the payloads first appear: refusal, reasoning, text, tool.
Absorb(t, e) ==
  LET a == IF e.refusal # <<>> THEN Reserve(t, <<"refusal">>) ELSE t
      b == IF e.reasoning # <<>> THEN Reserve(a, <<"reasoning">>) ELSE a
      c == IF e.text # <<>> THEN Reserve(b, <<"text">>) ELSE b
      f == IF e.tool # None THEN WithTool(c, e.tool) ELSE c
  IN [f EXCEPT !.refusal = @ \o e.refusal, !.reasoning = @ \o e.reasoning,
               !.reason = IF e.finish # None THEN e.finish ELSE @,
               !.id = IF e.id # None THEN e.id ELSE @]

\* finish: at [DONE], whole calls by index, then refusal and reasoning.
Whole(t) ==
  /\ t.reason # None
  /\ (t.reason = "tool_calls") = (DOMAIN t.tools # {})
  /\ \A i \in 0 .. Cardinality(DOMAIN t.tools) - 1 :
       i \in DOMAIN t.tools /\ t.tools[i].id # None /\ t.tools[i].args \in Objects

ToolChunks(t) ==
  [j \in 1 .. Cardinality(DOMAIN t.tools) |->
     Chunk("tool", t.slot[<<"tool", j - 1>>], t.tools[j - 1].id, t.tools[j - 1].args)]
Held(t, what, data) == IF data = <<>> THEN <<>> ELSE <<Chunk(what, t.slot[<<what>>], None, data)>>

ChatConsume(t, e) ==
  IF e.kind = "done"
  THEN IF Whole(t)
       THEN Result(t, ToolChunks(t) \o Held(t, "refusal", t.refusal)
                      \o Held(t, "reasoning", t.reasoning) \o <<Finished(t.reason, t.id)>>, TRUE)
       ELSE Error(t)
  ELSE IF BadChunk(t, e) THEN Error(t)
  ELSE LET u == Absorb(t, e) IN
       Result(u, IF e.text = <<>> THEN <<>> ELSE <<Chunk("text", u.slot[<<"text">>], None, e.text)>>, FALSE)

Init == Start(ChatStart)
Next ==
  \/ \E e \in ChatEvents : Push(e, ChatConsume(s, e)) \/ Interrupt(e, ChatConsume(s, e))
  \/ Eof \/ Finish
Spec == Init /\ [][Next]_vars

-----------------------------------------------------------------------------
\* What the provider sent, read off its events.
Said(field) == FlattenSeq([i \in DOMAIN sent |-> IF sent[i].kind = "chunk" THEN sent[i][field] ELSE <<>>])
DeltasOf(x) == {i \in DOMAIN sent : sent[i].kind = "chunk" /\ sent[i].tool # None /\ sent[i].tool.index = x}
ArgsOf(x) == FlattenSeq([i \in DOMAIN sent |-> IF i \in DeltasOf(x) THEN sent[i].tool.args ELSE <<>>])
IdsOf(x) == {sent[i].tool.id : i \in DeltasOf(x)} \ {None}
Used == {x \in 0 .. IndexLimit - 1 : DeltasOf(x) # {}}

\* The blocks, each with the event it began with.
Began(field) == SelectInSeq(sent, LAMBDA e : e.kind = "chunk" /\ e[field] # <<>>)
SentBlocks ==
  {<<Began(f), [kind |-> f, id |-> None, data |-> Said(f)]>> :
     f \in {g \in {"text", "refusal", "reasoning"} : Said(g) # <<>>}}
  \cup {<<CHOOSE i \in DeltasOf(x) : \A j \in DeltasOf(x) : i <= j,
          [kind |-> "tool", id |-> CHOOSE id \in IdsOf(x) : TRUE, data |-> ArgsOf(x)]>> : x \in Used}

\* The message of an announced reply is what was sent, no more and no less: the
\* text, the reasoning and the refusal as one block each, every call of the
\* provider with all its arguments, and the blocks in the order they began.
SaysWhatWasSent ==
  d.finished =>
    /\ {Message[i] : i \in DOMAIN Message} = {b[2] : b \in SentBlocks}
    /\ Len(Message) = Cardinality(SentBlocks)
    /\ \A i, j \in DOMAIN Message : \A b, c \in SentBlocks :
         i < j /\ b[2] = Message[i] /\ c[2] = Message[j] => b[1] <= c[1]
=============================================================================
