-------------------------- MODULE AnthropicStream --------------------------
(***************************************************************************)
(* The decoder of Anthropic streams, codec/decode_anthropic.go: blocks are *)
(* opened, filled and closed by index, several at a time; text goes out as *)
(* it comes, calls and thinking when their block closes, and the message   *)
(* must say why it stopped before it stops.                                *)
(***************************************************************************)
EXTENDS NativeDecoder

CONSTANTS AnthropicEvents

AnthropicStart == [started |-> FALSE, blocks |-> <<>>, stop |-> None, complete |-> FALSE]

\* [type, index, kind, id, data, sig]: data is the text, the arguments or the
\* thinking of a block or a delta, sig its signature.
Nothing == [type |-> "ping", index |-> 0, kind |-> None, id |-> None, data |-> <<>>, sig |-> <<>>]

Text(index, data) == IF data = <<>> THEN <<>> ELSE <<Chunk("text", index, None, data)>>

StartMessage(t, e) ==
  IF t.started THEN Error(t) ELSE Result([t EXCEPT !.started = TRUE], <<>>, FALSE)

StartBlock(t, e) ==
  IF \/ ~t.started \/ e.index \in DOMAIN t.blocks \/ Cardinality(DOMAIN t.blocks) >= MaxBlocks
     \/ e.kind = "tool" /\ (e.id = None \/ \E x \in DOMAIN t.blocks :
                               t.blocks[x].kind = "tool" /\ t.blocks[x].id = e.id)
     \/ e.kind \notin {"text", "tool", "thinking"}
  THEN Error(t)
  ELSE Result([t EXCEPT !.blocks = Extend(@, e.index,
                 [kind |-> e.kind, id |-> e.id, init |-> e.data, sig |-> e.sig, done |-> FALSE,
                  data |-> IF e.kind = "thinking" THEN e.data ELSE <<>>])],
              IF e.kind = "text" THEN Text(e.index, e.data) ELSE <<>>, FALSE)

Opened(t, e) == e.index \in DOMAIN t.blocks /\ ~t.blocks[e.index].done

Fill_Late(t, e) ==
  IF e.index \notin DOMAIN t.blocks \/ t.blocks[e.index].kind # e.kind THEN Error(t)
  ELSE Result([t EXCEPT !.blocks[e.index] = [@ EXCEPT !.data = @ \o e.data, !.sig = @ \o e.sig]],
              IF e.kind = "text" THEN Text(e.index, e.data) ELSE <<>>, FALSE)
Fill(t, e) ==
  IF ~Opened(t, e) \/ t.blocks[e.index].kind # e.kind THEN Error(t)
  ELSE Result([t EXCEPT !.blocks[e.index] = [@ EXCEPT !.data = @ \o e.data, !.sig = @ \o e.sig]],
              IF e.kind = "text" THEN Text(e.index, e.data) ELSE <<>>, FALSE)

\* Arguments that never came in pieces are those the block opened with.
ArgsOf(b) == IF b.data = <<>> THEN b.init ELSE b.data

CloseBlock(t, e) ==
  IF \/ ~Opened(t, e)
     \/ t.blocks[e.index].kind = "tool" /\ ArgsOf(t.blocks[e.index]) \notin Objects
     \/ t.blocks[e.index].kind = "thinking" /\ t.blocks[e.index].sig = <<>>
  THEN Error(t)
  ELSE LET b == t.blocks[e.index] IN
       Result([t EXCEPT !.blocks[e.index].done = TRUE],
              CASE b.kind = "tool" -> <<Chunk("tool", e.index, b.id, ArgsOf(b))>>
                [] b.kind = "thinking" -> <<Chunk("thinking", e.index, None, b.data \o b.sig)>>
                [] OTHER -> <<>>, FALSE)

MessageDelta(t, e) ==
  IF ~t.started \/ (e.kind # None /\ t.stop # None) THEN Error(t)
  ELSE Result([t EXCEPT !.stop = IF e.kind # None THEN e.kind ELSE @], <<>>, FALSE)

ToolBlocks(t) == {x \in DOMAIN t.blocks : t.blocks[x].kind = "tool"}

StopMessage(t, e) ==
  IF \/ ~t.started \/ t.complete
     \/ t.stop \notin {"end_turn", "tool_use"}
     \/ \E x \in DOMAIN t.blocks : ~t.blocks[x].done
     \/ (t.stop = "tool_use") # (ToolBlocks(t) # {})
  THEN Error(t)
  ELSE Result([t EXCEPT !.complete = TRUE],
              <<Finished(IF ToolBlocks(t) = {} THEN "stop" ELSE "tool_calls", None)>>, TRUE)

AnthropicConsume(t, e) ==
  CASE e.type = "message_start" -> StartMessage(t, e)
    [] e.type = "content_block_start" -> StartBlock(t, e)
    [] e.type = "content_block_delta" -> Fill(t, e)
    [] e.type = "content_block_stop" -> CloseBlock(t, e)
    [] e.type = "message_delta" -> MessageDelta(t, e)
    [] e.type = "message_stop" -> StopMessage(t, e)
    [] e.type = "error" -> Error(t)
    [] OTHER -> Result(t, <<>>, FALSE)

Init == Start(AnthropicStart)
Next ==
  \/ \E e \in AnthropicEvents : Push(e, AnthropicConsume(s, e)) \/ Interrupt(e, AnthropicConsume(s, e))
  \/ Eof \/ Finish
Spec == Init /\ [][Next]_vars

-----------------------------------------------------------------------------
\* What the provider put into a block before it closed it.
Starts == {i \in DOMAIN sent : sent[i].type = "content_block_start"}
Filled(x, field) == FlattenSeq([i \in DOMAIN sent |->
  IF sent[i].type = "content_block_delta" /\ sent[i].index = x THEN sent[i][field] ELSE <<>>])
Given(e) ==
  CASE e.kind = "tool" -> [kind |-> "tool", id |-> e.id,
          data |-> IF Filled(e.index, "data") = <<>> THEN e.data ELSE Filled(e.index, "data")]
    [] e.kind = "thinking" -> [kind |-> "thinking", id |-> None,
          data |-> e.data \o Filled(e.index, "data") \o e.sig \o Filled(e.index, "sig")]
    [] OTHER -> [kind |-> "text", id |-> None, data |-> e.data \o Filled(e.index, "data")]

\* The message of an announced reply has the blocks of the provider, in the
\* order of their indices, each with all that was put into it, whatever the
\* order in which the blocks were filled and closed.
SaysWhatWasSent ==
  d.finished =>
    LET given == {i \in Starts : Given(sent[i]).data # <<>>}
        order == SetToSortSeq({sent[i].index : i \in given}, LAMBDA x, y : x < y)
    IN Message = [j \in DOMAIN order |-> Given(sent[CHOOSE i \in given : sent[i].index = order[j]])]
=============================================================================
