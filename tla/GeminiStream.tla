---------------------------- MODULE GeminiStream ----------------------------
(***************************************************************************)
(* The decoder of Gemini streams, codec/decode_gemini.go: parts count in   *)
(* the order they come, a call without an identity is given one, and after *)
(* the stop only metadata may follow, which revises the outcome held back. *)
(***************************************************************************)
EXTENDS NativeDecoder

CONSTANTS GeminiEvents,
  Generated   \* the identities the decoder makes up, in order

GeminiStart == [calls |-> <<>>, stopped |-> FALSE, id |-> None]

\* [id, parts, finish, usage]; a part is [kind, id, data].
Nothing == [id |-> None, parts |-> <<>>, finish |-> None, usage |-> FALSE]
Part(kind, id, data) == [kind |-> kind, id |-> id, data |-> data]

BadEvent(t, e) ==
  \/ t.stopped /\ (e.parts # <<>> \/ e.finish # None \/ ~e.usage)
  \/ e.id # None /\ t.id \notin {None, e.id}

Identity(t, p) == IF p.id = None THEN Generated[Len(t.calls) + 1] ELSE p.id

TakePart(r, p) ==
  LET t == r.s id == Identity(t, p) IN
  IF ~r.ok THEN r
  ELSE CASE p.kind \in {"text", "thought"} -> [r EXCEPT !.chunks = Append(@, Chunk(p.kind, None, None, p.data))]
         [] p.kind = "call" /\ Len(t.calls) < MaxCalls /\ p.data \in Objects
                            /\ \A i \in DOMAIN t.calls : t.calls[i] # id ->
              [r EXCEPT !.s.calls = Append(@, id), !.chunks = Append(@, Chunk("tool", None, id, p.data))]
         [] OTHER -> [r EXCEPT !.ok = FALSE]

\* The outcome is emitted with the stop, and again with all that follows it.
GeminiConsume(t, e) ==
  IF BadEvent(t, e) THEN Error(t)
  ELSE LET u == [t EXCEPT !.id = IF e.id # None THEN e.id ELSE @]
           r == FoldLeft(TakePart, Result(u, <<>>, FALSE), e.parts)
           v == [r EXCEPT !.s.stopped = @ \/ e.finish = "STOP"]
       IN IF ~r.ok \/ e.finish \notin {None, "STOP"} THEN [r EXCEPT !.ok = FALSE]
          ELSE IF v.s.stopped
          THEN [v EXCEPT !.done = TRUE,
                  !.chunks = Append(@, Finished(IF v.s.calls = <<>> THEN "stop" ELSE "tool_calls", v.s.id))]
          ELSE v

Init == Start(GeminiStart)
Next ==
  \/ \E e \in GeminiEvents : Push(e, GeminiConsume(s, e)) \/ Interrupt(e, GeminiConsume(s, e))
  \/ Eof \/ Finish
Spec == Init /\ [][Next]_vars

-----------------------------------------------------------------------------
AllParts == FlattenSeq([i \in DOMAIN sent |-> sent[i].parts])
BlockOf(p) == [kind |-> IF p.kind = "call" THEN "tool" ELSE p.kind, data |-> p.data]

\* Adjacent texts are one block; everything else is a block of its own.
Blocks ==
  FoldLeft(LAMBDA list, p :
      IF p.kind = "text" /\ list # <<>> /\ list[Len(list)].kind = "text"
      THEN [list EXCEPT ![Len(list)] = [@ EXCEPT !.data = @ \o p.data]]
      ELSE Append(list, BlockOf(p)), <<>>, AllParts)

\* The message of an announced reply has the parts of the provider in their
\* order and the identity the provider gave the reply, were it only with the
\* last metadata after the stop.
SaysWhatWasSent ==
  d.finished =>
    /\ [i \in DOMAIN Message |-> [kind |-> Message[i].kind, data |-> Message[i].data]] = Blocks
    /\ {d.finish.id} \cup {None} = {sent[i].id : i \in DOMAIN sent} \cup {None}
=============================================================================
