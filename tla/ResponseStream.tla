--------------------------- MODULE ResponseStream ---------------------------
(***************************************************************************)
(* The gateway's stream, codec/stream.go with acceptConvertedChunk and     *)
(* finishConvertedContent of magpie_response.go, behind a native decoder:  *)
(* the client reads the provider's events as they are, or, in another      *)
(* protocol, the first text as it comes and everything else at the end.    *)
(* Whatever says that the reply is over is held until it is.               *)
(***************************************************************************)
EXTENDS NativeDecoder

CONSTANTS
  Identity,      \* client and provider speak the same protocol
  SourceEvents,  \* [chunks, done, ends]; ends: a client would take it for the end
  Portable       \* the kinds of block the other protocol can express

VARIABLES
  prefix,     \* the text streamed so far
  buffering,  \* from now on nothing is streamed
  client,     \* history: what the client has read
  pending,    \* what is held for the end
  failure     \* None, "broken", "loss" or "contradiction"

svars == <<prefix, buffering, client, pending, failure>>

StreamInit ==
  /\ Start(None)
  /\ prefix = <<>> /\ buffering = FALSE /\ client = <<>> /\ pending = <<>> /\ failure = None

Frame(kind, data) == [kind |-> kind, data |-> data]

\* deliver: from the first event that says so on, all is held.
Deliver1(f, ends) ==
  IF ends \/ pending # <<>> THEN pending' = Append(pending, f) /\ UNCHANGED client
                            ELSE client' = Append(client, f) /\ UNCHANGED pending

\* acceptConvertedChunk: text of the first slot is streamed until something else
\* comes between.
Convert(c) ==
  IF c.kind = "text" /\ ~buffering /\ c.slot \in {None, 0}
  THEN /\ prefix' = prefix \o c.data
       /\ Deliver1(Frame("text", c.data), FALSE)
       /\ UNCHANGED buffering
  ELSE /\ buffering' = (buffering \/ c.kind \notin {"usage", "finish"})
       /\ UNCHANGED <<prefix, client, pending>>

PushEvent(e) ==
  /\ failure = None
  /\ Push(e, Result(s, e.chunks, e.done))
  /\ IF d'.failed THEN failure' = "broken" /\ UNCHANGED <<prefix, buffering, client, pending>>
     ELSE /\ UNCHANGED failure
          /\ IF Identity THEN /\ Deliver1(Frame("event", <<Len(sent')>>), e.ends)
                              /\ UNCHANGED <<prefix, buffering>>
             ELSE IF e.chunks = <<>> THEN UNCHANGED <<prefix, buffering, client, pending>>
             ELSE Convert(e.chunks[1])

-----------------------------------------------------------------------------
\* finishConvertedContent: the message less the text already streamed.
Texts(message) == FlattenSeq([i \in DOMAIN message |-> IF message[i].kind = "text" THEN message[i].data ELSE <<>>])

\* The streamed text must be where the message begins: texts only, and the same.
Continues ==
  LET n == IF \A i \in DOMAIN Message : Message[i].kind = "text" THEN Len(Message)
           ELSE (CHOOSE i \in DOMAIN Message : Message[i].kind # "text"
                    /\ \A j \in 1 .. i - 1 : Message[j].kind = "text") - 1
  IN IsPrefix(prefix, Texts(SubSeq(Message, 1, n)))

\* The frames left: the rest of the text, then the blocks, then the end.
Rest_All == [i \in DOMAIN Message |-> Frame(Message[i].kind, Message[i].data)] \o <<Frame("end", <<>>)>>
Rest ==
  LET step(r, b) ==
        IF b.kind = "text" /\ r.skip >= Len(b.data) THEN [r EXCEPT !.skip = @ - Len(b.data)]
        ELSE [out |-> Append(r.out, Frame(b.kind, SubSeq(b.data, r.skip + 1, Len(b.data)))), skip |-> 0]
  IN FoldLeft(step, [out |-> <<>>, skip |-> Len(prefix)], Message).out \o <<Frame("end", <<>>)>>

FinishStream ==
  /\ failure = None /\ Finish
  /\ IF d'.failed THEN failure' = "broken" /\ UNCHANGED <<client, pending>>
     ELSE IF Identity THEN client' = client \o pending /\ pending' = <<>> /\ UNCHANGED failure
     ELSE IF \E i \in DOMAIN Message : Message[i].kind \notin Portable
     THEN failure' = "loss" /\ UNCHANGED <<client, pending>>
     ELSE IF ~Continues THEN failure' = "contradiction" /\ UNCHANGED <<client, pending>>
     ELSE client' = client \o Rest /\ pending' = <<>> /\ UNCHANGED failure
  /\ UNCHANGED <<prefix, buffering>>

StreamNext ==
  \/ \E e \in SourceEvents : PushEvent(e)
  \/ Eof /\ UNCHANGED svars
  \/ FinishStream

StreamSpec == StreamInit /\ [][StreamNext]_<<vars, svars>>

-----------------------------------------------------------------------------
StreamTypeOK ==
  /\ failure = "broken" <=> d.failed
  /\ client # <<>> /\ client[Len(client)].kind = "end" => d.finished
  /\ prefix # <<>> => ~Identity

\* A client learns that the reply is over only when it is: a connection that
\* breaks after the stop reason and before the provider's end leaves it waiting.
NoFalseEnd ==
  \A i \in DOMAIN client :
    \/ client[i].kind = "end"
    \/ client[i].kind = "event" /\ sent[client[i].data[1]].ends
    => d.finished

\* What was streamed early is never taken back: the message a reply ends with
\* begins with it, in whatever order the provider filled its blocks.
NeverContradicts == failure # "contradiction"

\* In the end the client has read the whole reply, each block once and in order.
ReadsItAll ==
  d.finished /\ failure = None =>
    IF Identity THEN client = [i \in DOMAIN sent |-> Frame("event", <<i>>)]
    ELSE LET merge(list, f) ==
               IF f.kind = "text" /\ list # <<>> /\ list[Len(list)].kind = "text"
               THEN [list EXCEPT ![Len(list)] = [@ EXCEPT !.data = @ \o f.data]] ELSE Append(list, f)
         IN FoldLeft(merge, <<>>, client)
              = FoldLeft(merge, <<>>, [i \in DOMAIN Message |-> Frame(Message[i].kind, Message[i].data)])
                \o <<Frame("end", <<>>)>>
=============================================================================
