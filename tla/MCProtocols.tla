------------------------------ MODULE MCProtocols ------------------------------
(***************************************************************************)
(* The protocols at the edges, as parts of a run: the decoders of the four *)
(* protocols of model providers and the encoder behind them, on small      *)
(* event sets, and the clients of plugins, agents and tool servers.        *)
(***************************************************************************)
EXTENDS Parts, Sequences, TLC

CONSTANTS None, r1, r2, c1, c2, g1, g2, i1, i2, e1, e2, w1, w2, k1, k2, s1, Absent, Opener, Reader

VARIABLES s, d, acc, reading, sent, prefix, buffering, client, pending, failure

native == <<s, d, acc, reading, sent>>
reply  == <<prefix, buffering, client, pending, failure>>
vars   == <<native, reply>>

Braces   == {<<"{", "}">>}
Two      == {c1, c2}
MaxCalls == 2
MaxBlocks == 4

-----------------------------------------------------------------------------
\* Chat: one payload each; the outcome alone or with a last piece; and what
\* breaks.  Ch gives the shape of the events.
Ch == INSTANCE ChatStream WITH Ids <- Two, Objects <- Braces, UsageAfterStop <- FALSE, MaxEvents <- 6,
        IndexLimit <- 2, ChatEvents <- {}
Deltas == {Ch!Delta(0, c1, <<"{">>), Ch!Delta(0, None, <<"}">>), Ch!Delta(1, c2, <<"{", "}">>),
           Ch!Delta(0, c2, <<"{", "}">>)}
ManyChunks ==
  {[Ch!Nothing EXCEPT !.kind = "done"]}
  \cup {[Ch!Nothing EXCEPT !.text = <<"a">>, !.id = r1], [Ch!Nothing EXCEPT !.refusal = <<"b">>],
        [Ch!Nothing EXCEPT !.reasoning = <<"c">>, !.text = <<"d">>]}
  \cup {[Ch!Nothing EXCEPT !.tool = x] : x \in Deltas}
  \cup {[Ch!Nothing EXCEPT !.finish = r, !.id = r1] : r \in {"stop", "tool_calls", "length"}}
  \cup {[Ch!Nothing EXCEPT !.finish = "tool_calls", !.tool = Ch!Delta(0, None, <<"}">>), !.id = r2]}
Chat == INSTANCE ChatStream WITH Ids <- Two, Objects <- Braces, UsageAfterStop <- FALSE, MaxEvents <- 6,
          IndexLimit <- 2, ChatEvents <- ManyChunks

-----------------------------------------------------------------------------
\* Responses: one call at the first output, its texts beside it; and a message
\* of two parts, said up to three times.
Rs == INSTANCE ResponsesStream WITH Ids <- Two, Objects <- Braces, UsageAfterStop <- FALSE, MaxEvents <- 7,
        Stride <- 4, ResponsesEvents <- {}
REv(type) == [Rs!Nothing EXCEPT !.type = type]
Calls ==
  {[REv("call.added") EXCEPT !.item = i1, !.call = c] : c \in Two}
  \cup {[REv("call.added") EXCEPT !.item = i2, !.call = c1, !.output = 1],
        [REv("call.done") EXCEPT !.item = i2, !.call = c1, !.output = 1, !.data = <<"{", "}">>]}
  \cup {[REv("args.delta") EXCEPT !.item = i1, !.data = <<x>>] : x \in {"{", "}"}}
  \cup {[REv("args.done") EXCEPT !.item = i1, !.data = <<"{", "}">>]}
  \cup {[REv("call.done") EXCEPT !.item = i, !.call = c1, !.data = <<"{", "}">>] : i \in {i1, i2}}
  \cup {[REv("text.delta") EXCEPT !.data = <<"a">>], REv("completed"), REv("failed"),
        [REv("completed") EXCEPT !.status = "incomplete"],
        [REv("reasoning.done") EXCEPT !.output = 1, !.data = <<"r">>]}
Versions ==
  {[REv("text.delta") EXCEPT !.data = <<x>>] : x \in {"a", "b"}}
  \cup {[REv("text.done") EXCEPT !.data = x] : x \in {<<"a">>, <<"a", "b">>}}
  \cup {[REv("refusal.delta") EXCEPT !.content = 1, !.data = <<"n">>],
        [REv("refusal.done") EXCEPT !.content = 1, !.data = <<"n">>],
        [REv("text.delta") EXCEPT !.content = 1, !.data = <<"n">>]}
  \cup {[REv("message.done") EXCEPT !.parts = p] :
          p \in {<<Rs!Part("text", <<"a">>)>>, <<Rs!Part("text", <<"a", "b">>), Rs!Part("refusal", <<"n">>)>>}}
  \cup {REv("completed"), REv("failed")}
Responses == INSTANCE ResponsesStream WITH Ids <- Two, Objects <- Braces, UsageAfterStop <- FALSE, MaxEvents <- 7,
               Stride <- 4, ResponsesEvents <- Calls
ResponsesText == INSTANCE ResponsesStream WITH Ids <- Two, Objects <- Braces, UsageAfterStop <- FALSE,
                   MaxEvents <- 7, Stride <- 4, ResponsesEvents <- Versions

-----------------------------------------------------------------------------
\* Anthropic: a call filled piece by piece beside a text, or beside a second
\* call; and thinking with and without its signature before a text.
An == INSTANCE AnthropicStream WITH Ids <- Two, Objects <- Braces, UsageAfterStop <- FALSE, MaxEvents <- 9,
        AnthropicEvents <- {}
AEv(type) == [An!Nothing EXCEPT !.type = type]
Opens(x, kind, id, data) ==
  [AEv("content_block_start") EXCEPT !.index = x, !.kind = kind, !.id = id, !.data = data]
Fills(x, kind, data, sig) ==
  [AEv("content_block_delta") EXCEPT !.index = x, !.kind = kind, !.data = data, !.sig = sig]
Ends == {[AEv("content_block_stop") EXCEPT !.index = x] : x \in {0, 1}}
        \cup {[AEv("message_delta") EXCEPT !.kind = k] : k \in {"end_turn", "tool_use"}}
        \cup {AEv("message_start"), AEv("message_stop")}
ToolBlocks ==
  Ends \cup {Opens(0, "tool", c1, <<>>), Opens(1, "text", None, <<"a">>), Opens(1, "tool", c1, <<"{", "}">>),
             Opens(1, "tool", c2, <<"{", "}">>),
             Fills(0, "tool", <<"{">>, <<>>), Fills(0, "tool", <<"}">>, <<>>), Fills(1, "text", <<"b">>, <<>>)}
Thoughts ==
  Ends \cup {Opens(0, "thinking", None, <<"t">>), Opens(1, "text", None, <<>>),
             Fills(0, "thinking", <<"u">>, <<>>), Fills(0, "thinking", <<>>, <<"s">>),
             Fills(1, "text", <<"b">>, <<>>), Fills(0, "text", <<"b">>, <<>>), AEv("error")}
Anthropic == INSTANCE AnthropicStream WITH Ids <- Two, Objects <- Braces, UsageAfterStop <- FALSE, MaxEvents <- 9,
               AnthropicEvents <- ToolBlocks
AnthropicThinking == INSTANCE AnthropicStream WITH Ids <- Two, Objects <- Braces, UsageAfterStop <- FALSE,
                       MaxEvents <- 9, AnthropicEvents <- Thoughts

-----------------------------------------------------------------------------
\* Gemini: whole parts as they arrive, the outcome with or without them, and
\* metadata after the stop.
Ge == INSTANCE GeminiStream WITH Ids <- {c1, g1, g2}, Objects <- Braces, UsageAfterStop <- TRUE, MaxEvents <- 5,
        Generated <- <<g1, g2>>, GeminiEvents <- {}
CallPart(id) == Ge!Part("call", id, <<"{", "}">>)
Words(x) == Ge!Part("text", None, <<x>>)
GeminiParts ==
  {[Ge!Nothing EXCEPT !.parts = p] :
     p \in {<<Words("a")>>, <<Words("b"), CallPart(None)>>, <<CallPart(c1)>>, <<Ge!Part("call", None, <<"{">>)>>,
            <<Ge!Part("thought", None, <<"t">>), Words("c")>>}}
  \cup {[Ge!Nothing EXCEPT !.parts = p, !.finish = f, !.id = i] :
          p \in {<<>>, <<CallPart(None)>>}, f \in {"STOP", "MAX_TOKENS"}, i \in {None, r1}}
  \cup {[Ge!Nothing EXCEPT !.usage = TRUE, !.id = i] : i \in {None, r1, r2}}
Gemini == INSTANCE GeminiStream WITH Ids <- {c1, g1, g2}, Objects <- Braces, UsageAfterStop <- TRUE, MaxEvents <- 5,
            Generated <- <<g1, g2>>, GeminiEvents <- GeminiParts

-----------------------------------------------------------------------------
\* Replies for a client of another protocol, by slots (Chat, Responses,
\* Anthropic) and by arrival (Gemini), and for one of the same protocol.
Re == INSTANCE ResponseStream WITH Ids <- {c1}, Objects <- Braces, UsageAfterStop <- FALSE, MaxEvents <- 6,
        Identity <- TRUE, SourceEvents <- {}, Portable <- {}
Source(c) == [chunks |-> <<c>>, done |-> FALSE, ends |-> FALSE]
Done == [chunks |-> <<Re!Finished("stop", None)>>, done |-> TRUE, ends |-> TRUE]
Slotted ==
  {Source(Re!Chunk("text", k, None, <<x>>)) : k \in 0 .. 2, x \in {"a", "b"}}
  \cup {Source(Re!Chunk("tool", k, c1, <<"{", "}">>)) : k \in 0 .. 1}
  \cup {Source(Re!Chunk("thinking", 0, None, <<"t">>)), Source(Re!Chunk("refusal", 1, None, <<"n">>)),
        Source(Re!Chunk("progress", None, None, <<>>)), Done}
Arriving ==
  {Source(Re!Chunk("text", None, None, <<x>>)) : x \in {"a", "b"}}
  \cup {Source(Re!Chunk("tool", None, c1, <<"{", "}">>)), Source(Re!Chunk("thinking", None, None, <<"t">>)), Done}
AsItIs ==
  {Source(Re!Chunk("text", 0, None, <<"a">>)), [Source(Re!Chunk("usage", None, None, <<>>)) EXCEPT !.ends = TRUE],
   Source(Re!Chunk("usage", None, None, <<>>)), Done}
Common == {"text", "tool", "thinking"}
Slots == INSTANCE ResponseStream WITH Ids <- {c1}, Objects <- Braces, UsageAfterStop <- FALSE, MaxEvents <- 5,
           Identity <- FALSE, SourceEvents <- Slotted, Portable <- Common
Arrival == INSTANCE ResponseStream WITH Ids <- {c1}, Objects <- Braces, UsageAfterStop <- FALSE, MaxEvents <- 6,
             Identity <- FALSE, SourceEvents <- Arriving, Portable <- Common
Same == INSTANCE ResponseStream WITH Ids <- {c1}, Objects <- Braces, UsageAfterStop <- FALSE, MaxEvents <- 6,
          Identity <- TRUE, SourceEvents <- AsItIs, Portable <- Common

-----------------------------------------------------------------------------
\* The protocol clients: two callers, a shutdown and two requests of the peer.
Aep == INSTANCE AepClient WITH
  Callers <- {e1, e2}, Workers <- {w1, w2}, Keys <- {k1, k2}, QueueLimit <- 1, MaxFrames <- 3,
  conn <- v1, gate <- v2, write <- v3, rpc <- v4, call <- v5, reader <- v6, queue <- v7, seen <- v8,
  worker <- v9, owner <- v10, pipe <- v11, sent <- v12, written <- v13, answers <- v14, recorded <- v15, acted <- v16

\* Two prompts and their cancellation; and two requests of one turn.
AcpTurns == INSTANCE AcpClient WITH
  Prompts <- {1, 2}, Cancellers <- {s1}, Workers <- {w1}, Keys <- {k1}, HasHandler <- TRUE, MaxRequests <- 1,
  WriteLimit <- 2, CallbackLimit <- 1,
  failed <- v1, turn <- v2, cancelled <- v3, th <- v4, writes <- v5, writer <- v6, wire <- v7, replied <- v8,
  req <- v9, asked <- v10, table <- v11, callbacks <- v12
AcpWorkers == INSTANCE AcpClient WITH
  Prompts <- {1}, Cancellers <- {}, Workers <- {w1, w2}, Keys <- {k1}, HasHandler <- TRUE, MaxRequests <- 2,
  WriteLimit <- 2, CallbackLimit <- 2,
  failed <- v1, turn <- v2, cancelled <- v3, th <- v4, writes <- v5, writer <- v6, wire <- v7, replied <- v8,
  req <- v9, asked <- v10, table <- v11, callbacks <- v12

Mcp == INSTANCE McpClient WITH
  Callers <- {e1, e2}, NoteLimit <- 1, MaxFrames <- 3,
  client <- v1, rpc <- v2, write <- v3, call <- v4, over <- v5, reader <- v6, notes <- v7, line <- v8,
  sent <- v9, wire <- v10

-----------------------------------------------------------------------------
NoDecoder == s = 0 /\ d = 0 /\ acc = 0 /\ reading = 0 /\ sent = 0
NoClient == v1 = 0 /\ v2 = 0 /\ v3 = 0 /\ v4 = 0 /\ Init5
NoReply == prefix = <<>> /\ buffering = FALSE /\ client = <<>> /\ pending = <<>> /\ failure = None

Init ==
  \/ /\ NoReply /\ NoClient
     /\ \/ part = "chat" /\ Chat!Init
        \/ part = "responses" /\ Responses!Init
        \/ part = "responses text" /\ ResponsesText!Init
        \/ part = "anthropic" /\ Anthropic!Init
        \/ part = "anthropic thinking" /\ AnthropicThinking!Init
        \/ part = "gemini" /\ Gemini!Init
  \/ /\ NoClient
     /\ \/ part = "slots" /\ Slots!StreamInit
        \/ part = "arrival" /\ Arrival!StreamInit
        \/ part = "same" /\ Same!StreamInit
  \/ /\ NoDecoder /\ NoReply
     /\ \/ part = "aep" /\ Aep!Init
        \/ part = "acp turns" /\ AcpTurns!Init /\ Init13
        \/ part = "acp workers" /\ AcpWorkers!Init /\ Init13
        \/ part = "mcp" /\ Mcp!Init /\ Init11

Next ==
  \/ /\ UNCHANGED <<reply, every>>
     /\ \/ part = "chat" /\ Chat!Next
        \/ part = "responses" /\ Responses!Next
        \/ part = "responses text" /\ ResponsesText!Next
        \/ part = "anthropic" /\ Anthropic!Next
        \/ part = "anthropic thinking" /\ AnthropicThinking!Next
        \/ part = "gemini" /\ Gemini!Next
  \/ /\ UNCHANGED every
     /\ \/ part = "slots" /\ Slots!StreamNext
        \/ part = "arrival" /\ Arrival!StreamNext
        \/ part = "same" /\ Same!StreamNext
  \/ /\ UNCHANGED vars
     /\ \/ part = "aep" /\ Aep!Next /\ Keep17
        \/ part = "acp turns" /\ AcpTurns!Next /\ Keep13
        \/ part = "acp workers" /\ AcpWorkers!Next /\ Keep13
        \/ part = "mcp" /\ Mcp!Next /\ Keep11

Spec == Init /\ [][Next]_<<vars, every>>

\* Callers, workers and the keys of requests.
Symmetry == Permutations({e1, e2}) \cup Permutations({w1, w2}) \cup Permutations({k1, k2})

-----------------------------------------------------------------------------
\* Every decoder implements ModelStream: the calls it hands over are whole and
\* distinct, the outcome agrees with them, it is announced once and only for a
\* reply that ended, and a failed reply announces nothing.
KeepsPromise ==
  /\ part = "chat" => Chat!Promise!Init
  /\ part = "responses" => Responses!Promise!Init
  /\ part = "anthropic" => Anthropic!Promise!Init
  /\ part = "gemini" => Gemini!Promise!Init
  /\ [][part = "chat" => [Chat!Promise!Next]_(Chat!Promise!vars)]_vars
  /\ [][part = "responses" => [Responses!Promise!Next]_(Responses!Promise!vars)]_vars
  /\ [][part = "anthropic" => [Anthropic!Promise!Next]_(Anthropic!Promise!vars)]_vars
  /\ [][part = "gemini" => [Gemini!Promise!Next]_(Gemini!Promise!vars)]_vars

\* The decoder and the accumulator behind it agree: what one lets through the
\* other takes, calls are whole, and the message of an announced reply is what
\* the provider sent, in each protocol's own order, with all its versions.
SaysWhatWasSent ==
  /\ part \in {"chat", "responses", "responses text", "anthropic", "anthropic thinking", "gemini"} =>
       Chat!DecoderTypeOK /\ Chat!NothingRefusedLater
  /\ part \in {"chat", "responses", "anthropic"} => Chat!ToolsAreWhole
  /\ part = "chat" => Chat!SaysWhatWasSent
  /\ part = "responses" => Responses!VersionsAgree
  /\ part = "responses text" => ResponsesText!VersionsAgree
  /\ part = "anthropic" => Anthropic!SaysWhatWasSent
  /\ part = "anthropic thinking" => AnthropicThinking!SaysWhatWasSent
  /\ part = "gemini" => Gemini!SaysWhatWasSent

\* The client of a streamed reply reads all of it, each block once and in order,
\* nothing it has read is taken back, and it sees an end only if the reply ended.
ReadsItAll ==
  /\ part = "slots" => Slots!StreamTypeOK /\ Slots!NeverContradicts /\ Slots!ReadsItAll
  /\ part = "arrival" => Arrival!NeverContradicts /\ Arrival!ReadsItAll
  /\ part = "same" => Same!NoFalseEnd /\ Same!ReadsItAll

\* A caller gets the answer to its own request or none: AEP and MCP match late,
\* repeated and unsolicited replies against the one request under way, and a
\* request whose outcome is unknown is the last on its connection.  What the
\* other side asks is answered once, after it is recorded, and never with a
\* consent for a turn that was cancelled; a graceful AEP shutdown leaves nothing
\* unread, and Close leaves nobody running.
AnswersAreMatched ==
  /\ part = "aep" => /\ Aep!AepTypeOK /\ Aep!OwnReply /\ Aep!ShutdownIsLast /\ Aep!AnsweredOnce
                     /\ Aep!RecordedFirst /\ Aep!GracefulIsDrained /\ Aep!ClosedIsQuiet
  /\ part = "mcp" => Mcp!McpTypeOK /\ Mcp!AnswerIsMine /\ Mcp!UnknownIsLast
  /\ part = "acp turns" => AcpTurns!AcpTypeOK /\ AcpTurns!NoConsentAfterCancel
  /\ part = "acp workers" => AcpWorkers!WrittenOnce /\ AcpWorkers!IdentityIsOne

\* No tool server that failed is called connected; Open says so all the same
\* when it comes between fail's lock and the close of done.
FailedIsDisconnected == part = "mcp" => Mcp!FailedIsDisconnected
=============================================================================
