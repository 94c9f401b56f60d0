---------------------------- MODULE MCAgentWork ----------------------------
(***************************************************************************)
(* The agent runtime, as parts of a run: the locks of tools (ToolLock) and *)
(* the loop (AgentLoop), with variables of their own, permissions, runs    *)
(* and pending inputs of the host, model and tool calls, event streams,    *)
(* graphs, shell processes, browsers and MCP servers.  Then what they owe  *)
(* under fairness, together with the protocol clients.                     *)
(***************************************************************************)
EXTENDS ToolLock, AgentLoop, Parts, TLC

CONSTANTS p1, p2, p3, s1, m1, m2, m3, m4, o1, o2, a, b, k3, k4, r1, r2, e1, e2, Zero, Absent, x1, x2, x3,
  None, canceller, worker, key

-----------------------------------------------------------------------------
\* Tool locks: a writer, a reader, a coordinator with a call of its own,
\* and one that wants everything.
TaskClaims == [w1 |-> [mode |-> "parallel", reads |-> {}, writes |-> {"a", "b"}],
               rd |-> [mode |-> "parallel", reads |-> {"a", "b"}, writes |-> {}],
               sub |-> [mode |-> "parallel", reads |-> {}, writes |-> {"a"}],
               par |-> [mode |-> "coordinator", reads |-> {}, writes |-> {"a"}],
               glob |-> [mode |-> "serial_global", reads |-> {}, writes |-> {}]]
TaskParents == [t \in DOMAIN TaskClaims |-> IF t = "sub" THEN "par" ELSE Nobody]

-----------------------------------------------------------------------------
\* Permissions: two requests of one invocation and one of none, while the
\* policy changes; and a broker that is full while requests are cancelled.
Writes   == [r \in {e1, e2, p1, p2, p3} |-> "write"]
OneUser  == [r \in {e1, e2, p3} |-> s1]
Shared   == [r \in {e1, e2, p3} |-> IF r = p3 THEN "none" ELSE "c1"]
TwoUsers == [r \in {p1, p2, p3} |-> IF r = p3 THEN "s2" ELSE "s1"]
Distinct == [r \in {p1, p2, p3} |-> IF r = p1 THEN "c1" ELSE IF r = p2 THEN "c2" ELSE "c3"]
Policy == INSTANCE Permission WITH
  Request <- {e1, e2, p3}, SessionOf <- OneUser, ToolOf <- Writes, CallOf <- Shared,
  Mode <- {"ask", "plan", "accept_edits"}, Capacity <- 2, MaxFlight <- 2, MaxChange <- 1, Ops <- {},
  policy <- v1, cache <- v2, flights <- v3, req <- v4, broker <- v5, consent <- v6, epoch <- v7
Broker == INSTANCE Permission WITH
  Request <- {p1, p2, p3}, SessionOf <- TwoUsers, ToolOf <- Writes, CallOf <- Distinct,
  Mode <- {"ask"}, Capacity <- 1, MaxFlight <- 2, MaxChange <- 0, Ops <- {"cancel", "close"},
  policy <- v1, cache <- v2, flights <- v3, req <- v4, broker <- v5, consent <- v6, epoch <- v7

-----------------------------------------------------------------------------
\* The host: three runs of which two are kept, a run with two observers, and
\* four messages for a queue of three.
Runs == INSTANCE RunController WITH
  Observer <- {o1}, MaxRun <- 3, Retained <- 2, MaxEvents <- 2, Buffer <- 2, MaxEmit <- 2,
  runs <- v1, kept <- v2, active <- v3, closed <- v4, watch <- v5, closing <- v6
Replay == INSTANCE RunController WITH
  Observer <- {o1, o2}, MaxRun <- 1, Retained <- 1, MaxEvents <- 2, Buffer <- 2, MaxEmit <- 5,
  runs <- v1, kept <- v2, active <- v3, closed <- v4, watch <- v5, closing <- v6
Inputs == INSTANCE PendingInput WITH
  Message <- {m1, m2, m3, m4}, Budget <- 3, MaxRun <- 2,
  host <- v1, active <- v2, messages <- v3, status <- v4, boundary <- v5, history <- v6, prompt <- v7

-----------------------------------------------------------------------------
\* The loop: two turns with up to two calls one after another; and one turn
\* with waves of up to three of four calls, of which some conflict.
TwoTurns == {<<>>, <<a>>, <<a, b>>}
OneTurn  == {<<>>, <<a, b, k3>>, <<k4, a>>, <<b, k3>>}

Loop == INSTANCE AgentLoop WITH Responses <- TwoTurns, Serial <- {}, Conflicts <- {}, Limit <- 1
Waves == INSTANCE AgentLoop WITH Responses <- OneTurn, MaxIter <- 1, MaxRun <- 1, MaxFault <- 1

\* What the properties take for the answers of models, in either.
AllTurns == TwoTurns \cup OneTurn
ASSUME LoopInstances == LoopAssumption /\ Loop!LoopAssumption /\ Waves!LoopAssumption

-----------------------------------------------------------------------------
\* A model call whose wrapper calls next three times, and a tool call with
\* three wrappers that call it twice.
Model == INSTANCE ModelCall WITH
  Calls <- {x1, x2, x3}, MaxChunks <- 2,
  inv <- v1, lease <- v2, wrapper <- v3, call <- v4, cb <- v5, result <- v6, shown <- v7, failed <- v8, late <- v9,
  overlap <- v10
Tool == INSTANCE ToolCall WITH
  Depth <- 3, MaxCalls <- 2,
  lease <- v1, wrapper <- v2, base <- v3, pc <- v4, result <- v5, executed <- v6, vetoed <- v7, wrong <- v8

-----------------------------------------------------------------------------
\* The event bus with a ring of two, and the sink of an engine with room for
\* one event.
Bus == INSTANCE EventBus WITH
  Publishers <- {e1, e2}, Readers <- {r1, r2}, RingSize <- 2, MaxEvents <- 3, MaxJoins <- 1,
  topic <- v1, pub <- v2, sub <- v3, log <- v4, told <- v5, heard <- v6, lagged <- v7, joins <- v8
Sink == INSTANCE EventSink WITH
  Producers <- {e1, e2}, Owners <- {o1, o2}, Room <- 1, MaxEmits <- 2,
  sink <- v1, emit <- v2, close <- v3, once <- v4, count <- v5, accepted <- v6, refused <- v7, read <- v8,
  ended <- v9, panicked <- v10
ASSUME RuntimeInstances ==
  /\ Policy!PermissionAssumption /\ Broker!PermissionAssumption
  /\ Bus!BusAssumption /\ Sink!SinkAssumption /\ Tool!ToolCallAssumption

-----------------------------------------------------------------------------
\* A graph: "a" leads to "b" and "c"; "b" Sends two "d"s, of which the first
\* routes back to "a" while the state is short; "c" updates and ends.  And one
\* in which "a" Sends itself for ever while "b" routes to itself.
To(n, s, mark) == [node |-> n, state |-> Append(s, mark)]
FanResult(n, s) ==
  IF n = "b" THEN [kind |-> "sends", sends |-> <<To("d", Append(s, n), "b1"), To("d", Append(s, n), "b2")>>]
  ELSE [kind |-> "update", state |-> Append(s, n)]
FanTargets(n, s) ==
  CASE n = "a" -> {"b", "c"}
    [] n = "d" /\ s[Len(s) - 1] = "b1" /\ Len(s) < 5 -> {"a"}
    [] OTHER -> {"end"}
LoopResult(n, s) ==
  IF n = "a" /\ Len(s) >= 2 THEN [kind |-> "sends", sends |-> <<To("a", <<1, 1>>, 1), To("b", <<>>, 1)>>]
  ELSE [kind |-> "update", state |-> <<1, 1>>]
LoopTargets(n, s) == {"a", "b"}

Fan == INSTANCE GraphEngine WITH
  NodeOrder <- <<"a", "b", "c", "d">>, Entry <- "a", End <- "end", Result <- FanResult, Targets <- FanTargets,
  HasMerge <- TRUE, MaxSteps <- 5, MaxParallel <- 2, MaxSendDepth <- 2, MaxTasks <- 20, MaxRetries <- 1,
  MaxFaults <- 2, MaxResumes <- 2,
  phase <- v1, state <- v2, frontier <- v3, step <- v4, budget <- v5, level <- v6, task <- v7, tries <- v8,
  finish <- v9, cancelled <- v10, saved <- v11, ran <- v12, faults <- v13, resumes <- v14
Cycle == INSTANCE GraphEngine WITH
  NodeOrder <- <<"a", "b">>, Entry <- "a", End <- "end", Result <- LoopResult, Targets <- LoopTargets,
  HasMerge <- FALSE, MaxSteps <- 3, MaxParallel <- 1, MaxSendDepth <- 2, MaxTasks <- 6, MaxRetries <- 1,
  MaxFaults <- 1, MaxResumes <- 1,
  phase <- v1, state <- v2, frontier <- v3, step <- v4, budget <- v5, level <- v6, task <- v7, tries <- v8,
  finish <- v9, cancelled <- v10, saved <- v11, ran <- v12, faults <- v13, resumes <- v14
Aggregate == INSTANCE GraphChannel WITH
  Writers <- {x1, x2, x3}, Kind <- "aggregate", Values <- {{1}, {2}, {1, 2}}, MaxCalls <- 2,
  channel <- v1, holder <- v2, w <- v3, calls <- v4, reduced <- v5, moves <- v6
Ephemeral == INSTANCE GraphChannel WITH
  Writers <- {x1, x2, x3}, Kind <- "ephemeral", Values <- {{1}, {2}, {1, 2}}, MaxCalls <- 2,
  channel <- v1, holder <- v2, w <- v3, calls <- v4, reduced <- v5, moves <- v6
ASSUME ChannelInstances == Aggregate!ChannelAssumption /\ Ephemeral!ChannelAssumption

-----------------------------------------------------------------------------
\* Shell processes: two calls, two attempts and what can interrupt them; and
\* one call, where other tools compete for the lock (which two calls do by
\* themselves) and waiting may also end too early.
Shell == INSTANCE ShellJobs WITH
  Caller <- {e1, e2}, MaxPerRun <- 2, MaxListed <- 2, MaxRun <- 2, MaxJob <- 2, MaxFault <- 1,
  NoHolder <- Nobody, ShellOps <- {"stuck", "reset", "close", "crash"},
  own <- v1, gate <- v2, attempt <- v3, call <- v4, job <- v5, tool <- v6, cleaner <- v7, closed <- v8, faults <- v9
Hasty == INSTANCE ShellJobs WITH
  Caller <- {e1}, MaxPerRun <- 2, MaxListed <- 2, MaxRun <- 2, MaxJob <- 2, MaxFault <- 1,
  NoHolder <- Nobody, ShellOps <- {"late", "stuck", "tool", "reset", "close", "crash"},
  own <- v1, gate <- v2, attempt <- v3, call <- v4, job <- v5, tool <- v6, cleaner <- v7, closed <- v8, faults <- v9
ASSUME ShellInstances == Shell!ShellAssumption /\ Hasty!ShellAssumption

\* Browsers: two, while runs end and the plugin is closed; and one, with two
\* calls, where waiting may also end too early.
Browser == INSTANCE BrowserRuns WITH
  Caller <- {e1}, Id <- {r1, r2}, MaxListed <- 2, MaxRun <- 2, MaxInst <- 2, MaxFault <- 1, Ops <- {"stuck"},
  run <- v1, plug <- v2, gate <- v3, act <- v4, inst <- v5, quiet <- v6, faults <- v7
HastyBrowser == INSTANCE BrowserRuns WITH
  Caller <- {e1, e2}, Id <- {a}, MaxListed <- 1, MaxRun <- 2, MaxInst <- 1, MaxFault <- 1, Ops <- {"late", "stuck"},
  run <- v1, plug <- v2, gate <- v3, act <- v4, inst <- v5, quiet <- v6, faults <- v7
ASSUME BrowserInstances == Browser!BrowserAssumption /\ HastyBrowser!BrowserAssumption

\* MCP servers: two, through a run; and one, with two calls, through two runs
\* where waiting may also end too early.
Servers == INSTANCE ManagedMcp WITH
  Caller <- {e1}, Server <- {r1, r2}, MaxRun <- 1, MaxWorker <- 3, MaxFault <- 1, Ops <- {"stuck"},
  run <- v1, plug <- v2, gate <- v3, act <- v4, srv <- v5, worker <- v6, quiet <- v7, faults <- v8
HastyServer == INSTANCE ManagedMcp WITH
  Caller <- {e1, e2}, Server <- {a}, MaxRun <- 2, MaxWorker <- 3, MaxFault <- 1, Ops <- {"late", "stuck"},
  run <- v1, plug <- v2, gate <- v3, act <- v4, srv <- v5, worker <- v6, quiet <- v7, faults <- v8
ASSUME ServerInstances == Servers!McpAssumption /\ HastyServer!McpAssumption

-----------------------------------------------------------------------------
WorkInit ==
  /\ LockInit /\ Init
  /\ \/ part \in {"locks", "loop", "waves"} /\ v1 = 0 /\ v2 = 0 /\ v3 = 0 /\ v4 = 0 /\ Init5
     \/ part = "policy" /\ Policy!Init /\ Init8
     \/ part = "broker" /\ Broker!Init /\ Init8
     \/ part = "runs" /\ Runs!Init /\ Init7
     \/ part = "replay" /\ Replay!Init /\ Init7
     \/ part = "inputs" /\ Inputs!Init /\ Init8
     \/ part = "model" /\ Model!Init /\ Init11
     \/ part = "tool" /\ Tool!Init /\ Init9
     \/ part = "bus" /\ Bus!BusInit /\ Init9
     \/ part = "sink" /\ Sink!SinkInit /\ Init11
     \/ part = "fan" /\ Fan!Init /\ Init15
     \/ part = "cycle" /\ Cycle!Init /\ Init15
     \/ part = "aggregate" /\ Aggregate!Init /\ Init7
     \/ part = "ephemeral" /\ Ephemeral!Init /\ Init7
     \/ part = "shell" /\ Shell!ShellInit /\ Init10
     \/ part = "hasty shell" /\ Hasty!ShellInit /\ Init10
     \/ part = "browser" /\ Browser!Init /\ Init8
     \/ part = "hasty browser" /\ HastyBrowser!Init /\ Init8
     \/ part = "servers" /\ Servers!Init /\ Init9
     \/ part = "hasty server" /\ HastyServer!Init /\ Init9

WorkNext ==
  \/ part = "locks" /\ LockNext /\ UNCHANGED <<vars, every>>
  \/ part = "loop" /\ Loop!Next /\ UNCHANGED <<lockVars, every>>
  \/ part = "waves" /\ Waves!Next /\ UNCHANGED <<lockVars, every>>
  \/ /\ UNCHANGED <<lockVars, vars>>
     /\ \/ part = "policy" /\ Policy!Next /\ Keep8
        \/ part = "broker" /\ Broker!Next /\ Keep8
        \/ part = "runs" /\ Runs!Next /\ Keep7
        \/ part = "replay" /\ Replay!Next /\ Keep7
        \/ part = "inputs" /\ Inputs!Next /\ Keep8
        \/ part = "model" /\ Model!Next /\ Keep11
        \/ part = "tool" /\ Tool!Next /\ Keep9
        \/ part = "bus" /\ Bus!BusNext /\ Keep9
        \/ part = "sink" /\ Sink!SinkNext /\ Keep11
        \/ part = "fan" /\ Fan!Next /\ Keep15
        \/ part = "cycle" /\ Cycle!Next /\ Keep15
        \/ part = "aggregate" /\ Aggregate!Next /\ Keep7
        \/ part = "ephemeral" /\ Ephemeral!Next /\ Keep7
        \/ part = "shell" /\ Shell!ShellNext /\ Keep10
        \/ part = "hasty shell" /\ Hasty!ShellNext /\ Keep10
        \/ part = "browser" /\ Browser!Next /\ Keep8
        \/ part = "hasty browser" /\ HastyBrowser!Next /\ Keep8
        \/ part = "servers" /\ Servers!Next /\ Keep9
        \/ part = "hasty server" /\ HastyServer!Next /\ Keep9

WorkSpec == WorkInit /\ [][WorkNext]_<<lockVars, vars, every>>

\* Publishers, producers, calls and the requests of one invocation; readers,
\* browsers and servers.
Symmetry == Permutations({e1, e2}) \cup Permutations({r1, r2})

-----------------------------------------------------------------------------
\* Nothing runs on a permission older than the policy, a user is asked once for
\* an invocation, everyone who waits is listed, and the broker never blocks.
ConsentIsCurrent ==
  /\ [](part = "policy" => Policy!PermissionTypeOK /\ Policy!RepliesFit /\ Policy!AskedOnce)
  /\ [](part = "broker" => Broker!PermissionTypeOK /\ Broker!RepliesFit /\ Broker!ListedIsWaiting)
  /\ [][part = "policy" => Policy!ConsentIsCurrent]_every

\* The active run can be found and stopped, its end is the last thing anybody
\* sees of it and is seen, without gaps; a pending message enters the session
\* at most once, and what the service says of it is true.
HostTellsTheTruth ==
  /\ [](part = "runs" => /\ Runs!ControllerTypeOK /\ Runs!ActiveIsKept /\ Runs!NobodyWaits /\ Runs!JoinedIsQuiet)
  /\ [](part = "replay" => Replay!EndIsLast /\ Replay!EndIsSeen)
  /\ [][part = "replay" => Replay!NoGap]_every
  /\ [](part = "inputs" => Inputs!StatusIsTrue /\ Inputs!CommittedOnce /\ Inputs!PromptIsCommitted)

\* Wrappers cannot turn a failure into a success, repeat a call of a tool,
\* patch a failed attempt of a model into another, or leave work behind.
CallsAreExact ==
  /\ part = "model" => /\ Model!ModelCallTypeOK /\ Model!NoPatchedSuccess /\ Model!NoLateChunk
                       /\ Model!OneAttemptAtATime /\ Model!ResultIsFinal
  /\ part = "tool" => /\ Tool!ToolCallTypeOK /\ Tool!ToolRunsOnce /\ Tool!FailureIsKept /\ Tool!VetoHolds
                      /\ Tool!ResultIsLast

\* A reader of the bus can tell every gap, which a full ring forced; the sink
\* loses nothing it accepted, and nobody sends on its closed channel.
EventsAreAccounted ==
  /\ part = "bus" => Bus!BusTypeOK /\ Bus!EveryGapIsTold /\ Bus!LagIsForced /\ Bus!NothingRetained
  /\ part = "sink" => Sink!SinkTypeOK /\ Sink!NoSendAfterClose /\ Sink!Lossless

\* Whatever order the nodes of a step finish in and however often a drive is
\* interrupted and resumed, steps and checkpoints are those of the sequential
\* graph, within the budgets, and channels lose no update.
GraphIsExact ==
  /\ part = "fan" => /\ Fan!GraphTypeOK /\ Fan!StepsAreExact /\ Fan!CheckpointsAreExact /\ Fan!ReturnsQuiet
  /\ part = "cycle" => Cycle!WithinBudget
  /\ part = "aggregate" => Aggregate!AggregateKeepsAll /\ Aggregate!VersionCountsChanges
  /\ part = "ephemeral" => Ephemeral!VersionCountsChanges

\* A shell process keeps the lock of all tools until it is reaped, has one end
\* in the journal, and outlives neither a failed run nor the application; no
\* browser or profile is forgotten before both are gone, and no MCP worker,
\* which is started once in a run.
ProcessesAreOwned ==
  /\ part = "shell" => /\ Shell!ShellTypeOK /\ Shell!ExclusionLasts /\ Shell!FactsAreFinal
                       /\ Shell!FailedRunIsReaped /\ Shell!ClosedIsQuiet
  /\ part = "hasty shell" => /\ Hasty!ShellTypeOK /\ Hasty!ExclusionLasts /\ Hasty!FactsAreFinal
                          /\ Hasty!FailedRunIsReaped /\ Hasty!ClosedIsQuiet
  /\ part = "browser" => /\ Browser!BrowserTypeOK /\ Browser!NothingForgotten /\ Browser!OutputIsOfItsRun
                         /\ Browser!BudgetIsReal /\ Browser!ClosedIsEmpty
  /\ part = "hasty browser" => /\ HastyBrowser!BrowserTypeOK /\ HastyBrowser!NothingForgotten
                               /\ HastyBrowser!OutputIsOfItsRun /\ HastyBrowser!BudgetIsReal
                               /\ HastyBrowser!ClosedIsEmpty
  /\ part = "servers" => /\ Servers!McpTypeOK /\ Servers!NothingForgotten /\ Servers!NoReconnect
                         /\ Servers!RecordsAreOfTheRun /\ Servers!ClosedIsEmpty
  /\ part = "hasty server" => /\ HastyServer!McpTypeOK /\ HastyServer!NothingForgotten /\ HastyServer!NoReconnect
                              /\ HastyServer!RecordsAreOfTheRun /\ HastyServer!ClosedIsEmpty

\* The shell of a session is frozen by live jobs; a dead one that failed will do.
FrozenByLiveJobs == part = "shell" => Shell!FrozenByLiveJobs

-----------------------------------------------------------------------------
(***************************************************************************)
(* What the agent runtime and its connections owe, in smaller instances    *)
(* under fairness: nothing that waits waits for ever.                      *)
(***************************************************************************)
LiveLocks == INSTANCE ToolLock WITH
  Task <- {"w", "rd", "par", "sub"}, MaxWaiters <- 3,
  Claim <- [w |-> [mode |-> "parallel", reads |-> {}, writes |-> {"a", "b"}],
            rd |-> [mode |-> "parallel", reads |-> {"a", "b"}, writes |-> {}],
            sub |-> [mode |-> "parallel", reads |-> {}, writes |-> {"a"}],
            par |-> [mode |-> "coordinator", reads |-> {}, writes |-> {"a"}]],
  ParentOf <- [t \in {"w", "rd", "par", "sub"} |-> IF t = "sub" THEN "par" ELSE Nobody],
  pc <- v1, cancelled <- v2, signal <- v3, active <- v4, ahead <- v5

\* Two requests of one invocation.
Asking == {"r1", "r2"}
LiveBroker == INSTANCE Permission WITH
  Request <- Asking, SessionOf <- [r \in Asking |-> "s"], ToolOf <- [r \in Asking |-> "write"],
  CallOf <- [r \in Asking |-> "c"],
  Mode <- {"ask"}, Capacity <- 2, MaxFlight <- 1, MaxChange <- 1, Ops <- {"close"},
  policy <- v1, cache <- v2, flights <- v3, req <- v4, broker <- v5, consent <- v6, epoch <- v7

LiveRuns == INSTANCE RunController WITH
  Observer <- {"o"}, MaxRun <- 2, Retained <- 1, MaxEvents <- 2, Buffer <- 1, MaxEmit <- 2,
  runs <- v1, kept <- v2, active <- v3, closed <- v4, watch <- v5, closing <- v6

LiveInputs == INSTANCE PendingInput WITH
  Message <- {"m1", "m2", "m3"}, Budget <- 2, MaxRun <- 2,
  host <- v1, active <- v2, messages <- v3, status <- v4, boundary <- v5, history <- v6, prompt <- v7

LiveLoop == INSTANCE AgentLoop WITH
  Calls <- {"a", "b"}, Responses <- {<<>>, <<"a", "b">>}, Serial <- {}, Conflicts <- {}, Limit <- 1,
  RecoverLimit <- 2, MaxIter <- 2, MaxRun <- 2, MaxFault <- 1,
  log <- v1, run <- v2, loop <- v3, tool <- v4, began <- v5, faults <- v6

LiveModel == INSTANCE ModelCall WITH
  Calls <- {"x1", "x2"}, MaxChunks <- 2,
  inv <- v1, lease <- v2, wrapper <- v3, call <- v4, cb <- v5, result <- v6, shown <- v7, failed <- v8, late <- v9,
  overlap <- v10

LiveTool == INSTANCE ToolCall WITH
  Depth <- 3, MaxCalls <- 2,
  lease <- v1, wrapper <- v2, base <- v3, pc <- v4, result <- v5, executed <- v6, vetoed <- v7, wrong <- v8

LiveBus == INSTANCE EventBus WITH
  Publishers <- {"p"}, Readers <- {"r1", "r2"}, RingSize <- 2, MaxEvents <- 3, MaxJoins <- 1,
  topic <- v1, pub <- v2, sub <- v3, log <- v4, told <- v5, heard <- v6, lagged <- v7, joins <- v8

LiveSink == INSTANCE EventSink WITH
  Producers <- {"p1", "p2"}, Owners <- {"o1", "o2"}, Room <- 1, MaxEmits <- 2,
  sink <- v1, emit <- v2, close <- v3, once <- v4, count <- v5, accepted <- v6, refused <- v7, read <- v8,
  ended <- v9, panicked <- v10

\* A graph that Sends "a" to itself for ever, while "b" routes to itself.
LiveGraph == INSTANCE GraphEngine WITH
  NodeOrder <- <<"a", "b">>, Entry <- "a", End <- "end", Result <- LoopResult, Targets <- LoopTargets,
  HasMerge <- FALSE, MaxSteps <- 3, MaxParallel <- 1, MaxSendDepth <- 2, MaxTasks <- 6, MaxRetries <- 1,
  MaxFaults <- 1, MaxResumes <- 1,
  phase <- v1, state <- v2, frontier <- v3, step <- v4, budget <- v5, level <- v6, task <- v7, tries <- v8,
  finish <- v9, cancelled <- v10, saved <- v11, ran <- v12, faults <- v13, resumes <- v14

LiveAep == INSTANCE AepClient WITH
  Callers <- {"a1", "a2"}, Workers <- {worker}, Keys <- {key}, QueueLimit <- 1, MaxFrames <- 1,
  conn <- v1, gate <- v2, write <- v3, rpc <- v4, call <- v5, reader <- v6, queue <- v7, seen <- v8,
  worker <- v9, owner <- v10, pipe <- v11, sent <- v12, written <- v13, answers <- v14, recorded <- v15, acted <- v16

LiveAcp == INSTANCE AcpClient WITH
  Prompts <- {1}, Cancellers <- {canceller}, Workers <- {worker}, Keys <- {key}, HasHandler <- TRUE, MaxRequests <- 1,
  WriteLimit <- 2, CallbackLimit <- 1,
  failed <- v1, turn <- v2, cancelled <- v3, th <- v4, writes <- v5, writer <- v6, wire <- v7, replied <- v8,
  req <- v9, asked <- v10, table <- v11, callbacks <- v12

LiveMcp == INSTANCE McpClient WITH
  Callers <- {"a"}, Opener <- "open", Reader <- "reader", NoteLimit <- 1, MaxFrames <- 2,
  client <- v1, rpc <- v2, write <- v3, call <- v4, over <- v5, reader <- v6, notes <- v7, line <- v8,
  sent <- v9, wire <- v10

LiveShell == INSTANCE ShellJobs WITH
  Caller <- {"c"}, MaxPerRun <- 1, MaxListed <- 1, MaxRun <- 2, MaxJob <- 1, MaxFault <- 1, NoHolder <- Nobody,
  ShellOps <- {"reset", "close"},
  own <- v1, gate <- v2, attempt <- v3, call <- v4, job <- v5, tool <- v6, cleaner <- v7, closed <- v8, faults <- v9

LiveBrowser == INSTANCE BrowserRuns WITH
  Caller <- {"c"}, Id <- {"a"}, MaxListed <- 1, MaxRun <- 2, MaxInst <- 1, MaxFault <- 1, Ops <- {},
  run <- v1, plug <- v2, gate <- v3, act <- v4, inst <- v5, quiet <- v6, faults <- v7

LiveServers == INSTANCE ManagedMcp WITH
  Caller <- {"c"}, Server <- {"s"}, MaxRun <- 2, MaxWorker <- 2, MaxFault <- 1, Ops <- {},
  run <- v1, plug <- v2, gate <- v3, act <- v4, srv <- v5, worker <- v6, quiet <- v7, faults <- v8

-----------------------------------------------------------------------------
LiveInit ==
  /\ LockInit /\ Init
  /\ \/ part = "locks" /\ LiveLocks!LockInit /\ Init6
     \/ part = "broker" /\ LiveBroker!Init /\ Init8
     \/ part = "runs" /\ LiveRuns!Init /\ Init7
     \/ part = "inputs" /\ LiveInputs!Init /\ Init8
     \/ part = "loop" /\ LiveLoop!Init /\ Init7
     \/ part = "model" /\ LiveModel!Init /\ Init11
     \/ part = "tool" /\ LiveTool!Init /\ Init9
     \/ part = "bus" /\ LiveBus!BusInit /\ Init9
     \/ part = "sink" /\ LiveSink!SinkInit /\ Init11
     \/ part = "graph" /\ LiveGraph!Init /\ Init15
     \/ part = "aep" /\ LiveAep!Init
     \/ part = "acp" /\ LiveAcp!Init /\ Init13
     \/ part = "mcp" /\ LiveMcp!Init /\ Init11
     \/ part = "shell" /\ LiveShell!ShellInit /\ Init10
     \/ part = "browser" /\ LiveBrowser!Init /\ Init8
     \/ part = "servers" /\ LiveServers!Init /\ Init9

LiveNext ==
  /\ UNCHANGED <<lockVars, vars>>
  /\ \/ part = "locks" /\ LiveLocks!LockNext /\ Keep6
     \/ part = "broker" /\ LiveBroker!Next /\ Keep8
     \/ part = "runs" /\ LiveRuns!Next /\ Keep7
     \/ part = "inputs" /\ LiveInputs!Next /\ Keep8
     \/ part = "loop" /\ LiveLoop!Next /\ Keep7
     \/ part = "model" /\ LiveModel!Next /\ Keep11
     \/ part = "tool" /\ LiveTool!Next /\ Keep9
     \/ part = "bus" /\ LiveBus!BusNext /\ Keep9
     \/ part = "sink" /\ LiveSink!SinkNext /\ Keep11
     \/ part = "graph" /\ LiveGraph!Next /\ Keep15
     \/ part = "aep" /\ LiveAep!Next /\ Keep17
     \/ part = "acp" /\ LiveAcp!Next /\ Keep13
     \/ part = "mcp" /\ LiveMcp!Next /\ Keep11
     \/ part = "shell" /\ LiveShell!ShellNext /\ Keep10
     \/ part = "browser" /\ LiveBrowser!Next /\ Keep8
     \/ part = "servers" /\ LiveServers!Next /\ Keep9

\* Weak fairness, goroutine by goroutine.
GoOn ==
  /\ \A t \in {"w", "rd", "par", "sub"} : WF_every(part = "locks" /\ LiveLocks!TaskMoves(t) /\ Keep6)
  /\ \A r \in Asking : WF_every(part = "broker" /\ LiveBroker!Step(r) /\ Keep8)
  /\ \A i \in 1 .. 2 : WF_every(part = "runs" /\ LiveRuns!Ending(i) /\ Keep7)
  /\ WF_every(part = "runs" /\ LiveRuns!Joined /\ Keep7)
  /\ WF_every(part = "runs" /\ LiveRuns!Receive("o") /\ Keep7)
  /\ WF_every(part = "inputs" /\ LiveInputs!Committing /\ Keep8)
  /\ WF_every(part = "loop" /\ LiveLoop!Go /\ Keep7)
  /\ WF_every(part = "model" /\ LiveModel!WrapperMoves /\ Keep11)
  /\ \A c \in {"x1", "x2"} : /\ WF_every(part = "model" /\ LiveModel!AttemptMoves(c) /\ Keep11)
                             /\ WF_every(part = "model" /\ LiveModel!StreamEnds(c) /\ Keep11)
                             /\ WF_every(part = "model" /\ LiveModel!CallbackMoves(c) /\ Keep11)
  /\ WF_every(part = "tool" /\ LiveTool!CallMoves /\ Keep9)
  /\ \A l \in 1 .. 3 : WF_every(part = "tool" /\ LiveTool!WrapperMoves(l) /\ Keep9)
  /\ \A r \in {"r1", "r2"} : WF_every(part = "bus" /\ LiveBus!ReaderMoves(r) /\ Keep9)
  /\ \A p \in {"p1", "p2"} : WF_every(part = "sink" /\ LiveSink!EmitMoves(p) /\ Keep11)
  /\ \A o \in {"o1", "o2"} : WF_every(part = "sink" /\ LiveSink!CloseMoves(o) /\ Keep11)
  /\ WF_every(part = "graph" /\ LiveGraph!DriveMoves /\ Keep15)
  /\ \A i \in 1 .. 6 : WF_every(part = "graph" /\ LiveGraph!NodeMoves(i) /\ Keep15)
  /\ \A c \in LiveAep!Clients : WF_every(part = "aep" /\ LiveAep!CallMoves(c) /\ Keep17)
  /\ WF_every(part = "aep" /\ LiveAep!ReaderMoves /\ Keep17)
  /\ WF_every(part = "aep" /\ LiveAep!WorkerMoves(worker) /\ Keep17)
  /\ WF_every(part = "aep" /\ LiveAep!OwnerMoves /\ Keep17)
  /\ WF_every(part = "acp" /\ LiveAcp!PromptMoves(1) /\ Keep13)
  /\ WF_every(part = "acp" /\ LiveAcp!ThreadMoves(canceller) /\ Keep13)
  /\ WF_every(part = "acp" /\ LiveAcp!WorkerMoves(worker) /\ Keep13)
  /\ WF_every(part = "acp" /\ LiveAcp!WriterMoves /\ Keep13)
  /\ WF_every(part = "mcp" /\ LiveMcp!FailEnds /\ Keep11)
  /\ WF_every(part = "mcp" /\ LiveMcp!OpenMoves /\ Keep11)
  /\ WF_every(part = "mcp" /\ LiveMcp!ReaderMoves /\ Keep11)
  /\ \A c \in {"a", "open"} : WF_every(part = "mcp" /\ LiveMcp!CallMoves(c) /\ Keep11)
  /\ WF_every(part = "shell" /\ LiveShell!CallMoves("c") /\ Keep10)
  /\ WF_every(part = "shell" /\ 1 \in DOMAIN v5 /\ LiveShell!JobMoves(1) /\ Keep10)
  /\ \A k \in {"attempt", "reset", "close"} : WF_every(part = "shell" /\ LiveShell!CleanerMoves(k) /\ Keep10)
  /\ WF_every(part = "browser" /\ LiveBrowser!CallMoves("c") /\ Keep8)
  /\ \A k \in {"c", "end", "close"} : WF_every(part = "browser" /\ LiveBrowser!ActorMoves(k) /\ Keep8)
  /\ WF_every(part = "browser" /\ 1 \in DOMAIN v5 /\ LiveBrowser!Reap(1, FALSE) /\ Keep8)
  /\ WF_every(part = "browser" /\ 1 \in DOMAIN v5 /\ LiveBrowser!Written(1, FALSE) /\ Keep8)
  /\ WF_every(part = "servers" /\ LiveServers!CallMoves("c") /\ Keep9)
  /\ \A k \in {"c", "end", "close"} : WF_every(part = "servers" /\ LiveServers!ActorMoves(k) /\ Keep9)
  /\ \A w \in 1 .. 2 : WF_every(part = "servers" /\ w \in DOMAIN v6 /\ LiveServers!Exit(w, FALSE) /\ Keep9)

\* Strong fairness of what competes with others for a lock, a slot or a
\* channel: of each part, up to four goroutines.  The output of a browser that
\* is gone ends, and so does its reader.
Turn(k) ==
  \/ part = "locks" /\ LiveLocks!Release(<<"w", "rd", "par", "sub">>[k]) /\ Keep6
  \/ part = "bus" /\ k \in 1 .. 2 /\ LiveBus!Look(<<"r1", "r2">>[k]) /\ Keep9
  \/ part = "aep" /\ k \in 1 .. 3 /\ LiveAep!Begin(<<"a1", "a2", "shutdown">>[k]) /\ Keep17
  \/ part = "aep" /\ k = 4 /\ LiveAep!Answers(worker) /\ Keep17
  \/ part = "acp" /\ k \in 1 .. 3 /\ LiveAcp!Taking(<<1, canceller, worker>>[k]) /\ Keep13
  \/ part = "mcp" /\ k \in 1 .. 2 /\ LiveMcp!Turn(<<"a", "open">>[k]) /\ Keep11
  \/ part = "browser" /\ k = 1 /\ LiveBrowser!TakeGate("c") /\ Keep8
  \/ part = "browser" /\ k \in 2 .. 3 /\ LiveBrowser!Join(<<"c", "end", "close">>[k]) /\ Keep8
  \/ part = "servers" /\ k = 1 /\ LiveServers!TakeGate("c") /\ Keep9
  \/ part = "servers" /\ k \in 2 .. 3 /\ LiveServers!StopTakesGate(<<"c", "end", "close">>[k]) /\ Keep9
  \/ part = "browser" /\ k = 4 /\ 1 \in DOMAIN v5 /\ LiveBrowser!Drain(1) /\ Keep8

LiveSpec == LiveInit /\ [][LiveNext]_<<lockVars, vars, every>> /\ GoOn /\ \A k \in 1 .. 4 : SF_every(Turn(k))

-----------------------------------------------------------------------------
\* What waits, up to four of each part at a time.
Waits(k) ==
  CASE part = "locks" -> LiveLocks!Unserved(<<"w", "rd", "par", "sub">>[k])
    [] part = "broker" -> k <= 2 /\ LiveBroker!Unended(<<"r1", "r2">>[k])
    [] part = "runs" -> k = 1 /\ LiveRuns!Unjoined
    [] part = "inputs" -> k <= 3 /\ LiveInputs!Unsettled(<<"m1", "m2", "m3">>[k])
    [] part = "loop" -> k = 1 /\ LiveLoop!Unended
    [] part = "model" -> k = 1 /\ LiveModel!Unreturned
    [] part = "tool" -> k = 1 /\ LiveTool!Unreturned
    [] part = "bus" -> IF k <= 3 THEN LiveBus!Unheard("r1", k - 1) ELSE LiveBus!Unwoken("r1")
    [] part = "sink" -> k <= 2 /\ LiveSink!Unclosed(<<"o1", "o2">>[k])
    [] part = "graph" -> k = 1 /\ LiveGraph!Unended
    [] part = "aep" -> k <= 3 /\ IF k = 3 THEN LiveAep!Unclosed ELSE LiveAep!Unreturned(<<"a1", "a2">>[k])
    [] part = "acp" -> k <= 2 /\ IF k = 1 THEN LiveAcp!Unreturned(1) ELSE LiveAcp!Unanswered(1)
    [] part = "mcp" -> k <= 3 /\ IF k = 3 THEN LiveMcp!Unstopped ELSE LiveMcp!Unreturned(<<"a", "open">>[k])
    [] part = "shell" -> k <= 3 /\ LiveShell!Unclean(<<"attempt", "reset", "close">>[k])
    [] part = "browser" -> k <= 3 /\ LiveBrowser!Unreturned(<<"c", "end", "close">>[k])
    [] part = "servers" -> k <= 3 /\ LiveServers!Unreturned(<<"c", "end", "close">>[k])

\* Nothing waits for ever, whatever users, models, plugins and agents leave
\* out: calls for a lock, requests of a closed broker, Close, commits, runs,
\* drives, model and tool calls, readers, and the callers of a silent peer.
NothingWaitsForEver == \A k \in 1 .. 4 : Waits(k) ~> ~Waits(k)
=============================================================================
