-------------------------- MODULE MCTurnResources --------------------------
(***************************************************************************)
(* A small instance, for TLC, of what a turn of Bub works with: the        *)
(* container of its session (DockerPool), the tools of MCP servers on its  *)
(* agent (McpManager), what its ACP client sees and lends (AcpStreams,     *)
(* AcpSubagents), the budget of its context (ContextBudget) and the        *)
(* workers of its code (MontyPool).                                        *)
(* They share no variable, so a behaviour explores one of them while the   *)
(* others rest.                                                            *)
(***************************************************************************)
EXTENDS DockerPool, FiniteSetTheorems, SequenceTheorems, WellFoundedInduction, TLC, TLAPS

CONSTANTS e1, e2, e3, a,                \* environments that share container a
          configured, plugins, session, \* mcp.json, agent plugins, ACP session
          tool1, tool2, Turns, Own,
          Order, SessionBound, Servers, Config, OwnNames, Hosted,
          CodeCalls, MaxPools,
  MaxCalls, Commands, Rounds, MaxTurns, MaxCancels,
  SubTasks, Watchers, SubSessions, MaxFinished, MaxOpens,  \* subagents
  MaxTokens, Reserve, Models, Toolsets, ToolTokens, Sizes, MaxMessages \* the budget

\* scope: shared.  Keys share nothing, so one is enough.
SharedKey == [e \in Envs |-> a]

VARIABLES
  part,
  boot, link, serving, life, toClose, bindings, tools, turn, waits,
  cTurn, cMade, cCall, cRound, cStream, cJob, cResult, cTerminal, cFile, cCopy, cShown,
  cSaid, cTape, cReplayed, cTurns, cCancels,
  bSession, bOpens, bOwner, bStatus, bHandler, bAsked, bRuns, bFinished, bEmitter, bTold,
  bEnded, bClosedBy,
  gMessages, gNames, gRequest, gTold, gBaseline,
  mRun, mUses, mLock, mCurrent, mPool, mClosing, mCloses, mInner, mLate

\* Order and Config here: two tools, which every manager serves or one of them only.
AllManagers == <<configured, plugins, session>>
AllServers ==
  configured :> {tool1, tool2} @@ plugins :> {tool1} @@ session :> {tool1, tool2}
Mcp == INSTANCE McpManager

\* Rounds here: two bash calls at a time, one in the background with another tool, edits,
\* a kill.
Asked(tool, command) == [tool |-> tool, command |-> command]
AskedRounds == {<<Asked("bash", "x"), Asked("bash", "y")>>,
                <<Asked("background", "x"), Asked("other", "x")>>,
                <<Asked("edit", "x"), Asked("edit", "x")>>,
                <<Asked("edit", "x")>>, <<Asked("kill", "x")>>}
Streams == INSTANCE AcpStreams WITH
  turn <- cTurn, made <- cMade, call <- cCall, round <- cRound, stream <- cStream,
  job <- cJob, result <- cResult, terminal <- cTerminal, file <- cFile, copy <- cCopy,
  shown <- cShown, said <- cSaid, tape <- cTape, replayed <- cReplayed, turns <- cTurns,
  cancels <- cCancels

Subagents == INSTANCE AcpSubagents WITH
  Tasks <- SubTasks, Connections <- Watchers, Sessions <- SubSessions,
  session <- bSession, opens <- bOpens, owner <- bOwner, status <- bStatus,
  handler <- bHandler, asked <- bAsked, runs <- bRuns, finished <- bFinished,
  emitter <- bEmitter, told <- bTold, ended <- bEnded, closedBy <- bClosedBy

\* ToolTokens here: of a few tools, and of all.
FewAndAll == "few" :> 1 @@ "all" :> 3
Budget == INSTANCE ContextBudget WITH
  messages <- gMessages, names <- gNames, request <- gRequest, told <- gTold,
  baseline <- gBaseline

Code == INSTANCE MontyPool WITH
  Runs <- CodeCalls, MaxCloses <- 2,
  run <- mRun, uses <- mUses, lock <- mLock, current <- mCurrent, pool <- mPool,
  closing <- mClosing, closes <- mCloses, inner <- mInner, late <- mLate

ASSUME Resources ==
  /\ Mcp!McpManagerConstants /\ Code!MontyPoolConstants
  /\ Budget!ContextBudgetConstants /\ Streams!StreamsConstants
  /\ Subagents!SubagentsConstants

mcpVars == <<boot, link, serving, life, toClose, bindings, tools, turn, waits>>
cVars == <<cTurn, cMade, cCall, cRound, cStream, cJob, cResult, cTerminal, cFile, cCopy,
           cShown, cSaid, cTape, cReplayed, cTurns, cCancels>>
bVars == <<bSession, bOpens, bOwner, bStatus, bHandler, bAsked, bRuns, bFinished, bEmitter,
           bTold, bEnded, bClosedBy>>
gVars == <<gMessages, gNames, gRequest, gTold, gBaseline>>
mVars == <<mRun, mUses, mLock, mCurrent, mPool, mClosing, mCloses, mInner, mLate>>
allVars == <<part, vars, mcpVars, cVars, bVars, gVars, mVars>>

PartsInit ==
  /\ part \in {"container", "tools", "streams", "subagents", "budget", "code"}
  /\ Init /\ Mcp!Init /\ Streams!Init /\ Subagents!Init /\ Budget!Init /\ Code!Init
  \* The choice of the budget is made in its own behaviours only.
  /\ part = "budget" \/ gMessages = <<[id |-> 1, size |-> 1]>>

OfContainer(A) == part = "container" /\ A
                  /\ UNCHANGED <<part, mcpVars, cVars, bVars, gVars, mVars>>
OfTools(A)     == part = "tools" /\ A
                  /\ UNCHANGED <<part, vars, cVars, bVars, gVars, mVars>>
OfStreams(A)   == part = "streams" /\ A
                  /\ UNCHANGED <<part, vars, mcpVars, bVars, gVars, mVars>>
OfSubagents(A) == part = "subagents" /\ A
                  /\ UNCHANGED <<part, vars, mcpVars, cVars, gVars, mVars>>
OfBudget(A)    == part = "budget" /\ A
                  /\ UNCHANGED <<part, vars, mcpVars, cVars, bVars, mVars>>
OfCode(A)      == part = "code" /\ A
                  /\ UNCHANGED <<part, vars, mcpVars, cVars, bVars, gVars>>

PartsNext ==
  \/ \E e \in Envs : OfContainer(Acquire(e)) \/ OfContainer(Release(e))
  \/ \E t \in Tasks : OfContainer(Call(t)) \/ OfContainer(Step(t)) \/ OfContainer(Cancel(t))
  \/ \E c \in orphans : OfContainer(Orphan(c))
  \/ OfContainer(Crash)
  \/ OfTools(Mcp!Bootstraps) \/ OfTools(Mcp!Clients) \/ OfTools(Mcp!OfTurns)
  \/ OfStreams(Streams!TurnSteps) \/ OfStreams(Streams!Handlers)
  \/ \E t \in SubTasks, w \in Watchers :
       \* Connections are interchangeable; the first task is the one whose output is told.
       \/ /\ t = 1 => w = CHOOSE v \in Watchers : TRUE
          /\ \E s \in SubSessions : OfSubagents(Subagents!Starts(t, w, s))
       \/ OfSubagents(Subagents!AsksCancel(w, t))
  \/ OfSubagents(Subagents!Outputs(1))
  \/ \E t \in SubTasks :
       OfSubagents(Subagents!Handled(t)) \/ OfSubagents(Subagents!Finishes(t))
         \/ OfSubagents(Subagents!TellsEnd(t))
  \/ \E s \in SubSessions :
       \/ \E w \in Watchers : OfSubagents(Subagents!Ends(s, w))
       \/ OfSubagents(Subagents!Ended(s)) \/ OfSubagents(Subagents!Opens(s))
  \/ OfBudget(Budget!Next)
  \/ OfCode(Code!Next)

PartsSpec == PartsInit /\ [][PartsNext]_allVars

TurnSymmetry == Permutations(Turns)

-----------------------------------------------------------------------------
\* A container that calls use stays, and none is left behind: ContainerPool.  Nor is a pool
\* of code workers: monty_pool and close.
ContainersAreKept == UsedContainerStays /\ NothingIsLeftBehind /\ Code!PoolsAreOwned

\* No client of an MCP server leaks, a tool on the agent has a client to call, and managers
\* that have stopped leave the agent its own tools: MCPManager._bootstrap, bind_agent,
\* _restore_tools and stop.
McpIsSound == Mcp!ClientsAccountedFor /\ Mcp!BoundToolsAreLive /\ Mcp!OwnToolsReturn

\* The client sees the results, terminals and answers of its turns as what they are:
\* ACPStreamRouter.
StreamsAreTrue == Streams!StreamsAreTrue

\* bash releases its terminals and sequential edits are kept: ACPClientToolRuntime.
ClientToolsAreSound == Streams!ClientToolsAreSound

\* A connection lists the tasks it watches, and tells their ends once and last:
\* _publish_subagent_end, _end_subagents.
SubagentsAreKnown == Subagents!SubagentsAreKnown

\* The model is told to hand off when, and only when, its context runs out: before_llm_call.
HandoffIsTimely == Budget!HandoffIsTimely

-----------------------------------------------------------------------------
(* The proof that containers and pools are kept *)

\* Where a task has the lock of its object, and where it has it or waits for it.
Holding == {"rm", "run", "check", "undo", "remove"}
Queued == Holding \cup {"lock"}
\* The environments that have a share of k; a close that is not over.
Opened(k) == {e \in Envs : KeyOf[e] = k /\ status[e] = "open"}
IsCloser(c) == c \in Tasks /\ IsClose(c) /\ pc[c] # "idle"

\* The types of the variables.
ContainerTypes ==
  /\ DOMAIN pool \subseteq Keys
  /\ \A k \in DOMAIN pool : pool[k] \in [obj : Objs, users : Nat \ {0}]
  /\ held \in [Envs -> Objs \cup {None}]
  /\ status \in [Envs -> {"none", "open", "closed"}]
  /\ started \subseteq Objs
  /\ queue \in [Objs -> Seq(Tasks)]
  /\ pc \in [Tasks -> Labels]
  /\ docker \in [Keys -> Objs \cup {None, Stale}]
  /\ orphans \subseteq [kind : {"rm", "run"}, key : Keys, obj : Objs]
  /\ cut \subseteq Keys

\* The pool counts the open environments of a key, and they hold its object.
Shares ==
  /\ \A k \in Keys : IsFiniteSet(Opened(k))
  /\ \A k \in DOMAIN pool : pool[k].users = Cardinality(Opened(k)) /\ KeyOf[pool[k].obj] = k
  /\ \A e \in Envs : status[e] = "open" => KeyOf[e] \in DOMAIN pool /\ held[e] = pool[KeyOf[e]].obj
  /\ \A e \in Envs : status[e] # "none" => held[e] \in Envs /\ KeyOf[held[e]] = KeyOf[e]

\* A close goes on after its key has left the pool, one for a key, and every task at a lock
\* is of the object the pool or a close has.
Busy ==
  /\ \A t \in Tasks : pc[t] # "idle" => status[Env(t)] # "none"
  /\ \A t \in Tasks : IF IsClose(t) THEN pc[t] \in {"idle", "lock", "remove"} ELSE pc[t] # "remove"
  /\ \A c \in Tasks : IsCloser(c) => Key(c) \notin DOMAIN pool /\ status[Env(c)] = "closed"
  /\ \A c, d \in Tasks : IsCloser(c) /\ IsCloser(d) /\ Key(c) = Key(d) => c = d
  /\ \A t \in Tasks : pc[t] \in Queued =>
       \/ Key(t) \in DOMAIN pool /\ pool[Key(t)].obj = Obj(t)
       \/ Key(t) \notin DOMAIN pool /\ \E c \in Tasks : IsCloser(c) /\ Obj(c) = Obj(t)

\* The queue of a lock has its tasks once each, the holder first and a close last.
Queues ==
  /\ \A o \in Objs : \A i \in DOMAIN queue[o] :
       LET t == queue[o][i] IN
       /\ pc[t] \in Queued /\ Obj(t) = o
       /\ pc[t] \in Holding => i = 1
       /\ IsClose(t) => i = Len(queue[o])
       /\ \A j \in DOMAIN queue[o] : queue[o][j] = t => j = i
  /\ \A t \in Tasks : pc[t] \in Queued => \E i \in DOMAIN queue[Obj(t)] : queue[Obj(t)][i] = t

\* Who has started is in the pool or about to be removed, and not about to be started.
StartedObjects ==
  /\ \A o \in started :
       \/ KeyOf[o] \in DOMAIN pool /\ pool[KeyOf[o]].obj = o
       \/ /\ KeyOf[o] \notin DOMAIN pool
          /\ \E c \in Tasks : IsCloser(c) /\ Obj(c) = o /\ pc[c] = "lock"
  /\ \A t \in Tasks : pc[t] \in Holding => Obj(t) \notin started
  /\ \A t \in Tasks : pc[t] = "exec" /\ status[Env(t)] = "open" => Obj(t) \in started

\* Where no start was cut short, docker has the container of a started object, and no
\* other, except while one is started or removed.
Containers ==
  /\ \A c \in orphans : c.key \in cut
  /\ \A o \in started : KeyOf[o] \notin cut => docker[KeyOf[o]] = o
  /\ \A t \in Tasks : pc[t] = "check" /\ Key(t) \notin cut => docker[Key(t)] = Obj(t)
  /\ \A k \in Keys : k \notin cut /\ docker[k] \in Objs =>
       \/ docker[k] \in started /\ KeyOf[docker[k]] = k
       \/ \E t \in Tasks : Key(t) = k /\ pc[t] \in {"check", "undo", "remove"}

\* The inductive invariant of the containers.
ContainersInv == ContainerTypes /\ Shares /\ Busy /\ Queues /\ StartedObjects /\ Containers

\* A queue without one of its tasks.
LEMMA WithoutIs ==
  ASSUME NEW S, NEW q \in Seq(S), NEW i \in DOMAIN q
  PROVE  /\ Without(q, i) \in Seq(S) /\ Len(Without(q, i)) = Len(q) - 1
         /\ \A j \in 1 .. Len(q) - 1 : Without(q, i)[j] = IF j < i THEN q[j] ELSE q[j + 1]
<1>1. Len(q) - 1 \in Nat /\ DOMAIN q = 1 .. Len(q)
  OBVIOUS
<1>2. Without(q, i) \in [1 .. Len(q) - 1 -> S]
  BY <1>1 DEF Without
<1> QED
  BY <1>1, <1>2 DEF Without

\* A task is a call or the close of an environment.
LEMMA TaskFacts ==
  /\ \A t \in Tasks : Env(t) \in Envs
  /\ \A e \in Envs : <<e, "close">> \in Tasks /\ Env(<<e, "close">>) = e /\ IsClose(<<e, "close">>)
  /\ \A t \in Tasks : IsClose(t) => t = <<Env(t), "close">>
  /\ \A e \in Envs : KeyOf[e] \in Keys
  BY DEF Tasks, Env, IsClose, Keys

\* What touches no share keeps them.
LEMMA SharesKept ==
  ASSUME Shares, UNCHANGED <<pool, held, status>>
  PROVE  Shares'
<1>1. \A k : Opened(k)' = Opened(k)
  BY DEF Opened
<1> QED
  BY <1>1 DEF Shares

\* Who runs a docker command has the lock of its object, alone; and a close has it when
\* nothing else waits.
LEMMA LockFacts ==
  ASSUME ContainerTypes, Shares, Busy, Queues
  PROVE  /\ \A t \in Tasks : pc[t] \in Queued => Obj(t) \in Objs /\ KeyOf[Obj(t)] = Key(t)
         /\ \A t \in Tasks : pc[t] \in Holding => HasLock(t)
         /\ \A t, u \in Tasks :
              HasLock(t) /\ pc[t] \in Queued /\ pc[u] \in Holding /\ Obj(u) = Obj(t) => u = t
         /\ \A t, u \in Tasks :
              HasLock(t) /\ IsClose(t) /\ pc[t] \in Queued /\ pc[u] \in Queued /\ Obj(u) = Obj(t)
              => u = t
<1>1. \A t \in Tasks : pc[t] \in Queued => Obj(t) \in Objs /\ KeyOf[Obj(t)] = Key(t)
  BY TaskFacts, SMT DEF Shares, Busy, Queued, Holding, Objs, Obj, Key
<1>2. \A t \in Tasks : pc[t] \in Holding => HasLock(t)
  BY <1>1, SMT DEF Queues, Queued, HasLock
<1>3. \A t, u \in Tasks :
        HasLock(t) /\ pc[t] \in Queued /\ pc[u] \in Holding /\ Obj(u) = Obj(t) => u = t
  BY <1>2, SMT DEF HasLock
<1>4. \A t, u \in Tasks :
        HasLock(t) /\ IsClose(t) /\ pc[t] \in Queued /\ pc[u] \in Queued /\ Obj(u) = Obj(t)
              => u = t
  BY <1>1, SMT DEF Queues, HasLock
<1> QED
  BY <1>1, <1>2, <1>3, <1>4

\* The holder of a lock goes on.
LEMMA QueueMoves ==
  ASSUME ContainerTypes, Shares, Busy, Queues, NEW t \in Tasks, NEW label \in Holding,
         pc[t] \in Queued, HasLock(t),
         Goto(t, label), UNCHANGED <<held, queue>>
  PROVE  Queues'
<1> QED
  BY TaskFacts, SMT DEF ContainerTypes, Queues, Queued, HasLock, Goto, Obj

\* A call that is in no queue ends.
LEMMA QueueStays ==
  ASSUME ContainerTypes, Shares, Busy, Queues, NEW t \in Tasks, pc[t] \notin Queued,
         Goto(t, "idle"), UNCHANGED <<held, queue>>
  PROVE  Queues'
<1> QED
  BY SMT DEF Queues, Queued, Holding, Goto, Obj

\* A task leaves the queue of its lock, wherever in it it is.
LEMMA QueueLeaves ==
  ASSUME ContainerTypes, Shares, Busy, Queues, NEW t \in Tasks, NEW label \in {"idle", "exec"},
         pc[t] \in Queued,
         Goto(t, label), Unlock(t), UNCHANGED held
  PROVE  Queues' /\ queue' \in [Objs -> Seq(Tasks)]
<1> DEFINE q == queue[Obj(t)]
<1>0. Obj(t) \in Objs /\ q \in Seq(Tasks)
  BY LockFacts DEF ContainerTypes
<1>1. PICK i \in DOMAIN q : q[i] = t /\ queue' = [queue EXCEPT ![Obj(t)] = Without(q, i)]
  BY DEF Unlock
<1>2. /\ Without(q, i) \in Seq(Tasks) /\ Len(Without(q, i)) = Len(q) - 1
      /\ \A j \in 1 .. Len(q) - 1 : Without(q, i)[j] = IF j < i THEN q[j] ELSE q[j + 1]
  BY <1>0, <1>1, WithoutIs
<1>3. Queues'
  <2>1. ASSUME NEW o \in Objs, NEW k \in DOMAIN queue'[o], o # Obj(t)
        PROVE  /\ pc'[queue'[o][k]] \in Queued /\ held'[Env(queue'[o][k])] = o
               /\ pc'[queue'[o][k]] \in Holding => k = 1
               /\ IsClose(queue'[o][k]) => k = Len(queue'[o])
               /\ \A j \in DOMAIN queue'[o] : queue'[o][j] = queue'[o][k] => j = k
    BY <1>1, <2>1, SMT DEF Queues, Goto, Obj
  <2>2. ASSUME NEW k \in DOMAIN queue'[Obj(t)]
        PROVE  /\ pc'[queue'[Obj(t)][k]] \in Queued /\ held'[Env(queue'[Obj(t)][k])] = Obj(t)
               /\ pc'[queue'[Obj(t)][k]] \in Holding => k = 1
               /\ IsClose(queue'[Obj(t)][k]) => k = Len(queue'[Obj(t)])
               /\ \A j \in DOMAIN queue'[Obj(t)] : queue'[Obj(t)][j] = queue'[Obj(t)][k] => j = k
    <3> DEFINE w == Without(q, i)
    <3> DEFINE m == IF k < i THEN k ELSE k + 1
    <3>1. queue'[Obj(t)] = w /\ k \in 1 .. Len(q) - 1 /\ w[k] = q[m] /\ m \in DOMAIN q /\ m # i
      BY <1>0, <1>1, <1>2, <2>2, SMT DEF ContainerTypes
    <3>2. q[m] # t
      BY <1>0, <1>1, <3>1, SMT DEF Queues
    <3>3. /\ pc[q[m]] \in Queued /\ Obj(q[m]) = Obj(t)
          /\ pc[q[m]] \in Holding => m = 1
          /\ IsClose(q[m]) => m = Len(q)
          /\ \A j \in DOMAIN q : q[j] = q[m] => j = m
      BY <1>0, <3>1 DEF Queues
    <3>4. q[m] \in Tasks /\ pc'[q[m]] = pc[q[m]]
      BY <1>0, <3>1, <3>2, SMT DEF ContainerTypes, Goto
    <3>5. pc[q[m]] \in Holding => k = 1
      BY <1>0, <3>1, <3>3, SMTT(30)
    <3>6. IsClose(q[m]) => k = Len(w)
      BY <1>0, <1>1, <1>2, <3>1, <3>3, SMT
    <3>7. \A j \in DOMAIN w : w[j] = w[k] => j = k
      BY <1>0, <1>1, <1>2, <3>1, <3>3, SMTT(30)
    <3> QED
      BY <3>1, <3>3, <3>4, <3>5, <3>6, <3>7 DEF Obj
  <2>3. \A o \in Objs : \A k \in DOMAIN queue'[o] :
               /\ pc'[queue'[o][k]] \in Queued /\ held'[Env(queue'[o][k])] = o
               /\ pc'[queue'[o][k]] \in Holding => k = 1
               /\ IsClose(queue'[o][k]) => k = Len(queue'[o])
               /\ \A j \in DOMAIN queue'[o] : queue'[o][j] = queue'[o][k] => j = k
    BY <1>0, <2>1, <2>2
  <2>4. ASSUME NEW u \in Tasks, pc'[u] \in Queued
        PROVE  \E k \in DOMAIN queue'[held'[Env(u)]] : queue'[held'[Env(u)]][k] = u
    <3>1. u # t /\ pc[u] \in Queued
      BY <2>4, SMT DEF ContainerTypes, Goto, Queued, Holding
    <3>2. Obj(u) \in Objs /\ held'[Env(u)] = Obj(u)
      BY <3>1, LockFacts DEF Obj
    <3>3. PICK m \in DOMAIN queue[Obj(u)] : queue[Obj(u)][m] = u
      BY <3>1 DEF Queues
    <3>4. CASE Obj(u) # Obj(t)
      BY <1>0, <1>1, <3>2, <3>3, <3>4, SMT DEF ContainerTypes
    <3>5. CASE Obj(u) = Obj(t)
      <4> DEFINE w == Without(q, i)
      <4>1. m \in 1 .. Len(q) /\ m # i /\ queue'[Obj(t)] = w /\ i \in 1 .. Len(q)
        BY <1>0, <1>1, <3>1, <3>3, <3>5, SMT DEF ContainerTypes
      <4>2. CASE m < i
        <5>1. m \in 1 .. Len(q) - 1 /\ m \in DOMAIN w
          BY <1>0, <1>2, <4>1, <4>2, SMT
        <5> QED
          BY <1>0, <1>2, <3>2, <3>3, <3>5, <4>1, <4>2, <5>1, SMT
      <4>3. CASE m > i
        <5>1. m - 1 \in 1 .. Len(q) - 1 /\ m - 1 \in DOMAIN w /\ ~(m - 1 < i) /\ (m - 1) + 1 = m
          BY <1>0, <1>2, <4>1, <4>3, SMT
        <5>2. w[m - 1] = u
          BY <1>2, <3>3, <3>5, <5>1
        <5> QED
          BY <3>2, <3>5, <4>1, <5>1, <5>2
      <4> QED
        BY <1>0, <4>1, <4>2, <4>3, SMT
    <3> QED
      BY <3>4, <3>5
  <2> QED
    BY <2>3, <2>4 DEF Queues, Obj
<1> QED
  BY <1>0, <1>1, <1>2, <1>3, SMT DEF ContainerTypes

\* A task joins the end of a queue no close is in.
LEMMA QueueJoins ==
  ASSUME ContainerTypes, Shares, Busy, Queues, NEW t \in Tasks, pc[t] \notin Queued,
         NEW o \in Objs, Obj(t) = o,
         \A c \in Tasks : IsCloser(c) => Obj(c) # o,
         Goto(t, "lock"), queue' = [queue EXCEPT ![o] = Append(@, t)], UNCHANGED held
  PROVE  Queues' /\ queue' \in [Objs -> Seq(Tasks)]
<1>1. queue[o] \in Seq(Tasks) /\ queue'[o] = Append(queue[o], t) /\ queue' \in [Objs -> Seq(Tasks)]
      /\ \A p \in Objs : p # o => queue'[p] = queue[p]
  BY SMT DEF ContainerTypes
<1>2. /\ Len(queue'[o]) = Len(queue[o]) + 1 /\ DOMAIN queue'[o] = 1 .. Len(queue[o]) + 1
      /\ DOMAIN queue[o] = 1 .. Len(queue[o])
      /\ Len(queue[o]) \in Nat
      /\ queue'[o][Len(queue[o]) + 1] = t
      /\ \A j \in 1 .. Len(queue[o]) : queue'[o][j] = queue[o][j]
  BY <1>1, SMT
<1>3. \A j \in DOMAIN queue[o] : queue[o][j] \in Tasks /\ queue[o][j] # t /\ ~IsClose(queue[o][j])
  BY <1>1, SMT DEF Queues, IsCloser, Queued, Holding
<1>4. pc' = [pc EXCEPT ![t] = "lock"] /\ pc'[t] = "lock" /\ \A u \in Tasks : u # t => pc'[u] = pc[u]
  BY SMT DEF ContainerTypes, Goto
<1>5. ASSUME NEW p \in Objs, p # o, NEW k \in DOMAIN queue'[p]
        PROVE  /\ pc'[queue'[p][k]] \in Queued /\ held'[Env(queue'[p][k])] = p
               /\ pc'[queue'[p][k]] \in Holding => k = 1
               /\ IsClose(queue'[p][k]) => k = Len(queue'[p])
               /\ \A j \in DOMAIN queue'[p] : queue'[p][j] = queue'[p][k] => j = k
  BY <1>4, <1>5, SMT DEF Queues, Obj
<1>6. ASSUME NEW k \in DOMAIN queue'[o]
        PROVE  /\ pc'[queue'[o][k]] \in Queued /\ held'[Env(queue'[o][k])] = o
               /\ pc'[queue'[o][k]] \in Holding => k = 1
               /\ IsClose(queue'[o][k]) => k = Len(queue'[o])
               /\ \A j \in DOMAIN queue'[o] : queue'[o][j] = queue'[o][k] => j = k
  <2>1. CASE k = Len(queue[o]) + 1
    BY <1>1, <1>2, <1>3, <1>4, <1>6, <2>1, SMT DEF Queued, Holding, Obj
  <2>2. CASE k \in DOMAIN queue[o]
    BY <1>3, <1>4, SMT DEF Queues, Queued, Holding, Obj
  <2> QED
    BY <1>2, <1>6, <2>1, <2>2, SMT
<1>7. ASSUME NEW u \in Tasks, pc'[u] \in Queued
        PROVE  \E k \in DOMAIN queue'[held'[Env(u)]] : queue'[held'[Env(u)]][k] = u
  <2>1. CASE u = t
    BY <1>2, <2>1, SMT DEF Obj
  <2>2. CASE u # t
    <3>1. pc[u] \in Queued /\ Obj(u) \in Objs
      BY <1>4, <1>7, <2>2, LockFacts
    <3>2. PICK m \in DOMAIN queue[Obj(u)] : queue[Obj(u)][m] = u
      BY <3>1 DEF Queues
    <3> QED
      BY <1>1, <1>2, <3>1, <3>2, SMTT(30) DEF Obj
  <2> QED
    BY <2>1, <2>2
<1> QED
  BY <1>1, <1>5, <1>6, <1>7 DEF Queues, Obj

\* An environment takes a share: _ContainerPool.acquire.
LEMMA AcquireKeepsContainers ==
  ASSUME DockerPoolAssumption, ~Overlap, ContainersInv, NEW e \in Envs, Acquire(e)
  PROVE  ContainersInv'
<1>0. ContainerTypes /\ Shares /\ Busy /\ Queues /\ StartedObjects /\ Containers
  BY DEF ContainersInv
<1> DEFINE k == KeyOf[e]
<1> DEFINE entry == IF k \in DOMAIN pool THEN pool[k] ELSE [obj |-> e, users |-> 0]
<1>7. k \in Keys /\ status[e] = "none" /\ \A c \in Tasks : IsCloser(c) => Key(c) # k
  BY TaskFacts DEF Acquire, Closing, IsCloser
<1>8. /\ IsFiniteSet(Opened(k)) /\ e \notin Opened(k)
      /\ entry \in [obj : Objs, users : Nat] /\ KeyOf[entry.obj] = k
      /\ entry.users = Cardinality(Opened(k))
  <2>1. IsFiniteSet(Opened(k)) /\ e \notin Opened(k)
    BY <1>0, <1>7 DEF Shares, Opened
  <2>2. CASE k \in DOMAIN pool
    BY <1>0, <1>7, <2>1, <2>2, SMT DEF Shares, ContainerTypes
  <2>3. CASE k \notin DOMAIN pool
    <3>1. Opened(k) = {}
      BY <1>0, <2>3 DEF Shares, Opened
    <3> QED
      BY <2>1, <2>3, <3>1, FS_EmptySet, SMT DEF Objs
  <2> QED
    BY <2>2, <2>3
<1>9. /\ DOMAIN pool' = DOMAIN pool \cup {k}
      /\ pool'[k] = [obj |-> entry.obj, users |-> entry.users + 1]
      /\ \A j \in DOMAIN pool : j # k => pool'[j] = pool[j]
      /\ held' = [held EXCEPT ![e] = entry.obj] /\ status' = [status EXCEPT ![e] = "open"]
      /\ UNCHANGED <<started, queue, pc, docker, orphans, cut>>
  <2>1. entry = [obj |-> entry.obj, users |-> entry.users]
    BY <1>8
  <2>2. [entry EXCEPT !.users = @ + 1] = [obj |-> entry.obj, users |-> entry.users + 1]
    BY <2>1, SMT
  <2> QED
    BY <2>2 DEF Acquire, Put
<1>10. /\ \A u \in Tasks : pc[u] # "idle"
         => Env(u) # e /\ status'[Env(u)] = status[Env(u)] /\ held'[Env(u)] = held[Env(u)]
       /\ held'[e] = entry.obj /\ status'[e] = "open"
       /\ \A f \in Envs : f # e => held'[f] = held[f] /\ status'[f] = status[f]
  BY <1>0, <1>7, <1>9, TaskFacts, SMT DEF Busy, ContainerTypes
<1>11. \A u \in Tasks : pc[u] \in Queued /\ Key(u) = k => k \in DOMAIN pool
  <2>1. \A c \in Tasks : IsCloser(c) => KeyOf[Obj(c)] = Key(c)
    BY <1>0, TaskFacts DEF Busy, Shares, Obj, Key
  <2> QED
    BY <1>0, <1>7, <2>1, LockFacts DEF Busy
<1>1. ContainerTypes'
  <2>1. pool'[k] \in [obj : Objs, users : Nat \ {0}]
    BY <1>8, <1>9, SMT
  <2> QED
    BY <1>0, <1>7, <1>8, <1>9, <2>1, SMT DEF ContainerTypes
<1>2. Shares'
  <2>1. Opened(k)' = Opened(k) \cup {e} /\ \A j \in Keys : j # k => Opened(j)' = Opened(j)
    BY <1>10 DEF Opened
  <2>2. IsFiniteSet(Opened(k)') /\ Cardinality(Opened(k)') = entry.users + 1
    BY <1>8, <2>1, FS_AddElement
  <2>3. \A j \in Keys : IsFiniteSet(Opened(j)')
    <3> SUFFICES ASSUME NEW j \in Keys PROVE IsFiniteSet(Opened(j)')
      OBVIOUS
    <3>1. CASE j = k
      BY <2>2, <3>1
    <3>2. CASE j # k
      BY <1>0, <2>1, <3>2 DEF Shares
    <3> QED
      BY <3>1, <3>2
  <2>4. \A j \in DOMAIN pool' : pool'[j].users = Cardinality(Opened(j)') /\ KeyOf[pool'[j].obj] = j
    <3>1. pool'[k].users = entry.users + 1 /\ pool'[k].obj = entry.obj
      BY <1>9
    <3> SUFFICES ASSUME NEW j \in DOMAIN pool'
                 PROVE  pool'[j].users = Cardinality(Opened(j)') /\ KeyOf[pool'[j].obj] = j
      OBVIOUS
    <3>2. CASE j = k
      BY <1>8, <2>2, <3>1, <3>2
    <3>3. CASE j # k
      <4>1. j \in DOMAIN pool /\ pool'[j] = pool[j] /\ j \in Keys
        BY <1>0, <1>9, <3>3 DEF ContainerTypes
      <4> QED
        BY <1>0, <2>1, <3>3, <4>1 DEF Shares
    <3> QED
      BY <3>2, <3>3
  <2>5. \A f \in Envs :
          status'[f] = "open" => KeyOf[f] \in DOMAIN pool' /\ held'[f] = pool'[KeyOf[f]].obj
    <3>1. pool'[k].obj = entry.obj
      BY <1>9
    <3>2. k \in DOMAIN pool => entry.obj = pool[k].obj
      OBVIOUS
    <3> QED
      BY <1>0, <1>9, <1>10, <3>1, <3>2 DEF Shares
  <2>6. \A f \in Envs : status'[f] # "none" => held'[f] \in Envs /\ KeyOf[held'[f]] = KeyOf[f]
    BY <1>0, <1>8, <1>10 DEF Shares, Objs
  <2> QED
    BY <2>3, <2>4, <2>5, <2>6 DEF Shares
<1>3. Busy'
  <2>1. \A u \in Tasks : pc'[u] = pc[u] /\ Key(u)' = Key(u) /\ (IsCloser(u)' <=> IsCloser(u))
    BY <1>9 DEF IsCloser
  <2>2. \A u \in Tasks : pc[u] # "idle" => Obj(u)' = Obj(u)
    BY <1>10 DEF Obj
  <2>3. \A u \in Tasks :
          pc[u] \in Queued /\ k \in DOMAIN pool /\ Key(u) = k => pool'[k].obj = pool[k].obj
    BY <1>9
  <2>4. \A u \in Tasks : pc'[u] \in Queued =>
           \/ Key(u) \in DOMAIN pool' /\ pool'[Key(u)].obj = Obj(u)'
           \/ Key(u) \notin DOMAIN pool' /\ \E c \in Tasks : IsCloser(c)' /\ Obj(c)' = Obj(u)'
    <3> SUFFICES ASSUME NEW u \in Tasks, pc[u] \in Queued
                 PROVE  \/ Key(u) \in DOMAIN pool' /\ pool'[Key(u)].obj = Obj(u)'
                        \/ /\ Key(u) \notin DOMAIN pool'
                           /\ \E c \in Tasks : IsCloser(c)' /\ Obj(c)' = Obj(u)'
      BY <2>1
    <3>1. Obj(u)' = Obj(u)
      BY <2>2 DEF Queued, Holding
    <3>2. CASE Key(u) = k
      BY <1>0, <1>9, <1>11, <2>3, <3>1, <3>2 DEF Busy
    <3>3. CASE Key(u) # k
      BY <1>0, <1>9, <2>1, <2>2, <3>1, <3>3 DEF Busy, IsCloser
    <3> QED
      BY <3>2, <3>3
  <2>5. /\ \A u \in Tasks : pc'[u] # "idle" => status'[Env(u)] # "none"
        /\ \A u \in Tasks :
             IF IsClose(u) THEN pc'[u] \in {"idle", "lock", "remove"} ELSE pc'[u] # "remove"
    BY <1>0, <1>10, <2>1 DEF Busy
  <2>6. /\ \A c \in Tasks : IsCloser(c)' => Key(c) \notin DOMAIN pool' /\ status'[Env(c)] = "closed"
        /\ \A c, d \in Tasks : IsCloser(c)' /\ IsCloser(d)' /\ Key(c) = Key(d) => c = d
    BY <1>0, <1>7, <1>9, <1>10, <2>1, TaskFacts DEF Busy, IsCloser
  <2> QED
    BY <2>1, <2>4, <2>5, <2>6 DEF Busy
<1>4. Queues'
  <2>1. \A u \in Tasks : pc[u] \in Queued => Obj(u)' = Obj(u)
    BY <1>10 DEF Obj, Queued, Holding
  <2>2. \A o \in Objs : \A i \in DOMAIN queue[o] : queue[o][i] \in Tasks
    BY <1>0 DEF ContainerTypes
  <2> QED
    BY <1>0, <1>9, <2>1, <2>2 DEF Queues
<1>5. StartedObjects'
  <2>1. \A u \in Tasks :
          pc'[u] = pc[u] /\ (pc[u] # "idle" => Obj(u)' = Obj(u) /\ status'[Env(u)] = status[Env(u)])
    BY <1>9, <1>10 DEF Obj
  <2>2. \A o \in started : KeyOf[o] = k => k \in DOMAIN pool
    <3>1. \A c \in Tasks : IsCloser(c) => KeyOf[Obj(c)] = Key(c)
      BY <1>0, TaskFacts DEF Busy, Shares, Obj, Key
    <3> QED
      BY <1>0, <1>7, <3>1 DEF StartedObjects
  <2>3. \A o \in started :
       \/ KeyOf[o] \in DOMAIN pool' /\ pool'[KeyOf[o]].obj = o
       \/ /\ KeyOf[o] \notin DOMAIN pool'
          /\ \E c \in Tasks : IsCloser(c)' /\ Obj(c)' = o /\ pc'[c] = "lock"
    <3> SUFFICES ASSUME NEW o \in started
                 PROVE  \/ KeyOf[o] \in DOMAIN pool' /\ pool'[KeyOf[o]].obj = o
                        \/ /\ KeyOf[o] \notin DOMAIN pool'
                           /\ \E c \in Tasks : IsCloser(c)' /\ Obj(c)' = o /\ pc'[c] = "lock"
      BY <1>9
    <3>1. CASE KeyOf[o] = k
      BY <1>0, <1>9, <2>2, <3>1 DEF StartedObjects
    <3>2. CASE KeyOf[o] # k
      <4>1. \A c \in Tasks : IsCloser(c) => IsCloser(c)' /\ Obj(c)' = Obj(c)
        BY <2>1 DEF IsCloser
      <4> QED
        BY <1>0, <1>9, <2>1, <3>2, <4>1 DEF StartedObjects
    <3> QED
      BY <3>1, <3>2
  <2> QED
    BY <1>0, <1>9, <2>1, <2>3 DEF StartedObjects, Holding
<1>6. Containers'
  BY SMT DEF ContainersInv, Busy, Containers, Obj, Acquire
<1> QED
  BY <1>1, <1>2, <1>3, <1>4, <1>5, <1>6 DEF ContainersInv

\* One gives its share up, and with the last goes the entry of the pool.
LEMMA ReleaseKeepsContainers ==
  ASSUME DockerPoolAssumption, ~Overlap, ContainersInv, NEW e \in Envs, Release(e)
  PROVE  ContainersInv'
<1>0. ContainerTypes /\ Shares /\ Busy /\ Queues /\ StartedObjects /\ Containers
  BY DEF ContainersInv
<1> DEFINE k == KeyOf[e]
<1> DEFINE t == <<e, "close">>
<1>7. /\ k \in Keys /\ k \in DOMAIN pool /\ status[e] = "open" /\ held[e] = pool[k].obj
      /\ pool[k].obj \in Objs
      /\ KeyOf[pool[k].obj] = k
      /\ pool[k] \in [obj : Objs, users : Nat \ {0}] /\ pool[k].users = Cardinality(Opened(k))
      /\ IsFiniteSet(Opened(k)) /\ e \in Opened(k)
      /\ t \in Tasks /\ IsClose(t) /\ Env(t) = e
  BY <1>0, TaskFacts DEF Release, Shares, ContainerTypes, Opened
<1>8. \A c \in Tasks : IsCloser(c) => Key(c) # k
  BY <1>0, <1>7 DEF Busy
<1>9. /\ held' = held /\ status' = [status EXCEPT ![e] = "closed"]
      /\ UNCHANGED <<started, docker, orphans, cut>>
      /\ \/ /\ pool[k].users <= 1 /\ pool' = [j \in DOMAIN pool \ {k} |-> pool[j]]
            /\ queue' = [queue EXCEPT ![pool[k].obj] = Append(@, t)] /\ Goto(t, "lock")
         \/ /\ pool[k].users > 1 /\ UNCHANGED <<queue, pc>>
            /\ DOMAIN pool' = DOMAIN pool
            /\ pool'[k] = [obj |-> pool[k].obj, users |-> pool[k].users - 1]
            /\ \A j \in DOMAIN pool : j # k => pool'[j] = pool[j]
  <2>1. [pool[k] EXCEPT !.users = @ - 1] = [obj |-> pool[k].obj, users |-> pool[k].users - 1]
    BY <1>7, SMT
  <2>2. CASE pool[k].users <= 1
    BY <1>7, <2>2 DEF Release, ReleaseLast, Del, Goto
  <2>3. CASE ~(pool[k].users <= 1)
    <3>1. pool[k].users > 1
      BY <1>7, <2>3, SMT
    <3>2. UNCHANGED <<queue, pc>> /\ pool' = Put(k, [pool[k] EXCEPT !.users = @ - 1])
      BY <1>7, <2>3 DEF Release, ReleaseLast
    <3>3. DOMAIN pool' = DOMAIN pool /\ pool'[k] = [pool[k] EXCEPT !.users = @ - 1]
          /\ \A j \in DOMAIN pool : j # k => pool'[j] = pool[j]
      BY <1>7, <3>2 DEF Put
    <3> QED
      BY <2>1, <3>1, <3>2, <3>3 DEF Release
  <2> QED
    BY <2>2, <2>3
<1>10. /\ status'[e] = "closed" /\ \A f \in Envs : f # e => status'[f] = status[f]
       /\ Opened(k)' = Opened(k) \ {e} /\ \A j \in Keys : j # k => Opened(j)' = Opened(j)
  BY <1>0, <1>9, ZenonT(40) DEF Opened, ContainerTypes
<1>11. IsFiniteSet(Opened(k)') /\ Cardinality(Opened(k)') = pool[k].users - 1
  BY <1>7, <1>10, FS_RemoveElement
<1>12. pc[t] = "idle" /\ pc[t] \notin Queued /\ Obj(t) = pool[k].obj /\ Key(t) = k
  BY <1>7, <1>8, SMT DEF IsCloser, Key, Obj, Queued, Holding
<1>13. pool[k].users <= 1 => /\ pc'[t] = "lock" /\ IsCloser(t)' /\ k \notin DOMAIN pool'
                             /\ \A u \in Tasks : u # t => pc'[u] = pc[u]
  BY <1>0, <1>7, <1>9, SMT DEF Goto, IsCloser, ContainerTypes
<1>14. /\ pool[k].users > 1 => pc' = pc /\ pool'[k].obj = pool[k].obj /\ k \in DOMAIN pool'
       /\ \A j \in Keys : j # k => (j \in DOMAIN pool' <=> j \in DOMAIN pool)
       /\ \A j \in DOMAIN pool : j # k => pool'[j] = pool[j]
  BY <1>7, <1>9, SMT
<1>15. pool[k].users <= 1 \/ pool[k].users > 1
  BY <1>7, SMT
<1>1. ContainerTypes'
  <2>1. CASE pool[k].users <= 1
    <3>1. queue' \in [Objs -> Seq(Tasks)]
      <4>1. \A c \in Tasks : IsCloser(c) => Obj(c) # pool[k].obj
        BY <1>0, <1>7, TaskFacts DEF Busy, Shares, Obj, Key
      <4>2. queue' = [queue EXCEPT ![pool[k].obj] = Append(@, t)] /\ Goto(t, "lock")
        BY <1>7, <1>9, <2>1, SMTT(30)
      <4> QED
        BY <1>0, <1>7, <1>9, <1>12, <4>1, <4>2, QueueJoins
    <3>2. pool' = [j \in DOMAIN pool \ {k} |-> pool[j]] /\ Goto(t, "lock")
      BY <1>7, <1>9, <2>1, SMT
    <3> QED
      BY <1>0, <1>7, <1>9, <3>1, <3>2, SMT DEF ContainerTypes, Goto, Labels
  <2>2. CASE pool[k].users > 1
    <3>1. pool'[k] \in [obj : Objs, users : Nat \ {0}]
      <4>1. pool[k].users - 1 \in Nat \ {0}
        BY <1>7, <2>2, SMT
      <4> QED
        BY <1>7, <1>9, <1>15, <2>2, <4>1
    <3>2. /\ UNCHANGED <<queue, pc>> /\ DOMAIN pool' = DOMAIN pool
          /\ \A j \in DOMAIN pool : j # k => pool'[j] = pool[j]
      BY <1>7, <1>9, <2>2, SMT
    <3>3. \A j \in DOMAIN pool' : pool'[j] \in [obj : Objs, users : Nat \ {0}]
      BY <1>0, <3>1, <3>2 DEF ContainerTypes
    <3>4. status' \in [Envs -> {"none", "open", "closed"}]
      BY <1>0, <1>9 DEF ContainerTypes
    <3> QED
      BY <1>0, <1>9, <3>2, <3>3, <3>4 DEF ContainerTypes
  <2> QED
    BY <1>15, <2>1, <2>2
<1>2. Shares'
  <2>1. \A j \in Keys : IsFiniteSet(Opened(j)')
    BY <1>0, <1>10, <1>11, ZenonT(40) DEF Shares
  <2>2. \A j \in DOMAIN pool' : pool'[j].users = Cardinality(Opened(j)') /\ KeyOf[pool'[j].obj] = j
    <3>1. \A j \in DOMAIN pool' : j \in Keys /\ (j # k => j \in DOMAIN pool /\ pool'[j] = pool[j])
      BY <1>0, <1>7, <1>9, SMT DEF ContainerTypes
    <3>2. k \in DOMAIN pool' => pool'[k].users = pool[k].users - 1 /\ pool'[k].obj = pool[k].obj
      <4> SUFFICES ASSUME k \in DOMAIN pool'
                   PROVE  pool'[k].users = pool[k].users - 1 /\ pool'[k].obj = pool[k].obj
        OBVIOUS
      <4>1. pool[k].users > 1
        BY <1>13, <1>15
      <4>2. ~(pool[k].users <= 1)
        BY <1>7, <4>1, SMT
      <4>3. pool'[k] = [obj |-> pool[k].obj, users |-> pool[k].users - 1]
        BY <1>9, <4>2
      <4> QED
        BY <4>3
    <3> SUFFICES ASSUME NEW j \in DOMAIN pool'
                 PROVE  pool'[j].users = Cardinality(Opened(j)') /\ KeyOf[pool'[j].obj] = j
      OBVIOUS
    <3>3. CASE j = k
      BY <1>7, <1>11, <3>2, <3>3
    <3>4. CASE j # k
      BY <1>0, <1>10, <3>1, <3>4 DEF Shares
    <3> QED
      BY <3>3, <3>4
  <2>3. pool[k].users <= 1 => Opened(k)' = {}
    BY <1>7, <1>11, FS_EmptySet, SMT
  <2>4. \A f \in Envs :
          status'[f] = "open" => KeyOf[f] \in DOMAIN pool' /\ held'[f] = pool'[KeyOf[f]].obj
    <3> SUFFICES ASSUME NEW f \in Envs, status'[f] = "open"
                 PROVE  KeyOf[f] \in DOMAIN pool' /\ held'[f] = pool'[KeyOf[f]].obj
      OBVIOUS
    <3>1. f # e /\ status[f] = "open" /\ KeyOf[f] \in Keys
      BY <1>10, TaskFacts
    <3>2. CASE KeyOf[f] = k
      <4>1. f \in Opened(k)'
        BY <3>2 DEF Opened
      <4> QED
        BY <1>0, <1>9, <1>14, <1>15, <2>3, <3>1, <3>2, <4>1 DEF Shares
    <3>3. CASE KeyOf[f] # k
      BY <1>0, <1>9, <1>14, <3>1, <3>3 DEF Shares
    <3> QED
      BY <3>2, <3>3
  <2>5. \A f \in Envs : status'[f] # "none" => held'[f] \in Envs /\ KeyOf[held'[f]] = KeyOf[f]
    BY <1>0, <1>7, <1>9, <1>10 DEF Shares, Objs
  <2> QED
    BY <2>1, <2>2, <2>4, <2>5 DEF Shares
<1>3. Busy'
  <2>1. \A u \in Tasks : u # t => pc'[u] = pc[u] /\ (IsCloser(u)' <=> IsCloser(u))
    BY <1>13, <1>14, <1>15 DEF IsCloser
  <2>2. pc'[t] \in {"idle", "lock"} /\ (pc'[t] = "lock" => k \notin DOMAIN pool')
    BY <1>12, <1>13, <1>14, <1>15
  <2>3. /\ \A u \in Tasks : pc'[u] # "idle" => status'[Env(u)] # "none"
        /\ \A u \in Tasks :
             IF IsClose(u) THEN pc'[u] \in {"idle", "lock", "remove"} ELSE pc'[u] # "remove"
    BY <1>0, <1>7, <1>10, <2>1, <2>2, TaskFacts DEF Busy
  <2>4. \A c \in Tasks : IsCloser(c)' => Key(c) \notin DOMAIN pool' /\ status'[Env(c)] = "closed"
    <3>1. \A c \in Tasks : Key(c) \in Keys
      BY TaskFacts DEF Key
    <3> QED
      BY <1>0, <1>7, <1>8, <1>10, <1>12, <1>14, <2>1, <2>2, <3>1, TaskFacts DEF Busy, IsCloser
  <2>5. \A c, d \in Tasks : IsCloser(c)' /\ IsCloser(d)' /\ Key(c) = Key(d) => c = d
    BY <1>0, <1>8, <1>12, <2>1 DEF Busy
  <2>6. \A u \in Tasks : pc'[u] \in Queued =>
           \/ Key(u) \in DOMAIN pool' /\ pool'[Key(u)].obj = Obj(u)
           \/ Key(u) \notin DOMAIN pool' /\ \E c \in Tasks : IsCloser(c)' /\ Obj(c) = Obj(u)
    <3> SUFFICES ASSUME NEW u \in Tasks, pc'[u] \in Queued
                 PROVE  \/ Key(u) \in DOMAIN pool' /\ pool'[Key(u)].obj = Obj(u)
                        \/ /\ Key(u) \notin DOMAIN pool'
                           /\ \E c \in Tasks : IsCloser(c)' /\ Obj(c) = Obj(u)
      OBVIOUS
    <3>1. Key(u) \in Keys
      BY TaskFacts DEF Key
    <3>2. CASE u = t
      <4>1. IsCloser(t)' /\ k \notin DOMAIN pool'
        BY <1>12, <1>13, <1>14, <1>15, <3>2
      <4> QED
        BY <1>7, <1>12, <3>2, <4>1
    <3>3. CASE u # t /\ Key(u) = k
      <4>1. Obj(u) = pool[k].obj
        BY <1>0, <1>7, <2>1, <3>3 DEF Busy
      <4> QED
        BY <1>7, <1>12, <1>13, <1>14, <1>15, <3>3, <4>1
    <3>4. CASE u # t /\ Key(u) # k
      <4>1. \A c \in Tasks : IsCloser(c) => IsCloser(c)'
        BY <1>12, <2>1 DEF IsCloser
      <4> QED
        BY <1>0, <1>14, <2>1, <3>1, <3>4, <4>1 DEF Busy
    <3> QED
      BY <3>2, <3>3, <3>4
  <2>7. \A u \in Tasks : Obj(u)' = Obj(u) /\ Key(u)' = Key(u)
    BY <1>9 DEF Obj
  <2> QED
    BY <2>3, <2>4, <2>5, <2>6, <2>7 DEF Busy
<1>4. Queues'
  <2>1. CASE pool[k].users <= 1
    <3>1. \A c \in Tasks : IsCloser(c) => Obj(c) # pool[k].obj
      BY <1>0, <1>7, TaskFacts DEF Busy, Shares, Obj, Key
    <3>2. queue' = [queue EXCEPT ![pool[k].obj] = Append(@, t)] /\ Goto(t, "lock")
      BY <1>7, <1>9, <2>1, SMTT(30)
    <3> QED
      BY <1>0, <1>7, <1>9, <1>12, <3>1, <3>2, QueueJoins
  <2>2. CASE pool[k].users > 1
    <3>1. UNCHANGED <<queue, pc, held>>
      BY <1>7, <1>9, <2>2, SMT
    <3> QED
      BY <1>0, <3>1 DEF Queues, Obj
  <2> QED
    BY <1>15, <2>1, <2>2
<1>5. StartedObjects'
  <2>1. \A u \in Tasks : u # t => pc'[u] = pc[u]
    BY <1>13, <1>14, <1>15
  <2>2. started' = started /\ \A u \in Tasks : Obj(u)' = Obj(u)
    BY <1>9 DEF Obj
  <2>3. \A o \in started : KeyOf[o] \in Keys
    BY <1>0, TaskFacts DEF ContainerTypes, Objs
  <2>4. \A o \in started :
       \/ KeyOf[o] \in DOMAIN pool' /\ pool'[KeyOf[o]].obj = o
       \/ /\ KeyOf[o] \notin DOMAIN pool'
          /\ \E c \in Tasks : IsCloser(c)' /\ Obj(c) = o /\ pc'[c] = "lock"
    <3> SUFFICES ASSUME NEW o \in started
                 PROVE  \/ KeyOf[o] \in DOMAIN pool' /\ pool'[KeyOf[o]].obj = o
                        \/ /\ KeyOf[o] \notin DOMAIN pool'
                           /\ \E c \in Tasks : IsCloser(c)' /\ Obj(c) = o /\ pc'[c] = "lock"
      OBVIOUS
    <3>1. CASE KeyOf[o] = k
      <4>1. pool[k].obj = o
        BY <1>0, <1>7, <3>1 DEF StartedObjects
      <4> QED
        BY <1>7, <1>12, <1>13, <1>14, <1>15, <3>1, <4>1
    <3>2. CASE KeyOf[o] # k
      <4>1. \A c \in Tasks : IsCloser(c) => IsCloser(c)' /\ pc'[c] = pc[c]
        BY <1>12, <2>1 DEF IsCloser
      <4> QED
        BY <1>0, <1>14, <2>3, <3>2, <4>1 DEF StartedObjects
    <3> QED
      BY <3>1, <3>2
  <2>5. \A u \in Tasks : pc'[u] \in Holding => pc[u] \in Holding
    BY <1>13, <1>12, <1>14, <1>15, <2>1, SMT DEF Holding
  <2>6. \A u \in Tasks :
          pc'[u] = "exec" /\ status'[Env(u)] = "open" => pc[u] = "exec" /\ status[Env(u)] = "open"
    BY <1>10, <1>12, <1>13, <1>14, <1>15, <2>1, TaskFacts, SMT
  <2> QED
    BY <1>0, <2>2, <2>4, <2>5, <2>6 DEF StartedObjects
<1>6. Containers'
  <2>1. /\ UNCHANGED <<started, docker, orphans, cut>> /\ \A u \in Tasks : Obj(u)' = Obj(u)
        /\ \A u \in Tasks : u # t => pc'[u] = pc[u]
        /\ pc'[t] \in {"idle", "lock"} /\ pc[t] = "idle"
    BY <1>9, <1>12, <1>13, <1>14, <1>15 DEF Obj
  <2>2. \A u \in Tasks :
          pc'[u] \in {"check", "undo", "remove"} <=> pc[u] \in {"check", "undo", "remove"}
    BY <2>1
  <2> QED
    BY <1>0, <2>1, <2>2, SMT DEF Containers, Key
<1> QED
  BY <1>1, <1>2, <1>3, <1>4, <1>5, <1>6 DEF ContainersInv

\* A call asks for the lock,
LEMMA CallKeepsContainers ==
  ASSUME DockerPoolAssumption, ~Overlap, ContainersInv, NEW t \in Tasks, Call(t)
  PROVE  ContainersInv'
<1>0. ContainerTypes /\ Shares /\ Busy /\ Queues /\ StartedObjects /\ Containers
  BY DEF ContainersInv
<1>1. ContainerTypes'
  BY TaskFacts, SMT DEF ContainersInv, ContainerTypes, Shares, Obj, Labels, Call, Goto
<1>2. Shares'
  BY <1>0, SharesKept DEF Call
<1>3. Busy'
  BY TaskFacts, SMT DEF ContainersInv, Shares, Busy, IsCloser, Key, Obj, Call, Goto
<1>4. Queues'
  <2>1. /\ status[Env(t)] = "open" /\ Obj(t) \in Objs /\ Key(t) \in DOMAIN pool
        /\ Obj(t) = pool[Key(t)].obj /\ KeyOf[Obj(t)] = Key(t)
    BY <1>0, TaskFacts DEF Call, Shares, Obj, Key, Objs
  <2>2. \A c \in Tasks : IsCloser(c) => Obj(c) # Obj(t)
    <3>1. \A c \in Tasks : IsCloser(c) => Key(c) \notin DOMAIN pool /\ KeyOf[Obj(c)] = Key(c)
      BY <1>0, TaskFacts DEF Busy, Shares, Obj, Key
    <3> QED
      BY <2>1, <3>1
  <2> QED
    BY <1>0, <2>1, <2>2, QueueJoins DEF Call, Queued, Holding
<1>5. StartedObjects'
  BY SMT DEF ContainersInv, StartedObjects, IsCloser, Holding, Obj, Call, Goto
<1>6. Containers'
  BY LockFacts, SMT DEF ContainersInv, Containers, Obj, Call, Goto
<1> QED
  BY <1>1, <1>2, <1>3, <1>4, <1>5, <1>6 DEF ContainersInv

\* finds the container running,
LEMMA ReadyKeepsContainers ==
  ASSUME DockerPoolAssumption, ~Overlap, ContainersInv, NEW t \in Tasks, Ready(t)
  PROVE  ContainersInv'
<1>0. ContainerTypes /\ Shares /\ Busy /\ Queues /\ StartedObjects /\ Containers
  BY DEF ContainersInv
<1>1. ContainerTypes'
  <2>1. queue' \in [Objs -> Seq(Tasks)]
    BY <1>0, QueueLeaves DEF Ready, Queued, Holding
  <2> QED
    BY <1>0, <2>1, SMT DEF Ready, Goto, ContainerTypes, Labels
<1>2. Shares'
  BY <1>0, SharesKept DEF Ready
<1>3. Busy'
  BY SMT DEF ContainersInv, Busy, IsCloser, Queued, Obj, Ready, Goto
<1>4. Queues'
  BY <1>0, QueueLeaves DEF Ready, Queued, Holding
<1>5. StartedObjects'
  BY SMT DEF ContainersInv, StartedObjects, IsCloser, Holding, Obj, Ready, Goto
<1>6. Containers'
  BY SMT DEF ContainersInv, Containers, Obj, Ready, Goto
<1> QED
  BY <1>1, <1>2, <1>3, <1>4, <1>5, <1>6 DEF ContainersInv

\* or starts it:
LEMMA StartKeepsContainers ==
  ASSUME DockerPoolAssumption, ~Overlap, ContainersInv, NEW t \in Tasks, Start(t)
  PROVE  ContainersInv'
<1>0. ContainerTypes /\ Shares /\ Busy /\ Queues /\ StartedObjects /\ Containers
  BY DEF ContainersInv
<1>1. ContainerTypes'
  BY SMT DEF ContainersInv, ContainerTypes, Labels, Start, Goto
<1>2. Shares'
  BY <1>0, SharesKept DEF Start
<1>3. Busy'
  BY SMT DEF ContainersInv, Busy, IsCloser, Queued, Obj, Start, Goto
<1>4. Queues'
  BY <1>0, LockFacts, QueueMoves DEF Start, Queued, Holding
<1>5. StartedObjects'
  BY SMT DEF ContainersInv, StartedObjects, IsCloser, Obj, Start, Goto
<1>6. Containers'
  <2>1. \A u \in Tasks : pc[u] \in {"check", "undo", "remove"} => pc'[u] = pc[u]
    BY <1>0, SMT DEF Start, Goto, ContainerTypes
  <2>2. pc' \in [Tasks -> Labels] /\ \A u \in Tasks : pc'[u] = "check" => pc[u] = "check"
    BY <1>0, SMT DEF Start, Goto, ContainerTypes, Labels
  <2> QED
    BY <1>0, <2>1, <2>2, SMT DEF Start, Containers, Obj
<1> QED
  BY <1>1, <1>2, <1>3, <1>4, <1>5, <1>6 DEF ContainersInv

\* a leftover is removed,
LEMMA ClearedKeepsContainers ==
  ASSUME DockerPoolAssumption, ~Overlap, ContainersInv, NEW t \in Tasks, Cleared(t)
  PROVE  ContainersInv'
<1>0. ContainerTypes /\ Shares /\ Busy /\ Queues /\ StartedObjects /\ Containers
  BY DEF ContainersInv
<1>1. ContainerTypes'
  BY TaskFacts, SMT DEF ContainersInv, ContainerTypes, Key, Labels, Cleared, Goto, Rm
<1>2. Shares'
  BY <1>0, SharesKept DEF Cleared
<1>3. Busy'
  BY SMT DEF ContainersInv, Busy, IsCloser, Holding, Queued, Obj, Cleared, Goto
<1>4. Queues'
  BY <1>0, LockFacts, QueueMoves DEF Cleared, Queued, Holding
<1>5. StartedObjects'
  BY SMT DEF ContainersInv, StartedObjects, IsCloser, Holding, Obj, Cleared, Goto
<1>6. Containers'
  BY TaskFacts, <1>0, LockFacts, SMT
  DEF ContainersInv, Busy, StartedObjects, Containers, IsCloser, Holding, Queued, Objs, Obj,
      Cleared, Goto, Rm
<1> QED
  BY <1>1, <1>2, <1>3, <1>4, <1>5, <1>6 DEF ContainersInv

\* docker run succeeds
LEMMA RunOkKeepsContainers ==
  ASSUME DockerPoolAssumption, ~Overlap, ContainersInv, NEW t \in Tasks, RunOk(t)
  PROVE  ContainersInv'
<1>0. ContainerTypes /\ Shares /\ Busy /\ Queues /\ StartedObjects /\ Containers
  BY DEF ContainersInv
<1>1. ContainerTypes'
  BY TaskFacts, SMT DEF ContainersInv, ContainerTypes, Key, Obj, Labels, RunOk, Goto, Run
<1>2. Shares'
  BY <1>0, SharesKept DEF RunOk
<1>3. Busy'
  BY SMT DEF ContainersInv, Busy, IsCloser, Holding, Queued, Obj, RunOk, Goto
<1>4. Queues'
  BY <1>0, LockFacts, QueueMoves DEF RunOk, Queued, Holding
<1>5. StartedObjects'
  BY SMT DEF ContainersInv, StartedObjects, IsCloser, Holding, Obj, RunOk, Goto
<1>6. Containers'
  BY TaskFacts, SMT
  DEF ContainersInv, ContainerTypes, Shares, Busy, Containers, Objs, Key, Obj, RunOk, Goto, Run,
      CanRun
<1> QED
  BY <1>1, <1>2, <1>3, <1>4, <1>5, <1>6 DEF ContainersInv

\* or fails,
LEMMA RunFailsKeepsContainers ==
  ASSUME DockerPoolAssumption, ~Overlap, ContainersInv, NEW t \in Tasks, RunFails(t)
  PROVE  ContainersInv'
<1>0. ContainerTypes /\ Shares /\ Busy /\ Queues /\ StartedObjects /\ Containers
  BY DEF ContainersInv
<1>1. ContainerTypes'
  <2>1. queue' \in [Objs -> Seq(Tasks)]
    BY <1>0, QueueLeaves DEF RunFails, Queued, Holding
  <2> QED
    BY <1>0, <2>1, SMT DEF RunFails, Goto, ContainerTypes, Labels
<1>2. Shares'
  BY <1>0, SharesKept DEF RunFails
<1>3. Busy'
  BY SMT DEF ContainersInv, Busy, IsCloser, Holding, Queued, Obj, RunFails, Goto
<1>4. Queues'
  BY <1>0, QueueLeaves DEF RunFails, Queued, Holding
<1>5. StartedObjects'
  BY LockFacts, SMT DEF ContainersInv, StartedObjects, IsCloser, Holding, Obj, RunFails, Goto
<1>6. Containers'
  BY SMT DEF ContainersInv, Containers, Obj, RunFails, Goto
<1> QED
  BY <1>1, <1>2, <1>3, <1>4, <1>5, <1>6 DEF ContainersInv

\* the mount is as expected
LEMMA CheckedKeepsContainers ==
  ASSUME DockerPoolAssumption, ~Overlap, ContainersInv, NEW t \in Tasks, Checked(t)
  PROVE  ContainersInv'
<1>0. ContainerTypes /\ Shares /\ Busy /\ Queues /\ StartedObjects /\ Containers
  BY DEF ContainersInv
<1>1. ContainerTypes'
  <2>1. queue' \in [Objs -> Seq(Tasks)]
    BY <1>0, QueueLeaves DEF Checked, Queued, Holding
  <2>2. Key(t) \in Keys /\ Obj(t) \in Objs
    BY <1>0, TaskFacts, LockFacts DEF Checked, Key, Queued, Holding
  <2> QED
    BY <1>0, <2>1, <2>2, SMT DEF Checked, Goto, ContainerTypes, Labels
<1>2. Shares'
  BY <1>0, SharesKept DEF Checked
<1>3. Busy'
  BY SMT DEF ContainersInv, Busy, IsCloser, Holding, Queued, Obj, Checked, Goto
<1>4. Queues'
  BY <1>0, QueueLeaves DEF Checked, Queued, Holding
<1>5. StartedObjects'
  BY <1>0, LockFacts, SMT
  DEF ContainerTypes, Busy, StartedObjects, IsCloser, Holding, Queued, Obj, Labels, Checked, Goto
<1>6. Containers'
  BY LockFacts, SMT DEF ContainersInv, Containers, Holding, Queued, Obj, Checked, Goto
<1> QED
  BY <1>1, <1>2, <1>3, <1>4, <1>5, <1>6 DEF ContainersInv

\* or is not,
LEMMA RefusedKeepsContainers ==
  ASSUME DockerPoolAssumption, ~Overlap, ContainersInv, NEW t \in Tasks, Refused(t)
  PROVE  ContainersInv'
<1>0. ContainerTypes /\ Shares /\ Busy /\ Queues /\ StartedObjects /\ Containers
  BY DEF ContainersInv
<1>1. ContainerTypes'
  BY SMT DEF ContainersInv, ContainerTypes, Labels, Refused, Goto
<1>2. Shares'
  BY <1>0, SharesKept DEF Refused
<1>3. Busy'
  BY SMT DEF ContainersInv, Busy, IsCloser, Holding, Queued, Obj, Refused, Goto
<1>4. Queues'
  BY <1>0, LockFacts, QueueMoves DEF Refused, Queued, Holding
<1>5. StartedObjects'
  BY SMT DEF ContainersInv, StartedObjects, IsCloser, Holding, Obj, Refused, Goto
<1>6. Containers'
  BY SMT DEF ContainersInv, Containers, Obj, Refused, Goto
<1> QED
  BY <1>1, <1>2, <1>3, <1>4, <1>5, <1>6 DEF ContainersInv

\* and the container is taken down again.
LEMMA UndoneKeepsContainers ==
  ASSUME DockerPoolAssumption, ~Overlap, ContainersInv, NEW t \in Tasks, Undone(t)
  PROVE  ContainersInv'
<1>0. ContainerTypes /\ Shares /\ Busy /\ Queues /\ StartedObjects /\ Containers
  BY DEF ContainersInv
<1>1. ContainerTypes'
  <2>1. queue' \in [Objs -> Seq(Tasks)]
    BY <1>0, QueueLeaves DEF Undone, Queued, Holding
  <2>2. Key(t) \in Keys /\ Obj(t) \in Objs
    BY <1>0, TaskFacts, LockFacts DEF Undone, Key, Queued, Holding
  <2> QED
    BY <1>0, <2>1, <2>2, SMT DEF Undone, Goto, Rm, ContainerTypes, Labels
<1>2. Shares'
  BY <1>0, SharesKept DEF Undone
<1>3. Busy'
  BY SMT DEF ContainersInv, Busy, IsCloser, Holding, Queued, Obj, Undone, Goto
<1>4. Queues'
  BY <1>0, QueueLeaves DEF Undone, Queued, Holding
<1>5. StartedObjects'
  BY SMT DEF ContainersInv, StartedObjects, IsCloser, Holding, Obj, Undone, Goto
<1>6. Containers'
  BY TaskFacts, <1>0, LockFacts, SMT
  DEF ContainersInv, ContainerTypes, Shares, Busy, StartedObjects, Containers, IsCloser, Holding,
      Queued, Objs, Key, Obj, Labels, Undone, Goto, Rm
<1> QED
  BY <1>1, <1>2, <1>3, <1>4, <1>5, <1>6 DEF ContainersInv

\* The docker exec answers.
LEMMA AnswerKeepsContainers ==
  ASSUME DockerPoolAssumption, ~Overlap, ContainersInv, NEW t \in Tasks, Answer(t)
  PROVE  ContainersInv'
<1>0. ContainerTypes /\ Shares /\ Busy /\ Queues /\ StartedObjects /\ Containers
  BY DEF ContainersInv
<1>1. ContainerTypes'
  BY SMT DEF ContainersInv, ContainerTypes, Labels, Answer, Goto
<1>2. Shares'
  BY <1>0, SharesKept DEF Answer
<1>3. Busy'
  BY SMT DEF ContainersInv, Busy, IsCloser, Holding, Queued, Obj, Answer, Goto
<1>4. Queues'
  BY <1>0, QueueStays DEF Answer, Queued, Holding
<1>5. StartedObjects'
  <2>1. pc[t] = "exec" /\ pc'[t] = "idle" /\ \A u \in Tasks : u # t => pc'[u] = pc[u]
    BY <1>0, SMT DEF Answer, Goto, ContainerTypes
  <2>2. ~IsClose(t) /\ \A c \in Tasks : IsCloser(c) => IsCloser(c)'
    BY <1>0, <2>1, SMT DEF Busy, IsCloser, IsClose
  <2> QED
    BY <1>0, <2>1, SMT DEF Answer, StartedObjects, Obj, Holding, IsCloser
<1>6. Containers'
  BY SMT DEF ContainersInv, Containers, Obj, Answer, Goto
<1> QED
  BY <1>1, <1>2, <1>3, <1>4, <1>5, <1>6 DEF ContainersInv

\* A call is cancelled wherever it waits.
LEMMA CancelKeepsContainers ==
  ASSUME DockerPoolAssumption, ~Overlap, ContainersInv, NEW t \in Tasks, Cancel(t)
  PROVE  ContainersInv'
<1>0. ContainerTypes /\ Shares /\ Busy /\ Queues /\ StartedObjects /\ Containers
  BY DEF ContainersInv
<1>1. ContainerTypes'
  <2>1. queue' \in [Objs -> Seq(Tasks)]
    <3>1. CASE pc[t] = "exec"
      BY <1>0, <3>1 DEF Cancel, ContainerTypes
    <3>2. CASE pc[t] # "exec"
      BY <1>0, <3>2, QueueLeaves DEF Cancel, Starting, Queued, Holding
    <3> QED
      BY <3>1, <3>2
  <2>2. orphans' \subseteq [kind : {"rm", "run"}, key : Keys, obj : Objs]
    BY <1>0, LockFacts, TaskFacts, SMT DEF Cancel, Lose, ContainerTypes, Queued, Holding, Key
  <2> QED
    BY <1>0, <2>1, <2>2, TaskFacts, SMT DEF Cancel, Goto, ContainerTypes, Labels, Key
<1>2. Shares'
  BY <1>0, SharesKept DEF Cancel
<1>3. Busy'
  BY SMT DEF ContainersInv, Busy, IsCloser, Holding, Queued, Obj, Cancel, Goto
<1>4. Queues'
  <2>1. CASE pc[t] = "exec"
    BY <1>0, <2>1, QueueStays DEF Cancel, Queued, Holding
  <2>2. CASE pc[t] # "exec"
    BY <1>0, <2>2, QueueLeaves DEF Cancel, Starting, Queued, Holding
  <2> QED
    BY <2>1, <2>2
<1>5. StartedObjects'
  BY TaskFacts, <1>0, LockFacts, SMT
  DEF ContainersInv, StartedObjects, IsCloser, Holding, Obj, Cancel, Goto
<1>6. Containers'
  BY SMT DEF ContainersInv, Containers, Obj, Cancel, Goto, Lose
<1> QED
  BY <1>1, <1>2, <1>3, <1>4, <1>5, <1>6 DEF ContainersInv

\* The last environment of a key closes, with nothing to remove,
LEMMA NotStartedKeepsContainers ==
  ASSUME DockerPoolAssumption, ~Overlap, ContainersInv, NEW t \in Tasks, NotStarted(t)
  PROVE  ContainersInv'
<1>0. ContainerTypes /\ Shares /\ Busy /\ Queues /\ StartedObjects /\ Containers
  BY DEF ContainersInv
<1>1. ContainerTypes'
  <2>1. queue' \in [Objs -> Seq(Tasks)]
    BY <1>0, QueueLeaves DEF NotStarted, Queued, Holding
  <2> QED
    BY <1>0, <2>1, SMT DEF NotStarted, Goto, ContainerTypes, Labels
<1>2. Shares'
  BY <1>0, SharesKept DEF NotStarted
<1>3. Busy'
  BY LockFacts, SMT DEF ContainersInv, Busy, IsCloser, Holding, Queued, Obj, NotStarted, Goto
<1>4. Queues'
  BY <1>0, QueueLeaves DEF NotStarted, Queued, Holding
<1>5. StartedObjects'
  <2>1. Obj(t) \notin started /\ pc'[t] = "idle" /\ \A u \in Tasks : u # t => pc'[u] = pc[u]
    BY <1>0, SMT DEF NotStarted, Goto, ContainerTypes
  <2>2. \A c \in Tasks : IsCloser(c) /\ Obj(c) \in started => IsCloser(c)' /\ pc'[c] = pc[c]
    BY <1>0, <2>1, SMT DEF IsCloser, IsClose
  <2>3. \A o \in started :
         \/ KeyOf[o] \in DOMAIN pool /\ pool[KeyOf[o]].obj = o
         \/ /\ KeyOf[o] \notin DOMAIN pool
            /\ \E c \in Tasks : IsCloser(c)' /\ Obj(c) = o /\ pc'[c] = "lock"
    BY <1>0, <2>2 DEF StartedObjects
  <2> QED
    BY <1>0, <2>1, <2>3, SMT DEF NotStarted, StartedObjects, Obj
<1>6. Containers'
  <2>1. pc[t] = "lock" /\ pc'[t] = "idle" /\ \A u \in Tasks : u # t => pc'[u] = pc[u]
    BY <1>0, SMT DEF NotStarted, Goto, ContainerTypes
  <2> QED
    BY <1>0, <2>1, SMT DEF NotStarted, Containers, Obj
<1> QED
  BY <1>1, <1>2, <1>3, <1>4, <1>5, <1>6 DEF ContainersInv

\* or with a container,
LEMMA RemoveKeepsContainers ==
  ASSUME DockerPoolAssumption, ~Overlap, ContainersInv, NEW t \in Tasks, Remove(t)
  PROVE  ContainersInv'
<1>0. ContainerTypes /\ Shares /\ Busy /\ Queues /\ StartedObjects /\ Containers
  BY DEF ContainersInv
<1>1. ContainerTypes'
  BY SMT DEF ContainersInv, ContainerTypes, Labels, Remove, Goto
<1>2. Shares'
  BY <1>0, SharesKept DEF Remove
<1>3. Busy'
  BY SMT DEF ContainersInv, Busy, IsCloser, Obj, Remove, Goto
<1>4. Queues'
  BY <1>0, LockFacts, QueueMoves DEF Remove, Queued, Holding
<1>5. StartedObjects'
  BY TaskFacts, LockFacts, SMT
  DEF ContainersInv, Shares, Busy, StartedObjects, IsCloser, Key, Obj, Remove, Goto
<1>6. Containers'
  BY LockFacts, SMT DEF ContainersInv, ContainerTypes, Containers, Queued, Obj, Remove, Goto
<1> QED
  BY <1>1, <1>2, <1>3, <1>4, <1>5, <1>6 DEF ContainersInv

\* which is removed.
LEMMA RemovedKeepsContainers ==
  ASSUME DockerPoolAssumption, ~Overlap, ContainersInv, NEW t \in Tasks, Removed(t)
  PROVE  ContainersInv'
<1>0. ContainerTypes /\ Shares /\ Busy /\ Queues /\ StartedObjects /\ Containers
  BY DEF ContainersInv
<1>1. ContainerTypes'
  <2>1. queue' \in [Objs -> Seq(Tasks)]
    BY <1>0, QueueLeaves DEF Removed, Queued, Holding
  <2>2. Key(t) \in Keys /\ Obj(t) \in Objs
    BY <1>0, TaskFacts, LockFacts DEF Removed, Key, Queued, Holding
  <2> QED
    BY <1>0, <2>1, <2>2, SMT DEF Removed, Goto, Rm, ContainerTypes, Labels
<1>2. Shares'
  BY <1>0, SharesKept DEF Removed
<1>3. Busy'
  BY LockFacts, SMT DEF ContainersInv, Busy, IsCloser, Holding, Queued, Obj, Removed, Goto
<1>4. Queues'
  BY <1>0, QueueLeaves DEF Removed, Queued, Holding
<1>5. StartedObjects'
  <2>1. pc[t] = "remove" /\ pc'[t] = "idle" /\ \A u \in Tasks : u # t => pc'[u] = pc[u]
    BY <1>0, SMT DEF Removed, Goto, ContainerTypes
  <2>2. Obj(t) \notin started
    BY <1>0, <2>1 DEF StartedObjects, Holding
  <2>3. \A c \in Tasks : IsCloser(c) /\ Obj(c) \in started => IsCloser(c)' /\ pc'[c] = pc[c]
    BY <1>0, <2>1, <2>2, SMT DEF IsCloser, IsClose
  <2>4. \A o \in started :
         \/ KeyOf[o] \in DOMAIN pool /\ pool[KeyOf[o]].obj = o
         \/ /\ KeyOf[o] \notin DOMAIN pool
            /\ \E c \in Tasks : IsCloser(c)' /\ Obj(c) = o /\ pc'[c] = "lock"
    BY <1>0, <2>3 DEF StartedObjects
  <2> QED
    BY <1>0, <2>1, <2>4, SMT DEF Removed, StartedObjects, Obj, Holding
<1>6. Containers'
  BY TaskFacts, <1>0, LockFacts, SMTT(30)
  DEF ContainersInv, ContainerTypes, Shares, Busy, StartedObjects, Containers, IsCloser, Holding,
      Queued, Objs, Key, Obj, Labels, Removed, Goto, Rm
<1> QED
  BY <1>1, <1>2, <1>3, <1>4, <1>5, <1>6 DEF ContainersInv

\* A docker command nobody waits for any more takes effect, or does not.
LEMMA OrphanKeepsContainers ==
  ASSUME DockerPoolAssumption, ~Overlap, ContainersInv, NEW c \in orphans, Orphan(c)
  PROVE  ContainersInv'
<1>0. ContainerTypes /\ Shares /\ Busy /\ Queues /\ StartedObjects /\ Containers
  BY DEF ContainersInv
<1>1. ContainerTypes'
  BY LockFacts, SMT
  DEF ContainersInv, ContainerTypes, Shares, Busy, IsCloser, Objs, Obj, Labels, Orphan, Rm, Run,
      CanRun
<1>2. Shares'
  BY <1>0, SharesKept DEF Orphan
<1>3. Busy'
  BY SMT DEF ContainersInv, Busy, IsCloser, Obj, Orphan
<1>4. Queues'
  BY SMT DEF ContainersInv, Queues, Obj, Orphan
<1>5. StartedObjects'
  BY SMT DEF ContainersInv, StartedObjects, IsCloser, Obj, Orphan
<1>6. Containers'
  <2>1. \A k \in Keys : k \notin cut => docker'[k] = docker[k]
    BY <1>0, SMT DEF Orphan, Rm, Run, Containers, ContainerTypes
  <2>2. /\ \A o \in started : KeyOf[o] \in Keys
        /\ \A t \in Tasks : Key(t) \in Keys
    BY <1>0, TaskFacts DEF ContainerTypes, Key, Objs
  <2> QED
    BY <1>0, <2>1, <2>2, SMT DEF Orphan, Containers, Obj
<1> QED
  BY <1>1, <1>2, <1>3, <1>4, <1>5, <1>6 DEF ContainersInv

\* Bub dies and starts again.
LEMMA CrashKeepsContainers ==
  ASSUME DockerPoolAssumption, ~Overlap, ContainersInv, Crash
  PROVE  ContainersInv'
<1>0. ContainerTypes /\ Shares /\ Busy /\ Queues /\ StartedObjects /\ Containers
  BY DEF ContainersInv
<1>1. ContainerTypes'
  BY SMT DEF ContainerTypes, Labels, Crash
<1>2. Shares'
  <2>1. \A k \in Keys : Opened(k)' = {}
    BY SMT DEF Crash, Opened
  <2>2. IsFiniteSet({})
    BY FS_EmptySet
  <2>3. DOMAIN pool' = {} /\ \A e \in Envs : status'[e] = "none"
    BY DEF Crash
  <2> QED
    BY <2>1, <2>2, <2>3, SMT DEF Shares
<1>3. Busy'
  BY SMT DEF Busy, IsCloser, Holding, Queued, Crash
<1>4. Queues'
  BY SMT DEF Queues, Holding, Queued, Crash
<1>5. StartedObjects'
  BY SMT DEF StartedObjects, Crash
<1>6. Containers'
  BY SMT DEF Containers, Objs, Crash
<1> QED
  BY <1>1, <1>2, <1>3, <1>4, <1>5, <1>6 DEF ContainersInv

\* Every step keeps the invariant.
LEMMA StepKeepsContainers ==
  ASSUME DockerPoolAssumption, ~Overlap, ContainersInv, [Next]_vars
  PROVE  ContainersInv'
<1>1. ASSUME NEW t \in Tasks, Step(t) PROVE ContainersInv'
  BY <1>1, ReadyKeepsContainers, StartKeepsContainers, ClearedKeepsContainers,
     RunOkKeepsContainers, RunFailsKeepsContainers, CheckedKeepsContainers,
     RefusedKeepsContainers, UndoneKeepsContainers, AnswerKeepsContainers,
     NotStartedKeepsContainers, RemoveKeepsContainers, RemovedKeepsContainers
  DEF Step
<1>2. CASE UNCHANGED vars
  <2>1. ContainerTypes' /\ Shares'
    BY <1>2 DEF vars, ContainersInv, ContainerTypes, Shares, Opened
  <2>2. Busy' /\ Queues'
    BY <1>2 DEF vars, ContainersInv, Busy, Queues, IsCloser, Key, Obj
  <2>3. StartedObjects' /\ Containers'
    BY <1>2 DEF vars, ContainersInv, StartedObjects, Containers, IsCloser, Key, Obj
  <2> QED
    BY <2>1, <2>2, <2>3 DEF ContainersInv
<1> QED
  BY <1>1, <1>2, AcquireKeepsContainers, ReleaseKeepsContainers, CallKeepsContainers,
     CancelKeepsContainers, OrphanKeepsContainers, CrashKeepsContainers
  DEF Next

\* The initial states satisfy it.
LEMMA NewContainers ==
  ASSUME DockerPoolAssumption, Init PROVE ContainersInv
<1>1. ContainerTypes
  <2>1. /\ DOMAIN pool = {} /\ started = {} /\ orphans = {} /\ cut = {}
        /\ held = [e \in Envs |-> None] /\ status = [e \in Envs |-> "none"]
        /\ queue = [o \in Objs |-> <<>>] /\ pc = [t \in Tasks |-> "idle"]
        /\ docker = [k \in Keys |-> None]
    BY DEF Init
  <2>2. <<>> \in Seq(Tasks)
    BY SMT
  <2>3. queue \in [Objs -> Seq(Tasks)]
    BY <2>1, <2>2
  <2>4. pc \in [Tasks -> Labels]
    BY <2>1 DEF Labels
  <2> QED
    BY <2>1, <2>3, <2>4 DEF ContainerTypes
<1>2. Shares
  <2>1. \A k \in Keys : Opened(k) = {}
    BY DEF Init, Opened
  <2> QED
    BY <2>1, FS_EmptySet DEF Init, Shares
<1>3. Busy
  BY TaskFacts DEF Init, Busy, IsCloser, Queued, Holding
<1>4. Queues
  <2>1. \A o \in Objs : DOMAIN queue[o] = {}
    BY DEF Init
  <2> QED
    BY <2>1 DEF Init, Queues, Queued, Holding
<1>5. StartedObjects /\ Containers
  BY DEF Init, StartedObjects, Containers, Holding, DockerPoolAssumption, Objs
<1> QED
  BY <1>1, <1>2, <1>3, <1>4, <1>5 DEF ContainersInv

\* A call that got past ensure_started uses a started object, whose container is there.
LEMMA UsedStay == ContainersInv => UsedContainerStays
<1> SUFFICES ASSUME ContainersInv, NEW t \in Tasks, pc[t] = "exec", status[Env(t)] = "open",
  Key(t) \notin cut
             PROVE  docker[Key(t)] = Obj(t)
  BY DEF UsedContainerStays
<1>1. Env(t) \in Envs
  BY TaskFacts
<1>2. KeyOf[Obj(t)] = Key(t)
  BY <1>1 DEF ContainersInv, Shares, Obj, Key
<1> QED
  BY <1>2 DEF ContainersInv, StartedObjects, Containers

\* A container that is left would be of a started object; that has a share in the pool or a
\* close that is still to remove it.
LEMMA NoneIsLeft ==
  ASSUME DockerPoolAssumption, ContainersInv PROVE NothingIsLeftBehind
<1> SUFFICES ASSUME NEW k \in Keys, Quiet(k), k \notin cut, docker[k] \notin {None, Stale}
             PROVE  FALSE
  BY DEF NothingIsLeftBehind
<1>1. docker[k] \in Objs
  BY DEF ContainersInv, ContainerTypes
<1>2. \A t \in Tasks : Key(t) = k => pc[t] = "idle"
  BY DEF Quiet
<1>3. docker[k] \in started /\ KeyOf[docker[k]] = k
  BY <1>1, <1>2 DEF ContainersInv, Containers
<1>4. CASE k \in DOMAIN pool
  <2>1. Opened(k) = {}
    BY DEF Quiet, Opened
  <2>2. pool[k].users = 0
    BY <1>4, <2>1, FS_EmptySet DEF ContainersInv, Shares
  <2> QED
    BY <1>4, <2>2 DEF ContainersInv, ContainerTypes
<1>5. CASE k \notin DOMAIN pool
  <2>1. PICK c \in Tasks : IsCloser(c) /\ Obj(c) = docker[k]
    BY <1>3, <1>5 DEF ContainersInv, StartedObjects
  <2>2. Key(c) = KeyOf[Obj(c)] /\ pc[c] # "idle"
    BY <2>1, TaskFacts DEF ContainersInv, Busy, Shares, Key, Obj, IsCloser
  <2> QED
    BY <1>2, <1>3, <2>1, <2>2
<1> QED
  BY <1>4, <1>5

\* A container a call uses stays while calls, closes, cancellations and refusals of other
\* environments of its key come and go, and none is left when the last has closed:
\* Container.ensure_started, Container.remove and _ContainerPool.  Closes do not overlap
\* with the next acquisition of their key.
THEOREM ContainersStay ==
  ASSUME ~Overlap PROVE Spec => [](UsedContainerStays /\ NothingIsLeftBehind)
<1>1. Init => ContainersInv
  BY DockerPoolAssumption, NewContainers
<1>2. ContainersInv /\ [Next]_vars => ContainersInv'
  BY DockerPoolAssumption, StepKeepsContainers
<1>3. ContainersInv => UsedContainerStays /\ NothingIsLeftBehind
  BY DockerPoolAssumption, UsedStay, NoneIsLeft
<1> QED
  BY <1>1, <1>2, <1>3, PTL DEF Spec

\* The types of the variables.
OwnerTypes ==
  /\ mRun \in [CodeCalls -> {"none", "lock", "starts", "checks", "runs", "over"}]
  /\ mUses \in [CodeCalls -> Code!Pools \cup {0}]
  /\ mLock \in CodeCalls \cup {0} /\ mCurrent \in Code!Pools \cup {0}
  /\ mPool \in [Code!Pools -> {"none", "starting", "open", "closing", "closed"}]
  /\ mClosing \in {"none", "pool", "inner"} /\ mCloses \in Nat

\* Whoever has the lock starts a pool, and only while there is none.
LockStarts ==
  /\ \A r \in CodeCalls : mLock = r <=> mRun[r] = "starts"
  /\ \A r \in CodeCalls :
       mRun[r] = "starts" => mUses[r] \in Code!Pools /\ mPool[mUses[r]] = "starting" /\ mCurrent = 0
\* The pool that is open is the one to be had.
OpenIsCurrent ==
  /\ \A p \in Code!Pools : mPool[p] = "open" => p = mCurrent
  /\ mCurrent # 0 => mPool[mCurrent] = "open"
\* A pool since a close belongs to a run that the close overlapped.
LateOwns ==
  /\ mClosing # "none" \/ mInner => mCloses > 0
  /\ mCloses > 0 => \A r \in CodeCalls : mRun[r] \in {"lock", "starts"} => r \in mLate
  /\ mCloses > 0 /\ mCurrent # 0
    => \E r \in CodeCalls \cap mLate : mUses[r] = mCurrent /\ mRun[r] # "lock" /\ mRun[r] # "none"

\* The inductive invariant of the pools.
PoolInv == OwnerTypes /\ LockStarts /\ OpenIsCurrent /\ LateOwns

\* Calls are named by numbers other than 0, which is nobody.
LEMMA CallsAreNumbers == 0 \notin CodeCalls /\ MaxPools \in Nat
  BY Resources DEF Code!MontyPoolConstants

\* Every step of the calls and of a close keeps the invariant.
LEMMA StepKeepsPools ==
  ASSUME PoolInv, [Code!Next]_mVars PROVE PoolInv'
<1>0. OwnerTypes /\ LockStarts /\ OpenIsCurrent /\ LateOwns
  BY DEF PoolInv
<1>1. ASSUME NEW r \in CodeCalls, Code!Begins(r) PROVE PoolInv'
  <2>1. OwnerTypes'
    BY <1>0, <1>1, SMT DEF Code!Begins, Code!Uses, Code!Goes, OwnerTypes
  <2>2. LockStarts'
    BY <1>0, <1>1, SMT DEF Code!Begins, Code!Uses, Code!Goes, OwnerTypes, LockStarts
  <2>3. OpenIsCurrent'
    BY <1>0, <1>1, SMT DEF Code!Begins, Code!Uses, Code!Goes, OwnerTypes, OpenIsCurrent
  <2>4. LateOwns'
    BY <1>0, <1>1, SMT DEF Code!Begins, Code!Uses, Code!Goes, OwnerTypes, LateOwns
  <2> QED
    BY <2>1, <2>2, <2>3, <2>4 DEF PoolInv
<1>2. ASSUME NEW r \in CodeCalls, Code!Locks(r) PROVE PoolInv'
  <2>1. OwnerTypes'
    BY <1>0, <1>2, CallsAreNumbers, SMT
    DEF Code!Locks, Code!Missing, Code!Uses, Code!Goes, OwnerTypes
  <2>2. LockStarts'
    BY <1>0, <1>2, CallsAreNumbers, SMT
    DEF Code!Locks, Code!Missing, Code!Uses, Code!Goes, OwnerTypes, LockStarts
  <2>3. OpenIsCurrent'
    BY <1>0, <1>2, SMT
    DEF Code!Locks, Code!Missing, Code!Uses, Code!Goes, OwnerTypes, OpenIsCurrent
  <2>4. LateOwns'
    BY <1>0, <1>2, CallsAreNumbers, SMT
    DEF Code!Locks, Code!Missing, Code!Uses, Code!Goes, OwnerTypes, LateOwns, LockStarts
  <2> QED
    BY <2>1, <2>2, <2>3, <2>4 DEF PoolInv
<1>3. ASSUME NEW r \in CodeCalls, Code!Started(r) PROVE PoolInv'
  <2>1. OwnerTypes'
    BY <1>0, <1>3, SMT DEF Code!Started, Code!Goes, OwnerTypes
  <2>2. LockStarts'
    BY <1>0, <1>3, CallsAreNumbers, SMT DEF Code!Started, Code!Goes, OwnerTypes, LockStarts
  <2>3. OpenIsCurrent'
    BY <1>0, <1>3, CallsAreNumbers, SMT
    DEF Code!Started, Code!Goes, OwnerTypes, OpenIsCurrent, LockStarts, Code!Pools
  <2>4. LateOwns'
    BY <1>0, <1>3, SMT DEF Code!Started, Code!Goes, OwnerTypes, LateOwns, LockStarts
  <2> QED
    BY <2>1, <2>2, <2>3, <2>4 DEF PoolInv
<1>4. ASSUME NEW r \in CodeCalls, Code!ChecksOut(r) \/ Code!Ends(r) PROVE PoolInv'
  <2>1. OwnerTypes'
    BY <1>0, <1>4, SMT DEF Code!ChecksOut, Code!Ends, Code!Goes, OwnerTypes
  <2>2. LockStarts'
    BY <1>0, <1>4, SMT DEF Code!ChecksOut, Code!Ends, Code!Goes, OwnerTypes, LockStarts
  <2>3. OpenIsCurrent'
    BY <1>0, <1>4, SMT DEF Code!ChecksOut, Code!Ends, Code!Goes, OpenIsCurrent
  <2>4. LateOwns'
    BY <1>0, <1>4, SMT DEF Code!ChecksOut, Code!Ends, Code!Goes, OwnerTypes, LateOwns
  <2> QED
    BY <2>1, <2>2, <2>3, <2>4 DEF PoolInv
<1>5. CASE Code!Closes
  <2>1. OwnerTypes'
    BY <1>0, <1>5, SMT DEF Code!Closes, OwnerTypes
  <2>2. LockStarts'
    BY <1>0, <1>5, SMT DEF Code!Closes, OwnerTypes, LockStarts, OpenIsCurrent
  <2>3. OpenIsCurrent'
    BY <1>0, <1>5, SMT DEF Code!Closes, OwnerTypes, OpenIsCurrent
  <2>4. LateOwns'
    BY <1>0, <1>5, SMT DEF Code!Closes, OwnerTypes, LateOwns
  <2> QED
    BY <2>1, <2>2, <2>3, <2>4 DEF PoolInv
<1>6. CASE Code!PoolClosed \/ Code!InnerClosed
  <2>1. OwnerTypes'
    BY <1>0, <1>6, SMT DEF Code!PoolClosed, Code!InnerClosed, OwnerTypes
  <2>2. LockStarts'
    BY <1>0, <1>6, SMT DEF Code!PoolClosed, Code!InnerClosed, OwnerTypes, LockStarts
  <2>3. OpenIsCurrent'
    BY <1>0, <1>6, SMT DEF Code!PoolClosed, Code!InnerClosed, OwnerTypes, OpenIsCurrent
  <2>4. LateOwns'
    BY <1>0, <1>6, SMT DEF Code!PoolClosed, Code!InnerClosed, OwnerTypes, LateOwns
  <2> QED
    BY <2>1, <2>2, <2>3, <2>4 DEF PoolInv
<1>7. CASE UNCHANGED mVars
  BY <1>7 DEF mVars, PoolInv, OwnerTypes, LockStarts, OpenIsCurrent, LateOwns
<1> QED
  BY <1>1, <1>2, <1>3, <1>4, <1>5, <1>6, <1>7 DEF Code!Next, Code!vars, mVars

\* An open pool of workers is the current one, and one that outlives a close is of a call
\* the close overlapped: monty_pool, run_code and close.
THEOREM PoolsHaveOwners == Code!Spec => []Code!PoolsAreOwned
<1>1. Code!Init => PoolInv
  BY CallsAreNumbers, SMT
  DEF Code!Init, PoolInv, OwnerTypes, LockStarts, OpenIsCurrent, LateOwns, Code!Pools
<1>2. PoolInv => Code!PoolsAreOwned
  BY SMT DEF PoolInv, LateOwns, OpenIsCurrent, Code!PoolsAreOwned
<1> QED
  BY <1>1, <1>2, StepKeepsPools, PTL DEF Code!Spec, Code!vars, mVars

\* A container that calls use stays, none is left behind, and no pool of code workers either:
\* ContainerPool, monty_pool and close, each in any behaviour of its own.
THEOREM ContainersAndPoolsAreKept ==
  ASSUME ~Overlap PROVE Spec /\ Code!Spec => []ContainersAreKept
<1>1. ContainersAreKept <=> (UsedContainerStays /\ NothingIsLeftBehind) /\ Code!PoolsAreOwned
  BY DEF ContainersAreKept
<1> QED
  BY <1>1, ContainersStay, PoolsHaveOwners, PTL

-----------------------------------------------------------------------------
(* The proof that the managers are sound *)

\* The types of the variables.
ManagerTypes ==
  /\ boot \in [Mcp!Managers -> {"none", "connecting", "done", "cancelling", "cancelled"}]
  /\ link \in [Mcp!Managers -> [Servers -> {"none", "opening", "up", "closing", "down"}]]
  /\ serving \in [Mcp!Managers -> SUBSET Servers]
  /\ life \in [Mcp!Managers -> {"up", "stopping", "released"}]
  /\ toClose \in [Mcp!Managers -> SUBSET Servers]
  /\ bindings = [m \in Mcp!Managers |-> bindings[m]]
  /\ tools = [n \in Servers |-> tools[n]]
  /\ turn \in [Turns -> 0 .. Mcp!RunningTurn]
  /\ waits \subseteq Turns

\* What a manager serves is connected; only one that is up and has bootstrapped serves.
ServesWhatIsUp ==
  \A m \in Mcp!Managers :
    /\ serving[m] # {} => boot[m] = "done" /\ life[m] = "up"
    /\ toClose[m] # {} => life[m] = "released"
    /\ boot[m] = "none" => life[m] = "up" /\ \A s \in Servers : link[m][s] = "none"
    /\ life[m] = "stopping" => boot[m] \in {"cancelling", "cancelled"}
    /\ life[m] = "released" => boot[m] \in {"done", "cancelled"}
    /\ \A s \in serving[m] : link[m][s] = "up"

\* The managers before one that has bound, or that a turn has reached, are bound.
Passed(i) ==
  boot[Order[i]] \notin {"none", "connecting"} /\ DOMAIN bindings[Order[i]] = serving[Order[i]]
BoundInOrder ==
  /\ \A t \in Turns : \A i \in DOMAIN Order : i < turn[t] /\ i # Len(Order) => Passed(i)
  /\ \A j \in DOMAIN Order : \A i \in 1 .. j - 1 : DOMAIN bindings[Order[j]] # {} => Passed(i)

\* A turn comes when the lifespans have started their managers.
Begun == \A t \in Turns : turn[t] # 0 => \A m \in Mcp!Managers \ SessionBound : boot[m] # "none"

\* A tool of a manager is one it has bound, an original is of a manager before.
Backed(n, tool) ==
  IF tool \in Mcp!Managers THEN n \in DOMAIN bindings[tool] ELSE tool = Mcp!OwnTools[n]
ToolsAreBacked ==
  /\ \A m \in Mcp!Managers : DOMAIN bindings[m] \subseteq serving[m]
  /\ \A n \in Servers : Backed(n, tools[n])
  /\ \A j \in DOMAIN Order : \A n \in DOMAIN bindings[Order[j]] :
       /\ Backed(n, bindings[Order[j]][n])
       /\ bindings[Order[j]][n] \in Mcp!Managers
         => \E i \in 1 .. j - 1 : bindings[Order[j]][n] = Order[i]

\* The inductive invariant of the managers.
ManagersInv ==
  /\ ManagerTypes /\ ServesWhatIsUp /\ Mcp!ClientsAccountedFor
  /\ Begun /\ BoundInOrder /\ ToolsAreBacked

\* The hosts' order, from the constants.
LEMMA HostsOrder ==
  /\ Order \in Seq(Mcp!Managers)
  /\ \A i, j \in DOMAIN Order : Order[i] = Order[j] => i = j
  /\ \A i \in DOMAIN Order : Order[i] \in SessionBound => i = Len(Order)
  BY Resources DEF Mcp!McpManagerConstants

\* The order is a sequence of all managers, each at one place.
LEMMA OrderFacts ==
  /\ Len(Order) \in Nat /\ DOMAIN Order = 1 .. Len(Order)
  /\ \A i \in DOMAIN Order : Order[i] \in Mcp!Managers
  /\ \A m \in Mcp!Managers : \E i \in DOMAIN Order : m = Order[i]
  /\ \A i, j \in DOMAIN Order : Order[i] = Order[j] => i = j
<1>1. Order \in Seq(Mcp!Managers)
  BY HostsOrder
<1> QED
  BY <1>1, HostsOrder DEF Mcp!Managers, Mcp!Range

\* What binds and unbinds nothing keeps the tools backed,
LEMMA ToolsKept ==
  ASSUME ToolsAreBacked, UNCHANGED <<bindings, tools>>,
         \A m \in Mcp!Managers : serving[m] \subseteq serving'[m]
  PROVE  ToolsAreBacked'
<1>1. \A n, tool : Backed(n, tool)' <=> Backed(n, tool)
  BY DEF Backed
<1> QED
  BY <1>1, SMT DEF ToolsAreBacked

\* and a turn that starts, ends or is interrupted passes no manager,
LEMMA OrderKept ==
  ASSUME BoundInOrder, UNCHANGED bindings, NEW t \in Turns, NEW place \in {0, 1, turn[t]},
         turn \in [Turns -> 0 .. Mcp!RunningTurn], turn' = [turn EXCEPT ![t] = place],
         \A m \in Mcp!Managers : boot[m] \notin {"none", "connecting"} =>
           boot'[m] \notin {"none", "connecting"} /\ serving'[m] = serving[m]
  PROVE  BoundInOrder'
<1>1. \A i \in DOMAIN Order : Passed(i) => Passed(i)'
  BY OrderFacts DEF Passed
<1>2. \A u \in Turns : \A i \in DOMAIN Order : i < turn'[u] => i < turn[u]
  BY OrderFacts, SMT
<1>3. \A j \in DOMAIN Order : \A i \in 1 .. j - 1 : i \in DOMAIN Order
  BY OrderFacts, SMT
<1> QED
  BY <1>1, <1>2, <1>3 DEF BoundInOrder

\* nor does what moves no turn.
LEMMA OrderStays ==
  ASSUME BoundInOrder, UNCHANGED <<bindings, turn>>,
         \A m \in Mcp!Managers : boot[m] \notin {"none", "connecting"} =>
           boot'[m] \notin {"none", "connecting"} /\ serving'[m] = serving[m]
  PROVE  BoundInOrder'
<1>1. \A i \in DOMAIN Order : Passed(i) => Passed(i)'
  BY OrderFacts DEF Passed
<1>2. \A j \in DOMAIN Order : \A i \in 1 .. j - 1 : i \in DOMAIN Order
  BY OrderFacts, SMT
<1> QED
  BY <1>1, <1>2 DEF BoundInOrder

\* A stop gives the bindings of a manager back; those after it have none to its tools.
LEMMA ReleaseKeeps ==
  ASSUME ManagersInv, NEW i \in DOMAIN Order, NEW m, m = Order[i], Mcp!Release(m),
         UNCHANGED <<boot, link, turn, waits>>,
         boot[m] \in {"done", "cancelled"}, life[m] # "released",
         \A j \in DOMAIN Order : i < j /\ DOMAIN bindings[m] # {} => DOMAIN bindings[Order[j]] = {}
  PROVE  ManagersInv'
<1>0. /\ ManagerTypes /\ ServesWhatIsUp /\ Mcp!ClientsAccountedFor /\ Begun /\ BoundInOrder
      /\ ToolsAreBacked
  BY DEF ManagersInv
<1>a. m \in Mcp!Managers
  BY OrderFacts
<1>b. /\ life' = [life EXCEPT ![m] = "released"] /\ toClose' = [toClose EXCEPT ![m] = serving[m]]
      /\ serving' = [serving EXCEPT ![m] = {}] /\ bindings' = [bindings EXCEPT ![m] = Mcp!Unbound]
      /\ tools' = [n \in Servers |-> IF n \in DOMAIN bindings[m] /\ tools[n] = m
                                     THEN bindings[m][n]
                                     ELSE tools[n]]
  BY DEF Mcp!Release, Mcp!Restored
<1>c. /\ DOMAIN bindings'[m] = {} /\ serving'[m] = {} /\ toClose[m] = {}
      /\ \A k \in Mcp!Managers : k # m => bindings'[k] = bindings[k] /\ serving'[k] = serving[k]
  BY <1>0, <1>a, <1>b DEF ManagerTypes, ServesWhatIsUp, Mcp!Unbound
<1>1. ManagerTypes'
  <2>1. bindings' = [k \in Mcp!Managers |-> bindings'[k]] /\ tools' = [n \in Servers |-> tools'[n]]
    BY <1>0, <1>a, <1>b DEF ManagerTypes
  <2> QED
    BY <1>0, <1>a, <1>b, <2>1, SMT DEF ManagerTypes
<1>2. ServesWhatIsUp'
  BY <1>0, <1>a, <1>b, SMT DEF ManagerTypes, ServesWhatIsUp
<1>3. Mcp!ClientsAccountedFor'
  BY <1>0, <1>a, <1>b, <1>c, SMT DEF ManagerTypes, Mcp!ClientsAccountedFor
<1>4. Begun'
  BY <1>0 DEF Begun
<1>5. BoundInOrder'
  <2>1. \A j \in DOMAIN Order : Passed(j) => Passed(j)'
    BY <1>c, OrderFacts DEF Passed
  <2>2. \A j \in DOMAIN Order : DOMAIN bindings'[Order[j]] # {} => DOMAIN bindings[Order[j]] # {}
    BY <1>c, OrderFacts
  <2>3. \A j \in DOMAIN Order : \A k \in 1 .. j - 1 : k \in DOMAIN Order
    BY OrderFacts, SMT
  <2> QED
    BY <1>0, <2>1, <2>2, <2>3 DEF BoundInOrder
<1>6. ToolsAreBacked'
  <2>1. \A n, tool : Backed(n, tool) /\ tool # m => Backed(n, tool)'
    BY <1>c DEF Backed
  <2>2. \A n \in DOMAIN bindings[m] : bindings[m][n] # m /\ Backed(n, bindings[m][n])
    <3>1. \A j \in 1 .. i - 1 : j \in DOMAIN Order /\ j # i
      BY OrderFacts, SMT
    <3> QED
      BY <1>0, <1>a, <3>1, OrderFacts DEF ToolsAreBacked
  <2>3. \A n \in Servers : n \in DOMAIN bindings[m] \/ tools[n] # m
    BY <1>0, <1>a DEF ToolsAreBacked, Backed
  <2>4. \A n \in Servers : Backed(n, tools[n])'
    BY <1>0, <1>b, <2>1, <2>2, <2>3 DEF ToolsAreBacked, Backed
  <2>5. \A k \in Mcp!Managers : DOMAIN bindings'[k] \subseteq serving'[k]
    BY <1>0, <1>c DEF ToolsAreBacked
  <2>6. ASSUME NEW j \in DOMAIN Order, NEW n \in DOMAIN bindings'[Order[j]]
        PROVE  /\ Backed(n, bindings[Order[j]][n])'
               /\ bindings'[Order[j]][n] \in Mcp!Managers
                 => \E h \in 1 .. j - 1 : bindings'[Order[j]][n] = Order[h]
    <3>1. Order[j] # m /\ bindings'[Order[j]] = bindings[Order[j]] /\ j # i
      BY <1>c, <2>6, OrderFacts
    <3>2. /\ Backed(n, bindings[Order[j]][n])
          /\ bindings[Order[j]][n] \in Mcp!Managers
            => \E h \in 1 .. j - 1 : bindings[Order[j]][n] = Order[h]
      BY <1>0, <2>6, <3>1 DEF ToolsAreBacked
    <3>3. bindings[Order[j]][n] # m
      <4>1. SUFFICES ASSUME bindings[Order[j]][n] = m PROVE FALSE
        OBVIOUS
      <4>2. PICK h \in 1 .. j - 1 : m = Order[h]
        BY <1>a, <3>2, <4>1
      <4>3. h \in DOMAIN Order /\ h < j
        BY OrderFacts, <4>2, SMT
      <4>4. h = i
        BY <4>2, <4>3, OrderFacts
      <4>5. n \in DOMAIN bindings[m]
        BY <1>a, <3>2, <4>1 DEF Backed
      <4> QED
        BY <2>6, <3>1, <4>3, <4>4, <4>5
    <3> QED
      BY <2>1, <3>1, <3>2, <3>3 DEF Backed
  <2> QED
    BY <2>4, <2>5, <2>6 DEF ToolsAreBacked
<1> QED
  BY <1>1, <1>2, <1>3, <1>4, <1>5, <1>6 DEF ManagersInv

\* A bootstrap that is cancelled closes what had connected.
LEMMA CancelKeeps ==
  ASSUME ManagersInv, NEW m \in Mcp!Managers, boot[m] = "connecting", life[m] = "up",
         Mcp!CancelsBootstrap(m),
         NEW to \in {"up", "stopping"}, life' = [life EXCEPT ![m] = to],
         UNCHANGED <<serving, toClose, bindings, tools, turn, waits>>
  PROVE  ManagersInv'
<1>0. /\ ManagerTypes /\ ServesWhatIsUp /\ Mcp!ClientsAccountedFor /\ Begun /\ BoundInOrder
      /\ ToolsAreBacked
  BY DEF ManagersInv
<1>1. ManagerTypes'
  BY <1>0, SMT DEF ManagerTypes, Mcp!CancelsBootstrap, Mcp!Relinked
<1>2. ServesWhatIsUp'
  BY <1>0, SMT DEF ManagerTypes, ServesWhatIsUp, Mcp!CancelsBootstrap
<1>3. Mcp!ClientsAccountedFor'
  BY <1>0, SMT DEF Mcp!ClientsAccountedFor, Mcp!CancelsBootstrap
<1>4. Begun'
  BY <1>0, SMT DEF ManagerTypes, Begun, Mcp!CancelsBootstrap
<1>5. BoundInOrder'
  BY <1>0, OrderStays, SMT DEF Mcp!CancelsBootstrap, ManagerTypes
<1>6. ToolsAreBacked'
  BY <1>0, ToolsKept DEF ManagersInv
<1> QED
  BY <1>1, <1>2, <1>3, <1>4, <1>5, <1>6 DEF ManagersInv

\* What comes before a place comes before the last.
LEMMA Earlier ==
  ASSUME NEW n \in Nat, NEW j \in 1 .. n
  PROVE  \A h \in 1 .. j - 1 : h \in 1 .. n /\ h < j /\ h # n
  BY SMT

\* A turn binds a manager after those before it: what its bindings replace is theirs.
LEMMA BindKeeps ==
  ASSUME ManagersInv, NEW i \in DOMAIN Order, NEW m, m = Order[i], Mcp!BindAgent(m),
         UNCHANGED <<boot, link, serving, life, toClose>>,
         boot[m] \notin {"none", "connecting"},
         NEW t \in Turns, turn[t] = i, turn' = [turn EXCEPT ![t] = @ + 1], waits' = waits \ {t}
  PROVE  ManagersInv'
<1>0. /\ ManagerTypes /\ ServesWhatIsUp /\ Mcp!ClientsAccountedFor /\ Begun /\ BoundInOrder
      /\ ToolsAreBacked
  BY DEF ManagersInv
<1>a. m \in Mcp!Managers
  BY OrderFacts
<1>b. DOMAIN bindings[m] \ serving[m] = {} /\ serving[m] \subseteq Servers
  BY <1>0, <1>a DEF ToolsAreBacked, ManagerTypes
<1>c. /\ DOMAIN bindings'[m] = serving[m]
      /\ \A n \in serving[m] :
           bindings'[m][n] = IF n \in DOMAIN bindings[m] THEN bindings[m][n] ELSE tools[n]
      /\ \A k \in Mcp!Managers : k # m => bindings'[k] = bindings[k]
      /\ bindings' = [k \in Mcp!Managers |-> bindings'[k]]
  BY <1>0, <1>a DEF Mcp!BindAgent, Mcp!Originals, ManagerTypes
<1>d. tools' = [n \in Servers |-> IF n \in serving[m] THEN m ELSE tools[n]]
  BY <1>0, <1>b DEF Mcp!BindAgent, Mcp!Installed, Mcp!Restored
<1>e. /\ turn'[t] = i + 1 /\ i + 1 \in 0 .. Mcp!RunningTurn
      /\ \A u \in Turns : u # t => turn'[u] = turn[u]
  BY <1>0, OrderFacts, SMT DEF ManagerTypes, Mcp!RunningTurn
<1>1. ManagerTypes'
  BY <1>0, <1>c, <1>d, <1>e, SMT DEF ManagerTypes
<1>2. ServesWhatIsUp'
  BY <1>0 DEF ServesWhatIsUp
<1>3. Mcp!ClientsAccountedFor'
  BY <1>0 DEF Mcp!ClientsAccountedFor
<1>4. Begun'
  BY <1>0, <1>e, OrderFacts, SMT DEF Begun
<1>f. Passed(i)'
  BY <1>c DEF Passed
<1>g. \A j \in DOMAIN Order : Passed(j) => Passed(j)'
  BY <1>c, <1>f, OrderFacts DEF Passed
<1>5. BoundInOrder'
  <2>1. \A u \in Turns : \A j \in DOMAIN Order : j < turn'[u] => j < turn[u] \/ j = i
    BY <1>0, <1>e, OrderFacts, SMT DEF ManagerTypes
  <2>2. \A u \in Turns : \A j \in DOMAIN Order : j < turn'[u] /\ j # Len(Order) => Passed(j)'
    BY <1>0, <1>f, <1>g, <2>1 DEF BoundInOrder
  <2>3. \A j \in DOMAIN Order : \A h \in 1 .. j - 1 : h \in DOMAIN Order /\ h < j /\ h # Len(Order)
    <3>1. Len(Order) \in Nat /\ DOMAIN Order = 1 .. Len(Order)
      BY OrderFacts
    <3> QED
      BY <3>1, Earlier
  <2>4. ASSUME NEW j \in DOMAIN Order, NEW h \in 1 .. j - 1, DOMAIN bindings'[Order[j]] # {}
        PROVE  Passed(h)'
    <3>1. CASE j = i
      BY <1>0, <1>g, <2>3, <3>1 DEF BoundInOrder
    <3>2. CASE j # i
      BY <1>0, <1>c, <1>g, <2>3, <2>4, <3>2, OrderFacts DEF BoundInOrder
    <3> QED
      BY <3>1, <3>2
  <2> QED
    BY <2>2, <2>4 DEF BoundInOrder
<1>6. ToolsAreBacked'
  <2>1. \A k \in Mcp!Managers : DOMAIN bindings[k] \subseteq DOMAIN bindings'[k]
    BY <1>0, <1>c DEF ToolsAreBacked
  <2>2. \A n, tool : Backed(n, tool) => Backed(n, tool)'
    BY <2>1 DEF Backed
  <2>3. \A n \in Servers : Backed(n, tools[n])'
    <3>1. \A n \in serving[m] : Backed(n, m)'
      BY <1>a, <1>c DEF Backed
    <3> QED
      BY <1>0, <1>d, <2>2, <3>1 DEF ToolsAreBacked, Backed
  <2>4. \A k \in Mcp!Managers : DOMAIN bindings'[k] \subseteq serving'[k]
    BY <1>0, <1>c DEF ToolsAreBacked
  <2>5. ASSUME NEW n \in serving[m] \ DOMAIN bindings[m], tools[n] \in Mcp!Managers
        PROVE  \E h \in 1 .. i - 1 : tools[n] = Order[h]
    <3>1. PICK h \in DOMAIN Order : tools[n] = Order[h]
      BY <2>5, OrderFacts
    <3>2. n \in DOMAIN bindings[Order[h]]
      BY <1>0, <1>b, <2>5, <3>1 DEF ToolsAreBacked, Backed
    <3>3. h # i
      BY <2>5, <3>2
    <3>4. ~(i < h)
      <4>1. i < h => i \in 1 .. h - 1
        BY OrderFacts, SMT
      <4> QED
        BY <1>0, <2>5, <3>2, <4>1 DEF BoundInOrder, Passed
    <3>5. h \in 1 .. i - 1
      BY <3>3, <3>4, OrderFacts, SMT
    <3> QED
      BY <3>1, <3>5
  <2>6. ASSUME NEW j \in DOMAIN Order, NEW n \in DOMAIN bindings'[Order[j]]
        PROVE  /\ Backed(n, bindings[Order[j]][n])'
               /\ bindings'[Order[j]][n] \in Mcp!Managers
                 => \E h \in 1 .. j - 1 : bindings'[Order[j]][n] = Order[h]
    <3>1. CASE Order[j] # m
      <4>1. bindings'[Order[j]] = bindings[Order[j]]
        BY <1>c, <3>1, OrderFacts
      <4> QED
        BY <1>0, <2>2, <2>6, <4>1 DEF ToolsAreBacked, Backed
    <3>2. CASE Order[j] = m /\ n \in DOMAIN bindings[m]
      <4>1. bindings'[m][n] = bindings[m][n] /\ j = i
        BY <1>c, <2>6, <3>2, OrderFacts
      <4> QED
        BY <1>0, <2>2, <3>2, <4>1 DEF ToolsAreBacked, Backed
    <3>3. CASE Order[j] = m /\ n \notin DOMAIN bindings[m]
      <4>1. bindings'[m][n] = tools[n] /\ j = i /\ n \in serving[m] /\ n \in Servers
        BY <1>b, <1>c, <2>6, <3>3, OrderFacts
      <4>2. IF tools[n] \in Mcp!Managers
            THEN n \in DOMAIN bindings'[tools[n]]
            ELSE tools[n] = Mcp!OwnTools[n]
        BY <1>0, <2>2, <4>1 DEF ToolsAreBacked, Backed
      <4> QED
        BY <2>5, <3>3, <4>1, <4>2 DEF Backed
    <3> QED
      BY <3>1, <3>2, <3>3
  <2> QED
    BY <2>3, <2>4, <2>6 DEF ToolsAreBacked
<1> QED
  BY <1>1, <1>2, <1>3, <1>4, <1>5, <1>6 DEF ManagersInv

\* A manager starts to connect;
LEMMA StartKeepsManagers ==
  ASSUME Hosted, ManagersInv, NEW m \in Mcp!Managers, Mcp!Start(m)
  PROVE  ManagersInv'
<1>0. /\ ManagerTypes /\ ServesWhatIsUp /\ Mcp!ClientsAccountedFor /\ Begun /\ BoundInOrder
      /\ ToolsAreBacked
  BY DEF ManagersInv
<1>1. ManagerTypes'
  BY <1>0, SMT DEF ManagerTypes, Mcp!Start
<1>2. ServesWhatIsUp'
  BY <1>0, SMT DEF ManagerTypes, ServesWhatIsUp, Mcp!Start
<1>3. Mcp!ClientsAccountedFor'
  BY <1>0, SMT DEF Mcp!ClientsAccountedFor, Mcp!Start
<1>4. Begun'
  BY <1>0, SMT DEF Begun, Mcp!Start
<1>5. BoundInOrder'
  BY <1>0, OrderStays, SMT DEF Mcp!Start, ManagerTypes, ServesWhatIsUp
<1>6. ToolsAreBacked'
  BY <1>0, ToolsKept, SMT DEF Mcp!Start, ManagerTypes, ServesWhatIsUp
<1> QED
  BY <1>1, <1>2, <1>3, <1>4, <1>5, <1>6 DEF ManagersInv

\* a server answers,
LEMMA ConnectedKeepsManagers ==
  ASSUME Hosted, ManagersInv, NEW m \in Mcp!Managers, NEW s \in Servers, Mcp!Connected(m, s)
  PROVE  ManagersInv'
<1>0. /\ ManagerTypes /\ ServesWhatIsUp /\ Mcp!ClientsAccountedFor /\ Begun /\ BoundInOrder
      /\ ToolsAreBacked
  BY DEF ManagersInv
<1>1. ManagerTypes'
  BY <1>0, SMT DEF ManagerTypes, Mcp!Connected
<1>2. ServesWhatIsUp'
  BY <1>0, SMT DEF ServesWhatIsUp, Mcp!Connected
<1>3. Mcp!ClientsAccountedFor'
  BY <1>0, SMT DEF Mcp!ClientsAccountedFor, Mcp!Connected
<1>4. Begun'
  BY <1>0, SMT DEF Begun, Mcp!Connected
<1>5. BoundInOrder'
  BY <1>0, OrderStays, SMT DEF Mcp!Connected, ManagerTypes, ServesWhatIsUp
<1>6. ToolsAreBacked'
  BY <1>0, ToolsKept, SMT DEF Mcp!Connected, ManagerTypes, ServesWhatIsUp
<1> QED
  BY <1>1, <1>2, <1>3, <1>4, <1>5, <1>6 DEF ManagersInv

\* or does not,
LEMMA ConnectFailsKeepsManagers ==
  ASSUME Hosted, ManagersInv, NEW m \in Mcp!Managers, NEW s \in Servers, Mcp!ConnectFails(m, s)
  PROVE  ManagersInv'
<1>0. /\ ManagerTypes /\ ServesWhatIsUp /\ Mcp!ClientsAccountedFor /\ Begun /\ BoundInOrder
      /\ ToolsAreBacked
  BY DEF ManagersInv
<1>1. ManagerTypes'
  BY <1>0, SMT DEF ManagerTypes, Mcp!ConnectFails
<1>2. ServesWhatIsUp'
  BY <1>0, SMT DEF ServesWhatIsUp, Mcp!ConnectFails
<1>3. Mcp!ClientsAccountedFor'
  BY <1>0, SMT DEF Mcp!ClientsAccountedFor, Mcp!ConnectFails
<1>4. Begun'
  BY <1>0, SMT DEF Begun, Mcp!ConnectFails
<1>5. BoundInOrder'
  BY <1>0, OrderStays, SMT DEF Mcp!ConnectFails, ManagerTypes, ServesWhatIsUp
<1>6. ToolsAreBacked'
  BY <1>0, ToolsKept, SMT DEF Mcp!ConnectFails, ManagerTypes, ServesWhatIsUp
<1> QED
  BY <1>1, <1>2, <1>3, <1>4, <1>5, <1>6 DEF ManagersInv

\* and its client closes.
LEMMA ClientClosesKeepsManagers ==
  ASSUME Hosted, ManagersInv, NEW m \in Mcp!Managers, NEW s \in Servers, Mcp!ClientCloses(m, s)
  PROVE  ManagersInv'
<1>0. /\ ManagerTypes /\ ServesWhatIsUp /\ Mcp!ClientsAccountedFor /\ Begun /\ BoundInOrder
      /\ ToolsAreBacked
  BY DEF ManagersInv
<1>1. ManagerTypes'
  BY <1>0, SMT DEF ManagerTypes, Mcp!ClientCloses
<1>2. ServesWhatIsUp'
  BY <1>0, SMT DEF ServesWhatIsUp, Mcp!ClientCloses
<1>3. Mcp!ClientsAccountedFor'
  BY <1>0, SMT DEF Mcp!ClientsAccountedFor, Mcp!ClientCloses
<1>4. Begun'
  BY <1>0, SMT DEF Begun, Mcp!ClientCloses
<1>5. BoundInOrder'
  BY <1>0, OrderStays, SMT DEF Mcp!ClientCloses, ManagerTypes, ServesWhatIsUp
<1>6. ToolsAreBacked'
  BY <1>0, ToolsKept, SMT DEF Mcp!ClientCloses, ManagerTypes, ServesWhatIsUp
<1> QED
  BY <1>1, <1>2, <1>3, <1>4, <1>5, <1>6 DEF ManagersInv

\* The servers that connected are served.
LEMMA BootstrappedKeepsManagers ==
  ASSUME Hosted, ManagersInv, NEW m \in Mcp!Managers, Mcp!Bootstrapped(m)
  PROVE  ManagersInv'
<1>0. /\ ManagerTypes /\ ServesWhatIsUp /\ Mcp!ClientsAccountedFor /\ Begun /\ BoundInOrder
      /\ ToolsAreBacked
  BY DEF ManagersInv
<1>1. ManagerTypes'
  BY <1>0, SMT DEF ManagerTypes, Mcp!Bootstrapped
<1>2. ServesWhatIsUp'
  BY <1>0, SMT DEF ManagerTypes, ServesWhatIsUp, Mcp!Bootstrapped
<1>3. Mcp!ClientsAccountedFor'
  BY <1>0, SMT DEF ManagerTypes, Mcp!ClientsAccountedFor, Mcp!Bootstrapped
<1>4. Begun'
  BY <1>0, SMT DEF Begun, Mcp!Bootstrapped
<1>5. BoundInOrder'
  BY <1>0, OrderStays, SMT DEF Mcp!Bootstrapped, ManagerTypes, ServesWhatIsUp
<1>6. ToolsAreBacked'
  BY <1>0, ToolsKept, SMT DEF Mcp!Bootstrapped, ManagerTypes, ServesWhatIsUp
<1> QED
  BY <1>1, <1>2, <1>3, <1>4, <1>5, <1>6 DEF ManagersInv

\* The session/new that awaits connect is cancelled;
LEMMA ConnectCancelledKeepsManagers ==
  ASSUME Hosted, ManagersInv, NEW m \in Mcp!Managers, Mcp!ConnectCancelled(m)
  PROVE  ManagersInv'
<1>1. life' = [life EXCEPT ![m] = "up"]
  BY DEF Mcp!ConnectCancelled, ManagersInv, ManagerTypes
<1> QED
  BY <1>1, CancelKeeps DEF Mcp!ConnectCancelled

\* what had connected is closed,
LEMMA ClosesResultKeepsManagers ==
  ASSUME Hosted, ManagersInv, NEW m \in Mcp!Managers, NEW s \in Servers, Mcp!ClosesResult(m, s)
  PROVE  ManagersInv'
<1>0. /\ ManagerTypes /\ ServesWhatIsUp /\ Mcp!ClientsAccountedFor /\ Begun /\ BoundInOrder
      /\ ToolsAreBacked
  BY DEF ManagersInv
<1>1. ManagerTypes'
  BY <1>0, SMT DEF ManagerTypes, Mcp!ClosesResult
<1>2. ServesWhatIsUp'
  BY <1>0, SMT DEF ServesWhatIsUp, Mcp!ClosesResult
<1>3. Mcp!ClientsAccountedFor'
  BY <1>0, SMT DEF Mcp!ClientsAccountedFor, Mcp!ClosesResult
<1>4. Begun'
  BY <1>0, SMT DEF Begun, Mcp!ClosesResult
<1>5. BoundInOrder'
  BY <1>0, OrderStays, SMT DEF Mcp!ClosesResult, ManagerTypes, ServesWhatIsUp
<1>6. ToolsAreBacked'
  BY <1>0, ToolsKept, SMT DEF Mcp!ClosesResult, ManagerTypes, ServesWhatIsUp
<1> QED
  BY <1>1, <1>2, <1>3, <1>4, <1>5, <1>6 DEF ManagersInv

\* and the bootstrap is over.
LEMMA BootstrapCancelledKeepsManagers ==
  ASSUME Hosted, ManagersInv, NEW m \in Mcp!Managers, Mcp!BootstrapCancelled(m)
  PROVE  ManagersInv'
<1>0. /\ ManagerTypes /\ ServesWhatIsUp /\ Mcp!ClientsAccountedFor /\ Begun /\ BoundInOrder
      /\ ToolsAreBacked
  BY DEF ManagersInv
<1>1. ManagerTypes'
  BY <1>0, SMT DEF ManagerTypes, Mcp!BootstrapCancelled
<1>2. ServesWhatIsUp'
  BY <1>0, SMT DEF ServesWhatIsUp, Mcp!BootstrapCancelled
<1>3. Mcp!ClientsAccountedFor'
  <2>1. \A s \in Servers : link[m][s] # "up"
    BY DEF Mcp!BootstrapCancelled, Mcp!ResultsClosed
  <2> QED
    BY <1>0, <2>1 DEF Mcp!BootstrapCancelled, Mcp!ClientsAccountedFor, ManagerTypes
<1>4. Begun'
  BY <1>0, SMT DEF Begun, Mcp!BootstrapCancelled
<1>5. BoundInOrder'
  BY <1>0, OrderStays, SMT DEF Mcp!BootstrapCancelled, ManagerTypes, ServesWhatIsUp
<1>6. ToolsAreBacked'
  BY <1>0, ToolsKept, SMT DEF Mcp!BootstrapCancelled, ManagerTypes, ServesWhatIsUp
<1> QED
  BY <1>1, <1>2, <1>3, <1>4, <1>5, <1>6 DEF ManagersInv

\* A turn starts,
LEMMA TurnStartsKeepsManagers ==
  ASSUME Hosted, ManagersInv, NEW t \in Turns, Mcp!TurnStarts(t)
  PROVE  ManagersInv'
<1>0. /\ ManagerTypes /\ ServesWhatIsUp /\ Mcp!ClientsAccountedFor /\ Begun /\ BoundInOrder
      /\ ToolsAreBacked
  BY DEF ManagersInv
<1>1. ManagerTypes'
  BY <1>0, SMT DEF ManagerTypes, Mcp!RunningTurn, Mcp!TurnStarts
<1>2. ServesWhatIsUp'
  BY <1>0, SMT DEF ServesWhatIsUp, Mcp!TurnStarts
<1>3. Mcp!ClientsAccountedFor'
  BY <1>0, SMT DEF Mcp!ClientsAccountedFor, Mcp!TurnStarts
<1>4. Begun'
  BY SMT DEF Begun, Mcp!TurnStarts
<1>5. BoundInOrder'
  <2>1. turn' = [turn EXCEPT ![t] = 1]
    BY DEF Mcp!TurnStarts
  <2> QED
    BY <1>0, <2>1, OrderKept DEF Mcp!TurnStarts, ManagerTypes
<1>6. ToolsAreBacked'
  BY <1>0, ToolsKept DEF Mcp!TurnStarts
<1> QED
  BY <1>1, <1>2, <1>3, <1>4, <1>5, <1>6 DEF ManagersInv

\* waits for a bootstrap,
LEMMA TurnWaitsKeepsManagers ==
  ASSUME Hosted, ManagersInv, NEW t \in Turns, Mcp!TurnWaits(t)
  PROVE  ManagersInv'
<1>0. /\ ManagerTypes /\ ServesWhatIsUp /\ Mcp!ClientsAccountedFor /\ Begun /\ BoundInOrder
      /\ ToolsAreBacked
  BY DEF ManagersInv
<1>1. ManagerTypes'
  BY <1>0, SMT DEF ManagerTypes, Mcp!TurnWaits
<1>2. ServesWhatIsUp'
  BY <1>0, SMT DEF ServesWhatIsUp, Mcp!TurnWaits
<1>3. Mcp!ClientsAccountedFor'
  BY <1>0, SMT DEF Mcp!ClientsAccountedFor, Mcp!TurnWaits
<1>4. Begun'
  BY <1>0, SMT DEF Begun, Mcp!TurnWaits
<1>5. BoundInOrder'
  BY <1>0, OrderStays, SMT DEF Mcp!TurnWaits, ManagerTypes, ServesWhatIsUp
<1>6. ToolsAreBacked'
  BY <1>0, ToolsKept, SMT DEF Mcp!TurnWaits, ManagerTypes, ServesWhatIsUp
<1> QED
  BY <1>1, <1>2, <1>3, <1>4, <1>5, <1>6 DEF ManagersInv

\* binds the next manager,
LEMMA TurnBindsKeepsManagers ==
  ASSUME Hosted, ManagersInv, NEW t \in Turns, Mcp!TurnBinds(t)
  PROVE  ManagersInv'
<1>0. ManagerTypes /\ Begun /\ BoundInOrder
  BY DEF ManagersInv
<1> DEFINE i == turn[t]
<1> DEFINE m == Order[i]
<1>1. i \in DOMAIN Order /\ m \in Mcp!Managers
  BY OrderFacts DEF Mcp!TurnBinds
<1>2. CASE Mcp!MayBind(m, t \in waits) /\ Mcp!BindAgent(m)
  <2>1. boot[m] \notin {"none", "connecting"}
    BY <1>0, <1>1, <1>2, OrderFacts DEF Mcp!MayBind, Mcp!HasChannel, Begun
  <2> QED
    BY <1>1, <1>2, <2>1, BindKeeps DEF Mcp!TurnBinds
<1>3. CASE m \in SessionBound /\ UNCHANGED <<bindings, tools>>
  <2>1. i = Len(Order)
    BY <1>1, <1>3, HostsOrder
  <2>2. /\ turn'[t] = Len(Order) + 1 /\ turn' \in [Turns -> 0 .. Mcp!RunningTurn]
        /\ \A u \in Turns : u # t => turn'[u] = turn[u]
    BY <1>0, <1>1, <2>1, OrderFacts, SMT DEF Mcp!TurnBinds, ManagerTypes, Mcp!RunningTurn
  <2>3. ManagerTypes'
    BY <1>0, <1>3, <2>2 DEF Mcp!TurnBinds, ManagerTypes
  <2>4. Begun'
    BY <1>0, <1>1, <2>2, OrderFacts, SMT DEF Mcp!TurnBinds, Begun
  <2>5. BoundInOrder'
    <3>1. \A j \in DOMAIN Order : Passed(j)' <=> Passed(j)
      BY <1>3 DEF Mcp!TurnBinds, Passed
    <3>2. \A j \in DOMAIN Order : j # Len(Order) => j < turn[t]
      BY <2>1, OrderFacts, SMT
    <3>3. \A j \in DOMAIN Order : \A h \in 1 .. j - 1 : h \in DOMAIN Order
      BY OrderFacts, SMT
    <3> QED
      BY <1>0, <1>3, <2>2, <3>1, <3>2, <3>3 DEF BoundInOrder
  <2> QED
    BY <1>3, <2>3, <2>4, <2>5, ToolsKept
    DEF Mcp!TurnBinds, ManagersInv, ServesWhatIsUp, Mcp!ClientsAccountedFor
<1> QED
  BY <1>2, <1>3 DEF Mcp!TurnBinds

\* is cancelled with the bootstrap it waits for,
LEMMA TurnInterruptedKeepsManagers ==
  ASSUME Hosted, ManagersInv, NEW t \in Turns, Mcp!TurnInterrupted(t)
  PROVE  ManagersInv'
<1>0. /\ ManagerTypes /\ ServesWhatIsUp /\ Mcp!ClientsAccountedFor /\ Begun /\ BoundInOrder
      /\ ToolsAreBacked
  BY DEF ManagersInv
<1>1. ManagerTypes'
  BY <1>0, SMT DEF ManagerTypes, Mcp!RunningTurn, Mcp!TurnInterrupted
<1>2. ServesWhatIsUp'
  BY <1>0, SMT DEF ServesWhatIsUp, Mcp!TurnInterrupted
<1>3. Mcp!ClientsAccountedFor'
  BY <1>0, SMT DEF Mcp!ClientsAccountedFor, Mcp!TurnInterrupted
<1>4. Begun'
  BY <1>0, SMT DEF Begun, Mcp!TurnInterrupted
<1>5. BoundInOrder'
  <2>1. turn' = [turn EXCEPT ![t] = 0]
    BY DEF Mcp!TurnInterrupted
  <2> QED
    BY <1>0, <2>1, OrderKept DEF Mcp!TurnInterrupted, ManagerTypes
<1>6. ToolsAreBacked'
  BY <1>0, ToolsKept DEF Mcp!TurnInterrupted
<1> QED
  BY <1>1, <1>2, <1>3, <1>4, <1>5, <1>6 DEF ManagersInv

\* or ends.
LEMMA TurnEndsKeepsManagers ==
  ASSUME Hosted, ManagersInv, NEW t \in Turns, Mcp!TurnEnds(t)
  PROVE  ManagersInv'
<1>0. /\ ManagerTypes /\ ServesWhatIsUp /\ Mcp!ClientsAccountedFor /\ Begun /\ BoundInOrder
      /\ ToolsAreBacked
  BY DEF ManagersInv
<1>1. ManagerTypes'
  BY <1>0, SMT DEF ManagerTypes, Mcp!TurnEnds
<1>2. ServesWhatIsUp'
  BY <1>0, SMT DEF ServesWhatIsUp, Mcp!TurnEnds
<1>3. Mcp!ClientsAccountedFor'
  BY <1>0, SMT DEF Mcp!ClientsAccountedFor, Mcp!TurnEnds
<1>4. Begun'
  BY <1>0, SMT DEF Begun, Mcp!TurnEnds
<1>5. BoundInOrder'
  <2>1. turn' = [turn EXCEPT ![t] = 0]
    BY DEF Mcp!TurnEnds
  <2> QED
    BY <1>0, <2>1, OrderKept DEF Mcp!TurnEnds, ManagerTypes
<1>6. ToolsAreBacked'
  BY <1>0, ToolsKept DEF Mcp!TurnEnds
<1> QED
  BY <1>1, <1>2, <1>3, <1>4, <1>5, <1>6 DEF ManagersInv

\* A stop finds the managers after this one released, or never started.
LEMMA StopBeginsKeepsManagers ==
  ASSUME Hosted, ManagersInv, NEW m \in Mcp!Managers, Mcp!StopBegins(m)
  PROVE  ManagersInv'
<1>1. CASE boot[m] = "connecting"
  BY <1>1, CancelKeeps DEF Mcp!StopBegins
<1>2. CASE boot[m] # "connecting"
  <2>1. PICK i \in DOMAIN Order : m = Order[i]
    BY OrderFacts
  <2>2. ASSUME NEW j \in DOMAIN Order, i < j PROVE DOMAIN bindings[Order[j]] = {}
    <3>1. i \in 1 .. j - 1 /\ j \in DOMAIN Order
      BY <2>2, OrderFacts, SMT
    <3>2. Order[j] \in Mcp!After(m)
      BY <2>1, <3>1 DEF Mcp!After
    <3>3. boot[Order[j]] = "none" \/ life[Order[j]] = "released"
      BY <3>2 DEF Mcp!StopBegins, Mcp!StopIsNested
    <3> QED
      BY <3>3, OrderFacts DEF ManagersInv, ServesWhatIsUp, ToolsAreBacked
  <2> QED
    BY <1>2, <2>1, <2>2, ReleaseKeeps DEF Mcp!StopBegins
<1> QED
  BY <1>1, <1>2

\* It goes on when the bootstrap it cancelled is over,
LEMMA StopAwaitedKeepsManagers ==
  ASSUME Hosted, ManagersInv, NEW m \in Mcp!Managers, Mcp!StopAwaited(m)
  PROVE  ManagersInv'
<1>1. PICK i \in DOMAIN Order : m = Order[i]
  BY OrderFacts
<1>2. DOMAIN bindings[m] = {}
  BY DEF Mcp!StopAwaited, ManagersInv, ServesWhatIsUp, ToolsAreBacked
<1> QED
  BY <1>1, <1>2, ReleaseKeeps DEF Mcp!StopAwaited

\* and closes its clients.
LEMMA StopClosesKeepsManagers ==
  ASSUME Hosted, ManagersInv, NEW m \in Mcp!Managers, NEW s \in Servers, Mcp!StopCloses(m, s)
  PROVE  ManagersInv'
<1>0. /\ ManagerTypes /\ ServesWhatIsUp /\ Mcp!ClientsAccountedFor /\ Begun /\ BoundInOrder
      /\ ToolsAreBacked
  BY DEF ManagersInv
<1>1. ManagerTypes'
  BY <1>0, SMT DEF ManagerTypes, Mcp!StopCloses
<1>2. ServesWhatIsUp'
  BY <1>0, SMT DEF ServesWhatIsUp, Mcp!StopCloses
<1>3. Mcp!ClientsAccountedFor'
  BY <1>0, SMT DEF ManagerTypes, Mcp!ClientsAccountedFor, Mcp!StopCloses
<1>4. Begun'
  BY <1>0, SMT DEF Begun, Mcp!StopCloses
<1>5. BoundInOrder'
  BY <1>0, OrderStays, SMT DEF Mcp!StopCloses, ManagerTypes, ServesWhatIsUp
<1>6. ToolsAreBacked'
  BY <1>0, ToolsKept, SMT DEF Mcp!StopCloses, ManagerTypes, ServesWhatIsUp
<1> QED
  BY <1>1, <1>2, <1>3, <1>4, <1>5, <1>6 DEF ManagersInv

\* Every step keeps the invariant.
LEMMA NextKeepsManagers ==
  ASSUME Hosted, ManagersInv, [Mcp!Next]_mcpVars PROVE ManagersInv'
<1>1. CASE Mcp!Bootstraps
  BY <1>1, StartKeepsManagers, BootstrappedKeepsManagers, ConnectCancelledKeepsManagers,
     BootstrapCancelledKeepsManagers, StopBeginsKeepsManagers, StopAwaitedKeepsManagers
  DEF Mcp!Bootstraps
<1>2. CASE Mcp!Clients
  BY <1>2, ConnectedKeepsManagers, ConnectFailsKeepsManagers, ClientClosesKeepsManagers,
     ClosesResultKeepsManagers, StopClosesKeepsManagers
  DEF Mcp!Clients
<1>3. CASE Mcp!OfTurns
  BY <1>3, TurnStartsKeepsManagers, TurnWaitsKeepsManagers, TurnBindsKeepsManagers,
     TurnInterruptedKeepsManagers, TurnEndsKeepsManagers
  DEF Mcp!OfTurns
<1>4. CASE UNCHANGED mcpVars
  BY <1>4, OrderStays, ToolsKept
  DEF mcpVars, ManagersInv, ManagerTypes, ServesWhatIsUp, Mcp!ClientsAccountedFor, Begun
<1> QED
  BY <1>1, <1>2, <1>3, <1>4 DEF Mcp!Next, Mcp!vars, mcpVars

\* Whatever turns, failures, cancellations and stops come between them: no client leaks, a
\* tool on the agent has an open client, and the agent has its own tools back in the end.
\* The hosts nest the managers they run, and a session binds last (trylast):
\* MCPManager._bootstrap, bind_agent, _restore_tools, stop.
THEOREM ToolsAreSound ==
  ASSUME Hosted PROVE Mcp!Spec => []McpIsSound
<1>1. Mcp!Init => ManagersInv
  <2> SUFFICES ASSUME Mcp!Init PROVE ManagersInv
    OBVIOUS
  <2>1. \A n \in Servers : Backed(n, tools[n])
    BY Resources DEF Mcp!Init, Backed, Mcp!OwnTools, Mcp!McpManagerConstants
  <2>2. /\ \A k \in Mcp!Managers : DOMAIN bindings[k] = {}
        /\ Mcp!RunningTurn \in Nat
    BY OrderFacts, SMT DEF Mcp!Init, Mcp!Unbound, Mcp!RunningTurn
  <2>3. ManagerTypes
    BY <2>2, SMT DEF Mcp!Init, ManagerTypes, Mcp!OwnTools
  <2>4. BoundInOrder
    BY OrderFacts, <2>2, SMT DEF Mcp!Init, BoundInOrder
  <2>5. ToolsAreBacked
    BY <2>1, <2>2, OrderFacts DEF ToolsAreBacked
  <2> QED
    BY <2>3, <2>4, <2>5 DEF Mcp!Init, ManagersInv, ServesWhatIsUp, Mcp!ClientsAccountedFor, Begun
<1>2. ManagersInv => Mcp!ClientsAccountedFor /\ Mcp!BoundToolsAreLive
  BY DEF ManagersInv, ServesWhatIsUp, ToolsAreBacked, Backed, Mcp!BoundToolsAreLive
<1>3. ManagersInv => Mcp!OwnToolsReturn
  BY DEF ManagersInv, ToolsAreBacked, Backed, Mcp!OwnToolsReturn, Mcp!OwnTools, ManagerTypes
<1>4. ManagersInv /\ [Mcp!Next]_mcpVars => ManagersInv'
  BY NextKeepsManagers
<1> QED
  BY <1>1, <1>2, <1>3, <1>4, PTL DEF McpIsSound, Mcp!Spec, Mcp!vars, mcpVars

-----------------------------------------------------------------------------
(* The proof that streams are true and client tools sound *)

\* Where a handler stands, and the records of the state.
Stages == {"none", "begin", "create", "attach", "wait", "kill", "output", "release", "write",
           "over", "left"}
CallRecs == [tool : Streams!Names, command : Commands \cup {"none"}]
PendingRecs == [id : Streams!Calls, terminal : Streams!Calls \cup {0}]
ShownRecs == [status : {"none", "in_progress", "ok", "failed"}, of : Streams!Calls \cup {0},
              terminal : Streams!Calls \cup {0}]
TapeRecs == [calls : Seq(Streams!Calls), answered : BOOLEAN]

\* The types of the variables.
TurnTypes ==
  /\ cTurn \in {"idle", "model", "tools", "cancelled", "load"}
  /\ cMade \in 0 .. MaxCalls /\ cCancels \in Nat /\ cReplayed \in Nat
  /\ cCall \in [Streams!Calls -> CallRecs] /\ cRound \in Seq(Streams!Calls)
  /\ cStream \in [pending : Seq(PendingRecs), text : BOOLEAN]
  /\ cShown \in [Streams!Calls -> ShownRecs] /\ cTape \in Seq(TapeRecs)
ToolTypes ==
  /\ cJob \in [Streams!Calls -> Stages] /\ cResult \in [Streams!Calls -> {"none", "ok", "failed"}]
  /\ cTerminal \in [Streams!Calls -> {"none", "running", "exited", "released"}]
  /\ cFile \subseteq Streams!Calls /\ cCopy \in [Streams!Calls -> SUBSET Streams!Calls]

\* Where the handler of a call stands, by what it is a call of, and its terminal.
JobFits(c) ==
  /\ cJob[c] = "none" <=> c > cMade
  /\ cResult[c] # "none" <=> Streams!Ended(c)
  /\ cJob[c] = "write" => cCall[c].tool = "edit"
  /\ cJob[c] \in {"create", "attach", "wait", "kill", "output", "release"} => Streams!IsBash(c)
  /\ cJob[c] \in {"none", "begin"} => cTerminal[c] = "none"
  /\ cCall[c].tool = "bash" =>
        /\ cJob[c] = "create" => cTerminal[c] = "none"
        /\ cJob[c] = "over" => cTerminal[c] \in {"none", "released"}
JobsFit == \A c \in Streams!Calls : JobFits(c)

\* The calls that wait for results are those of a round, place by place.
PendingIs(p, calls) ==
  DOMAIN p = DOMAIN calls /\ \A i \in DOMAIN calls : p[i].id = calls[i]
RoundFits ==
  /\ cTurn \in {"idle", "model"} => cRound = <<>> /\ cStream.pending = <<>>
  /\ cTurn \in {"tools", "cancelled"} => PendingIs(cStream.pending, cRound)
  /\ cTurn = "tools" => cTape # <<>> /\ cRound = cTape[Len(cTape)].calls
  /\ cTurn = "cancelled" => cCancels # 0
  /\ cTurn = "load" => cReplayed <= Len(cTape)
  /\ cTurn = "load" /\ cRound # <<>> =>
        /\ cReplayed < Len(cTape) /\ PendingIs(cStream.pending, cRound)
        /\ cRound = cTape[cReplayed + 1].calls /\ cTape[cReplayed + 1].answered = TRUE
  /\ \A i, j \in DOMAIN cRound : cRound[i] = cRound[j] => i = j
  /\ \A i \in DOMAIN cRound : cJob[cRound[i]] # "none"

\* The rounds on the tape are of different calls; those that were answered have ended.
TapeFits ==
  /\ \A k \in DOMAIN cTape : \A i \in DOMAIN cTape[k].calls :
       /\ cJob[cTape[k].calls[i]] # "none"
       /\ cTape[k].answered = TRUE => Streams!Ended(cTape[k].calls[i])
  /\ \A k, l \in DOMAIN cTape : \A i \in DOMAIN cTape[k].calls, j \in DOMAIN cTape[l].calls :
       cTape[k].calls[i] = cTape[l].calls[j] => k = l /\ i = j

\* A result that is shown is final; session/load has shown those of the rounds replayed.
ShownFits ==
  /\ \A c \in Streams!Calls : cShown[c].of # 0 =>
       cShown[c].of = c /\ cShown[c].status = cResult[c] /\ Streams!Ended(c)
  /\ cTurn = "load" => \A c \in Streams!Calls : cShown[c].of # 0 =>
        \E k \in 1 .. cReplayed : \E i \in DOMAIN cTape[k].calls : cTape[k].calls[i] = c

\* While nothing is cancelled, only the round that runs is in progress, or not answered.
ProgressFits ==
  cCancels = 0 =>
     /\ \A c \in Streams!Calls :
          cShown[c].status = "in_progress" => \E i \in DOMAIN cRound : cRound[i] = c
     /\ \A k \in DOMAIN cTape : cTape[k].answered = TRUE \/ (cTurn = "tools" /\ k = Len(cTape))

\* The terminals that are shown are of calls that have made one, each with a call of its command.
Made(c) == cJob[c] \notin {"none", "begin", "create"}
TerminalsFit ==
  /\ \A c \in Streams!Calls : cShown[c].terminal # 0 =>
       /\ cJob[c] # "none" /\ Made(cShown[c].terminal)
       /\ cCall[c].command = cCall[cShown[c].terminal].command
  /\ \A c, d \in Streams!Calls :
       cShown[c].terminal # 0 /\ cShown[d].terminal = cShown[c].terminal => c = d
  /\ cTurn \in {"tools", "cancelled"} => \A i \in DOMAIN cStream.pending :
        LET p == cStream.pending[i] IN
        p.terminal # 0 =>
          /\ cShown[p.id].terminal = p.terminal /\ Streams!IsBash(p.terminal)
          /\ \E j \in DOMAIN cRound : cRound[j] = p.terminal

SaidFits ==
  /\ cTurn \in {"model", "tools", "cancelled"} =>
        cSaid = IF cStream.text = TRUE THEN {"streamed"} ELSE {}
  /\ cSaid \in {{}, {"streamed"}, {"whole"}}

\* What an edit has read is what edits that are over have written.
Snapshot(s) == \A x \in s : cJob[x] = "over"
EditsFit ==
  /\ Snapshot(cFile)
  /\ \A c \in Streams!Calls : cJob[c] = "write" => Snapshot(cCopy[c])
  /\ \A c \in Streams!Calls : cCall[c].tool = "edit" /\ cResult[c] = "ok" =>
       cJob[c] = "over" /\ Snapshot(cCopy[c])

\* The inductive invariant of streams and client tools.
StreamsInv ==
  /\ TurnTypes /\ ToolTypes /\ JobsFit /\ RoundFits /\ TapeFits /\ ShownFits /\ ProgressFits
  /\ TerminalsFit /\ SaidFits /\ EditsFit /\ Streams!EditsAreKept

\* The order of the natural numbers is well founded,
LEMMA NatOrder == \E R : IsWellFoundedOn(R, Nat) /\ \A x, y \in Nat : x < y => <<x, y>> \in R
<1>1. IsWellFoundedOn(OpToRel(<, Nat), Nat)
  BY NatLessThanWellFounded
<1>2. \A x, y \in Nat : x < y => <<x, y>> \in OpToRel(<, Nat)
  BY DEF OpToRel
<1> QED BY <1>1, <1>2, Zenon

\* so that a set of them has a least element,
LEMMA Least ==
  ASSUME NEW S, S \subseteq Nat, S # {} PROVE \E m \in S : \A k \in S : m <= k
<1>1. PICK R : IsWellFoundedOn(R, Nat) /\ \A x, y \in Nat : x < y => <<x, y>> \in R
  BY NatOrder
<1>2. \A T \in SUBSET Nat : T # {} => \E x \in T : \A y \in T : ~ (<<y, x>> \in R)
  <2>1. IsWellFoundedOn(R, Nat)
    BY <1>1
  <2> TAKE T \in SUBSET Nat
  <2> HAVE T # {}
  <2>2. T \subseteq Nat
    OBVIOUS
  <2> QED BY <2>1, <2>2, WFMin
<1>3. PICK x \in S : \A y \in S : ~ (<<y, x>> \in R)
  BY <1>2
<1>4. \A y \in S : ~(y < x)
  BY <1>1, <1>3
<1> QED BY <1>3, <1>4

\* which Min takes.
LEMMA MinIn ==
  ASSUME NEW S, S \subseteq Nat, S # {} PROVE Streams!Min(S) \in S
<1>1. \E m \in S : \A k \in S : m <= k
  BY Least
<1> QED
  BY <1>1, Zenon DEF Streams!Min

\* Handlers go on, and what has ended stays.
Onward ==
  \A c \in Streams!Calls :
    /\ cJob[c] = "none" <=> cJob'[c] = "none"
    /\ Streams!Ended(c) => cJob'[c] = cJob[c] /\ cResult'[c] = cResult[c]
    /\ Made(c) => Made(c)'

\* A handler goes where it may, with the result it has there.
Going(c, where, how) ==
  /\ cJob' = [cJob EXCEPT ![c] = where] /\ cResult' = [cResult EXCEPT ![c] = how]
  /\ cJob[c] # "none" /\ ~ Streams!Ended(c) /\ (Made(c) => where # "create")
  /\ how # "none" <=> where \in {"over", "left"}
  /\ where = "write" => cCall[c].tool = "edit"
  /\ where \in {"create", "attach", "wait", "kill", "output", "release"} => Streams!IsBash(c)
  /\ cTerminal' \in [Streams!Calls -> {"none", "running", "exited", "released"}]
  /\ \A d \in Streams!Calls \ {c} :
       cTerminal'[d] = cTerminal[d] \/ (cCall[d].tool = "background" /\ Streams!Ended(d))
  /\ cCall[c].tool = "bash" => /\ where = "create" => cTerminal'[c] = "none"
                               /\ where = "over" => cTerminal'[c] \in {"none", "released"}

\* A handler that goes where it may goes on, and leaves the other calls where they are.
LEMMA OneJob ==
  ASSUME ToolTypes, JobsFit, UNCHANGED <<cMade, cCall>>, NEW c \in Streams!Calls,
         NEW where \in Stages \ {"none", "begin"}, NEW how \in {"none", "ok", "failed"},
         Going(c, where, how)
  PROVE  /\ Onward /\ JobsFit'
         /\ cJob' \in [Streams!Calls -> Stages]
         /\ cResult' \in [Streams!Calls -> {"none", "ok", "failed"}]
<1>1. /\ cJob' \in [Streams!Calls -> Stages]
      /\ cResult' \in [Streams!Calls -> {"none", "ok", "failed"}]
      /\ cJob'[c] = where /\ cResult'[c] = how
      /\ \A d \in Streams!Calls \ {c} : cJob'[d] = cJob[d] /\ cResult'[d] = cResult[d]
  BY SMT DEF ToolTypes, Stages, Going
<1>2. Onward
  BY <1>1, SMT DEF Onward, Streams!Ended, Made, Going
<1>3. ASSUME NEW d \in Streams!Calls PROVE JobFits(d)'
  <2>1. JobFits(d) /\ JobFits(c)
    BY DEF JobsFit
  <2>2. CASE d = c
    BY <1>1, <2>1, <2>2, SMT DEF JobFits, Streams!Ended, Streams!IsBash, Going
  <2>3. CASE d # c
    BY <1>1, <2>1, <2>3, SMT DEF JobFits, Streams!Ended, Streams!IsBash, Going
  <2> QED BY <2>2, <2>3
<1> QED
  BY <1>1, <1>2, <1>3 DEF JobsFit

\* What a step of a handler keeps of the turn, and of what the client sees.
HandlerGoes == Onward /\ Streams!OfTools /\ ToolTypes' /\ JobsFit'
NoEditing(c) ==
  \E where \in Stages \ {"write"}, how \in {"none", "ok", "failed"} :
    /\ cJob' = [cJob EXCEPT ![c] = where] /\ cResult' = [cResult EXCEPT ![c] = how]
    /\ cCall[c].tool # "edit" \/ how # "ok"
Untold == UNCHANGED <<cStream, cShown>>

\* What is known of the handler of a call.
LEMMA JobIs ==
  ASSUME ToolTypes, JobsFit, NEW c \in Streams!Calls
  PROVE  /\ JobFits(c) /\ cJob[c] \in Stages /\ cResult[c] \in {"none", "ok", "failed"}
         /\ cTerminal \in [Streams!Calls -> {"none", "running", "exited", "released"}]
         /\ ~ Streams!Ended(c) => cResult = [cResult EXCEPT ![c] = "none"]
         /\ \A how : [cResult EXCEPT ![c] = how][c] = how
  BY SMT DEF ToolTypes, JobsFit, JobFits

\* A request is answered,
LEMMA AsksGoes ==
  ASSUME ToolTypes, JobsFit, NEW c \in Streams!Calls, Streams!Asks(c)
  PROVE  HandlerGoes /\ Untold /\ NoEditing(c)
<1>0. /\ UNCHANGED <<cMade, cCall>> /\ Streams!OfTools /\ UNCHANGED cStream /\ UNCHANGED cShown
  BY Zenon DEF Streams!Asks, Streams!OfTools
<1>1. /\ cFile' \subseteq Streams!Calls /\ cCopy' \in [Streams!Calls -> SUBSET Streams!Calls]
  BY SMT DEF Streams!Asks, ToolTypes, Streams!text, Streams!Edited
<1>2. /\ JobFits(c) /\ cJob[c] \in Stages
      /\ (~ Streams!Ended(c) => cResult = [cResult EXCEPT ![c] = "none"])
      /\ cTerminal \in [Streams!Calls -> {"none", "running", "exited", "released"}]
  BY JobIs
<1>3. cJob[c] = "begin" /\ cCall[c].tool = "other" /\ UNCHANGED cTerminal
  BY Zenon DEF Streams!Asks
<1>4. CASE Streams!Ends(c, "ok")
  <2>1. Going(c, "over", "ok")
    BY <1>0, <1>2, <1>3, <1>4, SMT
    DEF Going, Streams!Goes, Streams!Ends, Streams!Ended, Made, Streams!IsBash, Streams!Terminal,
        JobFits
  <2>2. cCall[c].tool # "edit"
    BY <1>2, <1>3, SMT DEF Streams!IsBash, Streams!Ends
  <2>3. NoEditing(c)
    BY <2>1, <2>2, Zenon DEF NoEditing, Going, Stages
  <2> QED BY <1>0, <1>1, <2>1, <2>3, OneJob, Zenon DEF HandlerGoes, Untold, ToolTypes, Stages, Going
<1>5. CASE Streams!Ends(c, "failed")
  <2>1. Going(c, "over", "failed")
    BY <1>0, <1>2, <1>3, <1>5, SMT
    DEF Going, Streams!Goes, Streams!Ends, Streams!Ended, Made, Streams!IsBash, Streams!Terminal,
        JobFits
  <2>2. "failed" # "ok"
    BY <1>2
  <2>3. NoEditing(c)
    BY <2>1, <2>2, Zenon DEF NoEditing, Going, Stages
  <2> QED BY <1>0, <1>1, <2>1, <2>3, OneJob, Zenon DEF HandlerGoes, Untold, ToolTypes, Stages, Going
<1> QED
  BY <1>4, <1>5, <1>2, Zenon DEF Streams!Asks

\* a file read
LEMMA EditReadsGoes ==
  ASSUME ToolTypes, JobsFit, NEW c \in Streams!Calls, Streams!EditReads(c)
  PROVE  HandlerGoes /\ Untold
<1>0. /\ UNCHANGED <<cMade, cCall>> /\ Streams!OfTools /\ UNCHANGED cStream /\ UNCHANGED cShown
  BY Zenon DEF Streams!EditReads, Streams!OfTools
<1>1. /\ cFile' \subseteq Streams!Calls /\ cCopy' \in [Streams!Calls -> SUBSET Streams!Calls]
  BY SMT DEF Streams!EditReads, ToolTypes, Streams!text, Streams!Edited
<1>2. /\ JobFits(c) /\ cJob[c] \in Stages
      /\ (~ Streams!Ended(c) => cResult = [cResult EXCEPT ![c] = "none"])
      /\ cTerminal \in [Streams!Calls -> {"none", "running", "exited", "released"}]
  BY JobIs
<1>3. CASE Streams!Ends(c, "failed")
  <2>1. Going(c, "over", "failed")
    BY <1>0, <1>2, <1>3, SMT
    DEF Streams!EditReads, Going, Streams!Goes, Streams!Ends, Streams!Ended, Made, Streams!IsBash,
        Streams!Terminal, JobFits
  <2> QED BY <1>0, <1>1, <2>1, OneJob, Zenon DEF HandlerGoes, Untold, ToolTypes, Stages, Going
<1>4. CASE Streams!Goes(c, "write")
  <2>1. Going(c, "write", "none")
    BY <1>0, <1>2, <1>4, SMT
    DEF Streams!EditReads, Going, Streams!Goes, Streams!Ends, Streams!Ended, Made, Streams!IsBash,
        Streams!Terminal, JobFits
  <2> QED BY <1>0, <1>1, <2>1, OneJob, Zenon DEF HandlerGoes, Untold, ToolTypes, Stages, Going
<1> QED
  BY <1>3, <1>4, <1>2, Zenon DEF Streams!EditReads

\* and written,
LEMMA EditWritesGoes ==
  ASSUME ToolTypes, JobsFit, NEW c \in Streams!Calls, Streams!EditWrites(c)
  PROVE  HandlerGoes /\ Untold
<1>0. /\ UNCHANGED <<cMade, cCall>> /\ Streams!OfTools /\ UNCHANGED cStream /\ UNCHANGED cShown
  BY Zenon DEF Streams!EditWrites, Streams!OfTools
<1>1. /\ cFile' \subseteq Streams!Calls /\ cCopy' \in [Streams!Calls -> SUBSET Streams!Calls]
  BY SMT DEF Streams!EditWrites, ToolTypes, Streams!text, Streams!Edited
<1>2. /\ JobFits(c) /\ cJob[c] \in Stages
      /\ (~ Streams!Ended(c) => cResult = [cResult EXCEPT ![c] = "none"])
      /\ cTerminal \in [Streams!Calls -> {"none", "running", "exited", "released"}]
  BY JobIs
<1>3. CASE Streams!Ends(c, "ok")
  <2>1. Going(c, "over", "ok")
    BY <1>0, <1>2, <1>3, SMT
    DEF Streams!EditWrites, Going, Streams!Goes, Streams!Ends, Streams!Ended, Made,
        Streams!IsBash, Streams!Terminal, JobFits
  <2> QED BY <1>0, <1>1, <2>1, OneJob, Zenon DEF HandlerGoes, Untold, ToolTypes, Stages, Going
<1>4. CASE Streams!Ends(c, "failed")
  <2>1. Going(c, "over", "failed")
    BY <1>0, <1>2, <1>4, SMT
    DEF Streams!EditWrites, Going, Streams!Goes, Streams!Ends, Streams!Ended, Made,
        Streams!IsBash, Streams!Terminal, JobFits
  <2> QED BY <1>0, <1>1, <2>1, OneJob, Zenon DEF HandlerGoes, Untold, ToolTypes, Stages, Going
<1> QED
  BY <1>3, <1>4, <1>2, Zenon DEF Streams!EditWrites

\* a terminal asked for,
LEMMA BeginsGoes ==
  ASSUME ToolTypes, JobsFit, NEW c \in Streams!Calls, Streams!Begins(c)
  PROVE  HandlerGoes /\ Untold /\ NoEditing(c)
<1>0. /\ UNCHANGED <<cMade, cCall>> /\ Streams!OfTools /\ UNCHANGED cStream /\ UNCHANGED cShown
  BY Zenon DEF Streams!Begins, Streams!OfTools
<1>1. /\ cFile' \subseteq Streams!Calls /\ cCopy' \in [Streams!Calls -> SUBSET Streams!Calls]
  BY SMT DEF Streams!Begins, ToolTypes, Streams!text, Streams!Edited
<1>2. /\ JobFits(c) /\ cJob[c] \in Stages
      /\ (~ Streams!Ended(c) => cResult = [cResult EXCEPT ![c] = "none"])
      /\ cTerminal \in [Streams!Calls -> {"none", "running", "exited", "released"}]
  BY JobIs
<1>3. CASE Streams!Goes(c, "create")
  <2>1. Going(c, "create", "none")
    BY <1>0, <1>2, <1>3, SMT
    DEF Streams!Begins, Going, Streams!Goes, Streams!Ends, Streams!Ended, Made, Streams!IsBash,
        Streams!Terminal, JobFits
  <2>2. "none" # "ok"
    BY <1>2
  <2>3. NoEditing(c)
    BY <2>1, <2>2, Zenon DEF NoEditing, Going, Stages
  <2> QED BY <1>0, <1>1, <2>1, <2>3, OneJob, Zenon DEF HandlerGoes, Untold, ToolTypes, Stages, Going
<1> QED
  BY <1>3, <1>2, Zenon DEF Streams!Begins

\* made
LEMMA CreatedGoes ==
  ASSUME ToolTypes, JobsFit, NEW c \in Streams!Calls, Streams!Created(c)
  PROVE  HandlerGoes /\ NoEditing(c)
<1>0. /\ UNCHANGED <<cMade, cCall>> /\ Streams!OfTools
  BY Zenon DEF Streams!Created, Streams!OfTools
<1>1. /\ cFile' \subseteq Streams!Calls /\ cCopy' \in [Streams!Calls -> SUBSET Streams!Calls]
  BY SMT DEF Streams!Created, ToolTypes, Streams!text, Streams!Edited
<1>2. /\ JobFits(c) /\ cJob[c] \in Stages
      /\ (~ Streams!Ended(c) => cResult = [cResult EXCEPT ![c] = "none"])
      /\ cTerminal \in [Streams!Calls -> {"none", "running", "exited", "released"}]
  BY JobIs
<1>3. cJob[c] = "create" /\ (Streams!Terminal(c, "running") \/ UNCHANGED cTerminal)
  BY Zenon DEF Streams!Created
<1>4. CASE Streams!Ends(c, "failed") /\ UNCHANGED cTerminal
  <2>1. Going(c, "over", "failed")
    BY <1>0, <1>2, <1>3, <1>4, SMT
    DEF Going, Streams!Goes, Streams!Ends, Streams!Ended, Made, Streams!IsBash, Streams!Terminal,
        JobFits
  <2>2. "failed" # "ok"
    BY <1>2
  <2>3. NoEditing(c)
    BY <2>1, <2>2, Zenon DEF NoEditing, Going, Stages
  <2> QED BY <1>0, <1>1, <2>1, <2>3, OneJob, Zenon DEF HandlerGoes, Untold, ToolTypes, Stages, Going
<1>5. CASE Streams!Goes(c, "attach") /\ Streams!Terminal(c, "running")
  <2>1. Going(c, "attach", "none")
    BY <1>0, <1>2, <1>3, <1>5, SMT
    DEF Going, Streams!Goes, Streams!Ends, Streams!Ended, Made, Streams!IsBash, Streams!Terminal,
        JobFits
  <2>2. "none" # "ok"
    BY <1>2
  <2>3. NoEditing(c)
    BY <2>1, <2>2, Zenon DEF NoEditing, Going, Stages
  <2> QED BY <1>0, <1>1, <2>1, <2>3, OneJob, Zenon DEF HandlerGoes, Untold, ToolTypes, Stages, Going
<1> QED
  BY <1>4, <1>5, <1>2, Zenon DEF Streams!Created

\* and shown;
LEMMA AttachedGoes ==
  ASSUME ToolTypes, JobsFit, NEW c \in Streams!Calls, Streams!Attached(c)
  PROVE  HandlerGoes /\ Untold /\ NoEditing(c)
<1>0. /\ UNCHANGED <<cMade, cCall>> /\ Streams!OfTools /\ UNCHANGED cStream /\ UNCHANGED cShown
  BY Zenon DEF Streams!Attached, Streams!OfTools
<1>1. /\ cFile' \subseteq Streams!Calls /\ cCopy' \in [Streams!Calls -> SUBSET Streams!Calls]
  BY SMT DEF Streams!Attached, ToolTypes, Streams!text, Streams!Edited
<1>2. /\ JobFits(c) /\ cJob[c] \in Stages
      /\ (~ Streams!Ended(c) => cResult = [cResult EXCEPT ![c] = "none"])
      /\ cTerminal \in [Streams!Calls -> {"none", "running", "exited", "released"}]
  BY JobIs
<1>3. CASE cJob' = [cJob EXCEPT ![c] = "left"] /\ cResult' = [cResult EXCEPT ![c] = "failed"]
  <2>1. Going(c, "left", "failed")
    BY <1>0, <1>2, <1>3, SMT
    DEF Streams!Attached, Going, Streams!Goes, Streams!Ends, Streams!Ended, Made, Streams!IsBash,
        Streams!Terminal, JobFits
  <2>2. "failed" # "ok"
    BY <1>2
  <2>3. NoEditing(c)
    BY <2>1, <2>2, Zenon DEF NoEditing, Going, Stages
  <2> QED BY <1>0, <1>1, <2>1, <2>3, OneJob, Zenon DEF HandlerGoes, Untold, ToolTypes, Stages, Going
<1>4. CASE cCall[c].tool = "background" /\ Streams!Ends(c, "ok")
  <2>1. Going(c, "over", "ok")
    BY <1>0, <1>2, <1>4, SMT
    DEF Streams!Attached, Going, Streams!Goes, Streams!Ends, Streams!Ended, Made, Streams!IsBash,
        Streams!Terminal, JobFits
  <2>2. cCall[c].tool # "edit"
    BY <1>2, <1>4, SMT DEF Streams!IsBash, Streams!Ends
  <2>3. NoEditing(c)
    BY <2>1, <2>2, Zenon DEF NoEditing, Going, Stages
  <2> QED BY <1>0, <1>1, <2>1, <2>3, OneJob, Zenon DEF HandlerGoes, Untold, ToolTypes, Stages, Going
<1>5. CASE Streams!Goes(c, "wait")
  <2>1. Going(c, "wait", "none")
    BY <1>0, <1>2, <1>5, SMT
    DEF Streams!Attached, Going, Streams!Goes, Streams!Ends, Streams!Ended, Made, Streams!IsBash,
        Streams!Terminal, JobFits
  <2>2. "none" # "ok"
    BY <1>2
  <2>3. NoEditing(c)
    BY <2>1, <2>2, Zenon DEF NoEditing, Going, Stages
  <2> QED BY <1>0, <1>1, <2>1, <2>3, OneJob, Zenon DEF HandlerGoes, Untold, ToolTypes, Stages, Going
<1> QED
  BY <1>3, <1>4, <1>5, <1>2, Zenon DEF Streams!Attached

\* its command is waited for,
LEMMA WaitsGoes ==
  ASSUME ToolTypes, JobsFit, NEW c \in Streams!Calls, Streams!Waits(c)
  PROVE  HandlerGoes /\ Untold /\ NoEditing(c)
<1>0. /\ UNCHANGED <<cMade, cCall>> /\ Streams!OfTools /\ UNCHANGED cStream /\ UNCHANGED cShown
  BY Zenon DEF Streams!Waits, Streams!OfTools
<1>1. /\ cFile' \subseteq Streams!Calls /\ cCopy' \in [Streams!Calls -> SUBSET Streams!Calls]
  BY SMT DEF Streams!Waits, ToolTypes, Streams!text, Streams!Edited
<1>2. /\ JobFits(c) /\ cJob[c] \in Stages
      /\ (~ Streams!Ended(c) => cResult = [cResult EXCEPT ![c] = "none"])
      /\ cTerminal \in [Streams!Calls -> {"none", "running", "exited", "released"}]
  BY JobIs
<1>3. CASE Streams!Goes(c, "output") /\ Streams!Terminal(c, "exited")
  <2>1. Going(c, "output", "none")
    BY <1>0, <1>2, <1>3, SMT
    DEF Streams!Waits, Going, Streams!Goes, Streams!Ends, Streams!Ended, Made, Streams!IsBash,
        Streams!Terminal, JobFits
  <2>2. "none" # "ok"
    BY <1>2
  <2>3. NoEditing(c)
    BY <2>1, <2>2, Zenon DEF NoEditing, Going, Stages
  <2> QED BY <1>0, <1>1, <2>1, <2>3, OneJob, Zenon DEF HandlerGoes, Untold, ToolTypes, Stages, Going
<1>4. CASE Streams!Goes(c, "release") /\ UNCHANGED cTerminal
  <2>1. Going(c, "release", "none")
    BY <1>0, <1>2, <1>4, SMT
    DEF Streams!Waits, Going, Streams!Goes, Streams!Ends, Streams!Ended, Made, Streams!IsBash,
        Streams!Terminal, JobFits
  <2>2. "none" # "ok"
    BY <1>2
  <2>3. NoEditing(c)
    BY <2>1, <2>2, Zenon DEF NoEditing, Going, Stages
  <2> QED BY <1>0, <1>1, <2>1, <2>3, OneJob, Zenon DEF HandlerGoes, Untold, ToolTypes, Stages, Going
<1>5. CASE Streams!Goes(c, "kill") /\ UNCHANGED cTerminal
  <2>1. Going(c, "kill", "none")
    BY <1>0, <1>2, <1>5, SMT
    DEF Streams!Waits, Going, Streams!Goes, Streams!Ends, Streams!Ended, Made, Streams!IsBash,
        Streams!Terminal, JobFits
  <2>2. "none" # "ok"
    BY <1>2
  <2>3. NoEditing(c)
    BY <2>1, <2>2, Zenon DEF NoEditing, Going, Stages
  <2> QED BY <1>0, <1>1, <2>1, <2>3, OneJob, Zenon DEF HandlerGoes, Untold, ToolTypes, Stages, Going
<1> QED
  BY <1>3, <1>4, <1>5, <1>2, Zenon DEF Streams!Waits

\* killed, its output read,
LEMMA AnswersGoes ==
  ASSUME ToolTypes, JobsFit, NEW c \in Streams!Calls, Streams!Answers(c)
  PROVE  HandlerGoes /\ Untold /\ NoEditing(c)
<1>0. /\ UNCHANGED <<cMade, cCall>> /\ Streams!OfTools /\ UNCHANGED cStream /\ UNCHANGED cShown
  BY Zenon DEF Streams!Answers, Streams!OfTools
<1>1. /\ cFile' \subseteq Streams!Calls /\ cCopy' \in [Streams!Calls -> SUBSET Streams!Calls]
  BY SMT DEF Streams!Answers, ToolTypes, Streams!text, Streams!Edited
<1>2. /\ JobFits(c) /\ cJob[c] \in Stages
      /\ (~ Streams!Ended(c) => cResult = [cResult EXCEPT ![c] = "none"])
      /\ cTerminal \in [Streams!Calls -> {"none", "running", "exited", "released"}]
  BY JobIs
<1>3. CASE UNCHANGED cTerminal
  <2>1. Going(c, "release", "none")
    BY <1>0, <1>2, <1>3, SMT
    DEF Streams!Answers, Going, Streams!Goes, Streams!Ends, Streams!Ended, Made, Streams!IsBash,
        Streams!Terminal, JobFits
  <2>2. "none" # "ok"
    BY <1>2
  <2>3. NoEditing(c)
    BY <2>1, <2>2, Zenon DEF NoEditing, Going, Stages
  <2> QED BY <1>0, <1>1, <2>1, <2>3, OneJob, Zenon DEF HandlerGoes, Untold, ToolTypes, Stages, Going
<1>4. CASE Streams!Terminal(c, "exited")
  <2>1. Going(c, "release", "none")
    BY <1>0, <1>2, <1>4, SMT
    DEF Streams!Answers, Going, Streams!Goes, Streams!Ends, Streams!Ended, Made, Streams!IsBash,
        Streams!Terminal, JobFits
  <2>2. "none" # "ok"
    BY <1>2
  <2>3. NoEditing(c)
    BY <2>1, <2>2, Zenon DEF NoEditing, Going, Stages
  <2> QED BY <1>0, <1>1, <2>1, <2>3, OneJob, Zenon DEF HandlerGoes, Untold, ToolTypes, Stages, Going
<1> QED
  BY <1>3, <1>4, <1>2, Zenon DEF Streams!Answers

\* and it is released;
LEMMA ReleasesGoes ==
  ASSUME ToolTypes, JobsFit, NEW c \in Streams!Calls, Streams!Releases(c)
  PROVE  HandlerGoes /\ Untold /\ NoEditing(c)
<1>0. /\ UNCHANGED <<cMade, cCall>> /\ Streams!OfTools /\ UNCHANGED cStream /\ UNCHANGED cShown
  BY Zenon DEF Streams!Releases, Streams!OfTools
<1>1. /\ cFile' \subseteq Streams!Calls /\ cCopy' \in [Streams!Calls -> SUBSET Streams!Calls]
  BY SMT DEF Streams!Releases, ToolTypes, Streams!text, Streams!Edited
<1>2. /\ JobFits(c) /\ cJob[c] \in Stages
      /\ (~ Streams!Ended(c) => cResult = [cResult EXCEPT ![c] = "none"])
      /\ cTerminal \in [Streams!Calls -> {"none", "running", "exited", "released"}]
  BY JobIs
<1>3. cJob[c] = "release" /\ Streams!IsBash(c) /\ Streams!Terminal(c, "released")
  BY Zenon DEF Streams!Releases
<1>4. CASE Streams!Ends(c, "ok")
  <2>1. Going(c, "over", "ok")
    BY <1>0, <1>2, <1>3, <1>4, SMT
    DEF Going, Streams!Goes, Streams!Ends, Streams!Ended, Made, Streams!IsBash, Streams!Terminal,
        JobFits
  <2>2. cCall[c].tool # "edit"
    BY <1>2, <1>3, SMT DEF Streams!IsBash, Streams!Ends
  <2>3. NoEditing(c)
    BY <2>1, <2>2, Zenon DEF NoEditing, Going, Stages
  <2> QED BY <1>0, <1>1, <2>1, <2>3, OneJob, Zenon DEF HandlerGoes, Untold, ToolTypes, Stages, Going
<1>5. CASE Streams!Ends(c, "failed")
  <2>1. Going(c, "over", "failed")
    BY <1>0, <1>2, <1>3, <1>5, SMT
    DEF Going, Streams!Goes, Streams!Ends, Streams!Ended, Made, Streams!IsBash, Streams!Terminal,
        JobFits
  <2>2. "failed" # "ok"
    BY <1>2
  <2>3. NoEditing(c)
    BY <2>1, <2>2, Zenon DEF NoEditing, Going, Stages
  <2> QED BY <1>0, <1>1, <2>1, <2>3, OneJob, Zenon DEF HandlerGoes, Untold, ToolTypes, Stages, Going
<1> QED
  BY <1>4, <1>5, <1>2, Zenon DEF Streams!Releases

\* one in the background is killed
LEMMA KillsBashGoes ==
  ASSUME ToolTypes, JobsFit, NEW c \in Streams!Calls, NEW d \in Streams!Calls,
         Streams!KillsBash(c, d)
  PROVE  HandlerGoes /\ Untold /\ NoEditing(c)
<1>0. /\ UNCHANGED <<cMade, cCall>> /\ Streams!OfTools /\ UNCHANGED cStream /\ UNCHANGED cShown
  BY Zenon DEF Streams!KillsBash, Streams!OfTools
<1>1. /\ cFile' \subseteq Streams!Calls /\ cCopy' \in [Streams!Calls -> SUBSET Streams!Calls]
  BY SMT DEF Streams!KillsBash, ToolTypes, Streams!text, Streams!Edited
<1>2. /\ JobFits(c) /\ cJob[c] \in Stages
      /\ (~ Streams!Ended(c) => cResult = [cResult EXCEPT ![c] = "none"])
      /\ cTerminal \in [Streams!Calls -> {"none", "running", "exited", "released"}]
  BY JobIs
<1>3. /\ cJob[c] = "begin" /\ cCall[c].tool = "kill" /\ cCall[d].tool = "background"
      /\ cResult[d] = "ok" /\ JobFits(d)
  BY JobIs, Zenon DEF Streams!KillsBash
<1>4. CASE Streams!Ends(c, "failed") /\ Streams!Terminal(d, "exited")
  <2>1. Going(c, "over", "failed")
    BY <1>0, <1>2, <1>3, <1>4, SMT
    DEF Going, Streams!Goes, Streams!Ends, Streams!Ended, Made, Streams!IsBash, Streams!Terminal,
        JobFits
  <2>2. "failed" # "ok"
    BY <1>2
  <2>3. NoEditing(c)
    BY <2>1, <2>2, Zenon DEF NoEditing, Going, Stages
  <2> QED BY <1>0, <1>1, <2>1, <2>3, OneJob, Zenon DEF HandlerGoes, Untold, ToolTypes, Stages, Going
<1>5. CASE Streams!Ends(c, "failed") /\ Streams!Terminal(d, "released")
  <2>1. Going(c, "over", "failed")
    BY <1>0, <1>2, <1>3, <1>5, SMT
    DEF Going, Streams!Goes, Streams!Ends, Streams!Ended, Made, Streams!IsBash, Streams!Terminal,
        JobFits
  <2>2. "failed" # "ok"
    BY <1>2
  <2>3. NoEditing(c)
    BY <2>1, <2>2, Zenon DEF NoEditing, Going, Stages
  <2> QED BY <1>0, <1>1, <2>1, <2>3, OneJob, Zenon DEF HandlerGoes, Untold, ToolTypes, Stages, Going
<1>6. CASE Streams!Ends(c, "ok") /\ Streams!Terminal(d, "released")
  <2>1. Going(c, "over", "ok")
    BY <1>0, <1>2, <1>3, <1>6, SMT
    DEF Going, Streams!Goes, Streams!Ends, Streams!Ended, Made, Streams!IsBash, Streams!Terminal,
        JobFits
  <2>2. cCall[c].tool # "edit"
    BY <1>2, <1>3, SMT DEF Streams!IsBash, Streams!Ends
  <2>3. NoEditing(c)
    BY <2>1, <2>2, Zenon DEF NoEditing, Going, Stages
  <2> QED BY <1>0, <1>1, <2>1, <2>3, OneJob, Zenon DEF HandlerGoes, Untold, ToolTypes, Stages, Going
<1> QED
  BY <1>4, <1>5, <1>6, <1>2, Zenon DEF Streams!KillsBash

\* or is not there.
LEMMA KillsNothingGoes ==
  ASSUME ToolTypes, JobsFit, NEW c \in Streams!Calls, Streams!KillsNothing(c)
  PROVE  HandlerGoes /\ Untold /\ NoEditing(c)
<1>0. /\ UNCHANGED <<cMade, cCall>> /\ Streams!OfTools /\ UNCHANGED cStream /\ UNCHANGED cShown
  BY Zenon DEF Streams!KillsNothing, Streams!OfTools
<1>1. /\ cFile' \subseteq Streams!Calls /\ cCopy' \in [Streams!Calls -> SUBSET Streams!Calls]
  BY SMT DEF Streams!KillsNothing, ToolTypes, Streams!text, Streams!Edited
<1>2. /\ JobFits(c) /\ cJob[c] \in Stages
      /\ (~ Streams!Ended(c) => cResult = [cResult EXCEPT ![c] = "none"])
      /\ cTerminal \in [Streams!Calls -> {"none", "running", "exited", "released"}]
  BY JobIs
<1>3. CASE Streams!Ends(c, "failed")
  <2>1. Going(c, "over", "failed")
    BY <1>0, <1>2, <1>3, SMT
    DEF Streams!KillsNothing, Going, Streams!Goes, Streams!Ends, Streams!Ended, Made,
        Streams!IsBash, Streams!Terminal, JobFits
  <2>2. "failed" # "ok"
    BY <1>2
  <2>3. NoEditing(c)
    BY <2>1, <2>2, Zenon DEF NoEditing, Going, Stages
  <2> QED BY <1>0, <1>1, <2>1, <2>3, OneJob, Zenon DEF HandlerGoes, Untold, ToolTypes, Stages, Going
<1> QED
  BY <1>3, <1>2, Zenon DEF Streams!KillsNothing

\* The entries of the tape and of what is pending have their types.
LEMMA EntryTypes ==
  ASSUME TurnTypes
  PROVE  /\ \A k \in DOMAIN cTape : cTape[k] \in TapeRecs /\ cTape[k].calls \in Seq(Streams!Calls)
         /\ \A i \in DOMAIN cStream.pending :
              /\ cStream.pending[i] \in PendingRecs
              /\ cStream.pending[i].id \in Streams!Calls
              /\ cStream.pending[i].terminal \in Streams!Calls \cup {0}
<1>1. /\ \A k \in DOMAIN cTape : cTape[k] \in TapeRecs
      /\ \A i \in DOMAIN cStream.pending : cStream.pending[i] \in PendingRecs
  BY SMT DEF TurnTypes
<1>2. /\ \A e \in TapeRecs : e.calls \in Seq(Streams!Calls)
      /\ \A e \in PendingRecs : e.id \in Streams!Calls /\ e.terminal \in Streams!Calls \cup {0}
  BY Zenon DEF TapeRecs, PendingRecs
<1> QED BY <1>1, <1>2, Zenon

\* What a handler does that the client is not told leaves the rest as it is.
LEMMA QuietKeeps ==
  ASSUME TurnTypes, ToolTypes, RoundFits, TapeFits, ShownFits, ProgressFits, TerminalsFit,
         SaidFits, HandlerGoes, Untold
  PROVE  /\ TurnTypes' /\ RoundFits' /\ TapeFits' /\ ShownFits' /\ ProgressFits'
         /\ TerminalsFit' /\ SaidFits'
<1>0. /\ UNCHANGED <<cTurn, cMade, cCall, cRound, cSaid, cTape, cReplayed, cCancels, cStream,
                     cShown>>
      /\ Onward
  BY Zenon DEF HandlerGoes, Streams!OfTools, Untold
<1>1. TurnTypes'
  BY <1>0, Zenon DEF TurnTypes
<1>2. RoundFits'
  BY <1>0, SMT DEF RoundFits, PendingIs, Onward, TurnTypes
<1>3. TapeFits'
  <2>1. \A k \in DOMAIN cTape : cTape[k].calls \in Seq(Streams!Calls)
    BY EntryTypes, Zenon
  <2> QED BY <1>0, <2>1, SMT DEF TapeFits, Onward, Streams!Ended
<1>4. ShownFits'
  BY <1>0, SMT DEF ShownFits, Onward, Streams!Ended
<1>5. ProgressFits'
  BY <1>0, SMT DEF ProgressFits
<1>6. TerminalsFit'
  <2>1. \A c \in Streams!Calls : cShown[c].terminal \in Streams!Calls \cup {0}
    BY SMT DEF TurnTypes, ShownRecs
  <2> QED BY <1>0, <2>1, SMT DEF TerminalsFit, Onward, Made, Streams!IsBash
<1>7. SaidFits'
  BY <1>0, Zenon DEF SaidFits
<1> QED
  BY <1>1, <1>2, <1>3, <1>4, <1>5, <1>6, <1>7

\* A set without one of its elements is smaller.
LEMMA OneFewer ==
  ASSUME NEW S, IsFiniteSet(S), NEW c \in S
  PROVE  /\ IsFiniteSet(S \ {c}) /\ Cardinality(S \ {c}) < Cardinality(S)
<1>1. Cardinality(S) \in Nat
  BY FS_CardinalityType
<1>2. IsFiniteSet(S \ {c}) /\ Cardinality(S \ {c}) = Cardinality(S) - 1
  BY FS_RemoveElement
<1> QED BY <1>1, <1>2

WithTerminal(s, o, c) == [s EXCEPT !.pending[o].terminal = c]
\* What is pending, with a terminal put at a place.
LEMMA PendingSet ==
  ASSUME NEW s \in [pending : Seq(PendingRecs), text : BOOLEAN], NEW o \in DOMAIN s.pending,
         NEW c \in Streams!Calls
  PROVE  LET t == WithTerminal(s, o, c) IN
         /\ t.text = s.text /\ t \in [pending : Seq(PendingRecs), text : BOOLEAN]
         /\ DOMAIN t.pending = DOMAIN s.pending
         /\ \A i \in DOMAIN s.pending :
              /\ t.pending[i].id = s.pending[i].id
              /\ t.pending[i].terminal = IF i = o THEN c ELSE s.pending[i].terminal
<1> DEFINE t == WithTerminal(s, o, c)
           p == s.pending
           r == [p[o] EXCEPT !.terminal = c]
           q == [p EXCEPT ![o] = r]
<1>1. /\ p \in Seq(PendingRecs) /\ o \in DOMAIN p /\ s.text \in BOOLEAN
      /\ DOMAIN s = {"pending", "text"}
  BY Zenon
<1>2. p[o] \in PendingRecs
  BY <1>1
<1>3. r \in PendingRecs /\ r.terminal = c /\ r.id = p[o].id
  BY <1>2 DEF PendingRecs
<1>4. t = [s EXCEPT !.pending = q]
  BY Zenon DEF WithTerminal
<1> HIDE DEF r
<1>5. /\ q \in Seq(PendingRecs) /\ DOMAIN q = DOMAIN p /\ q[o] = r
      /\ \A i \in DOMAIN p : i # o => q[i] = p[i]
  BY <1>1, <1>2, <1>3
<1> HIDE DEF p, q, t
<1>6. t.pending = q /\ t.text = s.text /\ t = [pending |-> q, text |-> s.text]
  BY <1>1, <1>4
<1>7. \A i \in DOMAIN p : q[i].id = p[i].id /\ q[i].terminal = IF i = o THEN c ELSE p[i].terminal
  BY <1>3, <1>5
<1>8. t \in [pending : Seq(PendingRecs), text : BOOLEAN]
  BY <1>1, <1>5, <1>6
<1> QED BY <1>5, <1>6, <1>7, <1>8, Zenon DEF p, t

\* Of the calls of a round with the command of one that has no terminal yet, another than
\* those shown with their terminals is free: there are as many of them as calls with terminals.
LEMMA OwnerHasTheCommand ==
  ASSUME TurnTypes, ToolTypes, JobsFit, RoundFits, TerminalsFit,
         NEW c \in Streams!Calls, Streams!Runs(c), cJob[c] = "create",
         NEW free, free = {i \in DOMAIN cStream.pending :
                             /\ Streams!IsBash(cStream.pending[i].id)
                             /\ cStream.pending[i].terminal = 0}
  PROVE  /\ Streams!OwnerOf(free, c) \in free
         /\ cCall[cStream.pending[Streams!OwnerOf(free, c)].id].command = cCall[c].command
<1> DEFINE p == cStream.pending
           same == {i \in free : cCall[p[i].id].command = cCall[c].command}
           S == {d \in Streams!Calls : /\ \E i \in DOMAIN cRound : cRound[i] = d
                                       /\ Streams!IsBash(d) /\ cCall[d].command = cCall[c].command}
           f == [d \in S |-> cShown[d].terminal]
<1>1. /\ cTurn \in {"tools", "cancelled"} /\ c \in S
      /\ PendingIs(p, cRound) /\ p \in Seq(PendingRecs)
  BY SMT DEF Streams!Runs, RoundFits, JobsFit, JobFits, TurnTypes
<1>2. same # {}
  <2> SUFFICES ASSUME same = {} PROVE FALSE
    OBVIOUS
  <2>1. ASSUME NEW d \in S PROVE cShown[d].terminal \in S \ {c}
    <3>1. PICK i \in DOMAIN cRound : cRound[i] = d
      OBVIOUS
    <3>2. /\ i \in DOMAIN p /\ p[i].id = d /\ p[i].terminal \in Streams!Calls \cup {0}
      BY <1>1, <3>1, EntryTypes, SMT DEF PendingIs
    <3>3. p[i].terminal # 0
      BY <3>2, <2>1
    <3>4. /\ cShown[d].terminal = p[i].terminal /\ Streams!IsBash(p[i].terminal)
          /\ \E j \in DOMAIN cRound : cRound[j] = p[i].terminal
      BY <1>1, <3>2, <3>3, SMT DEF TerminalsFit
    <3>5. /\ Made(cShown[d].terminal) /\ cCall[d].command = cCall[cShown[d].terminal].command
      BY <3>2, <3>3, <3>4, SMT DEF TerminalsFit
    <3>6. cShown[d].terminal # c
      BY <3>5, Zenon DEF Made
    <3> QED BY <2>1, <3>2, <3>3, <3>4, <3>5, <3>6
  <2>2. \A x, y \in S : f[x] = f[y] => x = y
    <3> TAKE x, y \in S
    <3> HAVE f[x] = f[y]
    <3>1. cShown[x].terminal = cShown[y].terminal /\ cShown[x].terminal \in Streams!Calls
      BY <2>1
    <3> QED BY <3>1, SMT DEF TerminalsFit, Streams!Calls
  <2>3. IsFiniteSet(S)
    <3>1. IsFiniteSet(Streams!Calls)
      BY FS_Interval, Resources, SMT DEF Streams!Calls, Streams!StreamsConstants
    <3> QED BY <3>1, FS_Subset
  <2>4. /\ IsFiniteSet(S \ {c}) /\ Cardinality(S \ {c}) < Cardinality(S)
    BY <1>1, <2>3, OneFewer, Zenon
  <2>5. f \in [S -> S \ {c}]
    BY <2>1
  <2> HIDE DEF S, f
  <2> QED BY <2>2, <2>3, <2>4, <2>5, FS_PigeonHole
<1>3. same \subseteq Nat
  BY <1>1, SMT
<1>4. Streams!Min(same) \in same
  BY <1>2, <1>3, MinIn
<1>5. Streams!OwnerOf(free, c) = Streams!Min(same)
  BY <1>2, Zenon DEF Streams!OwnerOf
<1> QED
  BY <1>4, <1>5

\* A terminal is shown with a call of its command.
LEMMA AttachKeeps ==
  ASSUME TurnTypes, ToolTypes, JobsFit, RoundFits, TapeFits, ShownFits, ProgressFits, TerminalsFit,
         SaidFits, NEW c \in Streams!Calls, Streams!Runs(c), cJob[c] = "create",
           Streams!AttachTerminal(c),
         HandlerGoes, cJob'[c] = "attach"
  PROVE  /\ TurnTypes' /\ RoundFits' /\ TapeFits' /\ ShownFits' /\ ProgressFits'
         /\ TerminalsFit' /\ SaidFits'
<1> DEFINE free == {i \in DOMAIN cStream.pending :
                      Streams!IsBash(cStream.pending[i].id) /\ cStream.pending[i].terminal = 0}
           o == Streams!OwnerOf(free, c)
           b == cStream.pending[o].id
<1>1. CASE free = {}
  <2>1. Untold
    BY <1>1, Zenon DEF Streams!AttachTerminal, Untold
  <2> QED BY <2>1, QuietKeeps
<1>2. CASE free # {}
  <2>1. /\ cStream' = [cStream EXCEPT !.pending[o].terminal = c]
        /\ cShown' = [cShown EXCEPT ![b].terminal = c]
    BY <1>2, Zenon DEF Streams!AttachTerminal
  <2>2. o \in free /\ cCall[b].command = cCall[c].command
    BY OwnerHasTheCommand
  <2>3. /\ UNCHANGED <<cTurn, cMade, cCall, cRound, cSaid, cTape, cReplayed, cCancels>> /\ Onward
        /\ cTurn \in {"tools", "cancelled"} /\ \E i \in DOMAIN cRound : cRound[i] = c
        /\ Streams!IsBash(c)
    BY JobIs, SMT DEF HandlerGoes, Streams!OfTools, Streams!Runs, JobFits
  <2>4. /\ cStream.pending \in Seq(PendingRecs) /\ cStream.text \in BOOLEAN
        /\ cShown \in [Streams!Calls -> ShownRecs]
        /\ cStream = [pending |-> cStream.pending, text |-> cStream.text]
        /\ PendingIs(cStream.pending, cRound)
    BY <2>3, SMT DEF TurnTypes, RoundFits
  <2>5. /\ o \in DOMAIN cStream.pending /\ b \in Streams!Calls
        /\ \E i \in DOMAIN cRound : cRound[i] = b
        /\ cStream.pending[o].terminal = 0 /\ b = cRound[o]
    <3>1. o \in DOMAIN cStream.pending /\ cStream.pending[o].terminal = 0
      BY <2>2
    <3>2. b \in Streams!Calls
      BY <3>1, EntryTypes, Zenon
    <3>3. o \in DOMAIN cRound /\ b = cRound[o]
      BY <2>4, <3>1, Zenon DEF PendingIs
    <3> QED BY <3>1, <3>2, <3>3
  <2> HIDE DEF free, o
  <2>6. /\ cStream'.text = cStream.text /\ cStream'.pending \in Seq(PendingRecs)
        /\ cStream' \in [pending : Seq(PendingRecs), text : BOOLEAN]
        /\ DOMAIN cStream'.pending = DOMAIN cStream.pending
        /\ \A i \in DOMAIN cStream.pending :
             /\ cStream'.pending[i].id = cStream.pending[i].id
             /\ cStream'.pending[i].terminal = IF i = o THEN c ELSE cStream.pending[i].terminal
    <3>1. cStream \in [pending : Seq(PendingRecs), text : BOOLEAN]
      BY Zenon DEF TurnTypes
    <3>2. cStream' = WithTerminal(cStream, o, c)
      BY <2>1, Zenon DEF WithTerminal
    <3> DEFINE w == WithTerminal(cStream, o, c)
    <3>3. /\ w.text = cStream.text /\ w \in [pending : Seq(PendingRecs), text : BOOLEAN]
          /\ DOMAIN w.pending = DOMAIN cStream.pending
          /\ \A i \in DOMAIN cStream.pending :
               /\ w.pending[i].id = cStream.pending[i].id
               /\ w.pending[i].terminal = IF i = o THEN c ELSE cStream.pending[i].terminal
      BY <2>5, <3>1, PendingSet
    <3>4. cStream' = w
      BY <3>2
    <3> HIDE DEF w
    <3> QED BY <3>3, <3>4, Zenon
  <2>7. /\ cShown' \in [Streams!Calls -> ShownRecs]
        /\ \A d \in Streams!Calls :
             /\ cShown'[d].status = cShown[d].status /\ cShown'[d].of = cShown[d].of
                                    /\ cShown'[d].terminal = IF d = b THEN c ELSE cShown[d].terminal
    <3>1. /\ cShown[b] \in ShownRecs
          /\ [cShown[b] EXCEPT !.terminal = c] \in ShownRecs
          /\ [cShown[b] EXCEPT !.terminal = c].status = cShown[b].status
          /\ [cShown[b] EXCEPT !.terminal = c].of = cShown[b].of
          /\ [cShown[b] EXCEPT !.terminal = c].terminal = c
      BY <2>4, <2>5, SMT DEF ShownRecs
    <3> QED BY <2>1, <2>4, <2>5, <3>1, SMT
  <2> HIDE DEF b
  <2>8. TurnTypes'
    BY <2>3, <2>6, <2>7, Zenon DEF TurnTypes
  <2>9. RoundFits'
    <3>1. PendingIs(cStream'.pending, cRound)
      BY <2>4, <2>6, SMT DEF PendingIs
    <3> QED BY <2>3, <3>1, SMTT(30) DEF RoundFits, Onward, TurnTypes
  <2>10. TapeFits'
    <3>1. \A k \in DOMAIN cTape : cTape[k].calls \in Seq(Streams!Calls)
      BY EntryTypes, Zenon
    <3> QED BY <2>3, <3>1, SMT DEF TapeFits, Onward, Streams!Ended
  <2>11. ShownFits'
    BY <2>3, <2>7, SMT DEF ShownFits, Onward, Streams!Ended
  <2>12. ProgressFits'
    BY <2>3, <2>7, SMT DEF ProgressFits
  <2>13. TerminalsFit'
    <3>0. \A d \in Streams!Calls : cShown[d].terminal \in Streams!Calls \cup {0}
      BY <2>4, SMT DEF ShownRecs
    <3>1. \A d \in Streams!Calls : cShown[d].terminal # c
      BY <2>3, SMT DEF TerminalsFit, Made, Streams!Calls
    <3>2. ASSUME NEW d \in Streams!Calls, cShown'[d].terminal # 0
          PROVE  /\ cJob'[d] # "none" /\ Made(cShown[d].terminal)'
                 /\ cCall[d].command = cCall[cShown'[d].terminal].command
      <4>1. CASE d = b
        BY <2>2, <2>3, <2>5, <2>7, <3>2, <4>1, SMT DEF Made, Onward, RoundFits, b
      <4>2. CASE d # b
        BY <2>3, <2>7, <3>0, <3>2, <4>2, SMT DEF Made, Onward, TerminalsFit
      <4> QED BY <4>1, <4>2
    <3>3. \A d, e \in Streams!Calls :
            cShown'[d].terminal # 0 /\ cShown'[e].terminal = cShown'[d].terminal => d = e
      BY <2>7, <3>1, SMT DEF TerminalsFit
    <3>4. ASSUME NEW i \in DOMAIN cStream'.pending, cStream'.pending[i].terminal # 0
          PROVE  /\ cShown'[cStream'.pending[i].id].terminal = cStream'.pending[i].terminal
                 /\ Streams!IsBash(cStream'.pending[i].terminal)
                 /\ \E j \in DOMAIN cRound : cRound[j] = cStream'.pending[i].terminal
      <4>1. /\ i \in DOMAIN cStream.pending /\ cStream.pending[i].id \in Streams!Calls
            /\ cStream.pending[i].id = cRound[i]
        BY <2>4, <2>6, EntryTypes, SMT DEF PendingIs
      <4>2. CASE i = o
        BY <2>3, <2>5, <2>6, <2>7, <4>1, <4>2, SMT DEF b
      <4>3. CASE i # o
        <5>1. cStream.pending[i].id # b
          BY <2>4, <2>5, <4>1, <4>3, SMT DEF RoundFits, PendingIs
        <5> QED BY <2>3, <2>6, <2>7, <3>4, <4>1, <4>3, <5>1, SMT DEF TerminalsFit
      <4> QED BY <4>2, <4>3
    <3> QED BY <2>3, <3>2, <3>3, <3>4, Zenon DEF TerminalsFit, Streams!IsBash
  <2>14. SaidFits'
    BY <2>3, <2>6, Zenon DEF SaidFits
  <2> QED BY <2>8, <2>9, <2>10, <2>11, <2>12, <2>13, <2>14
<1> QED
  BY <1>1, <1>2

\* Edits that are over stay over, and none comes to its write.
EditsStay ==
  \A c \in Streams!Calls :
    /\ cJob[c] = "over" => cJob'[c] = "over"
    /\ cJob'[c] = "write" => cJob[c] = "write"

\* No edit is lost in a step that writes none and reads none,
LEMMA NoEdit ==
  ASSUME ToolTypes, EditsFit, Streams!EditsAreKept, EditsStay, UNCHANGED Streams!text,
         \A c \in Streams!Calls : cCall'[c].tool = "edit" /\ cResult'[c] = "ok"
                                     => cCall[c].tool = "edit" /\ cResult[c] = "ok"
  PROVE  EditsFit' /\ Streams!EditsAreKept'
<1>1. /\ UNCHANGED <<cFile, cCopy>> /\ cFile \subseteq Streams!Calls
      /\ \A c \in Streams!Calls : cCopy[c] \subseteq Streams!Calls
  BY SMT DEF Streams!text, ToolTypes
<1>2. EditsFit'
  BY <1>1, SMT DEF EditsFit, EditsStay, Snapshot
<1>3. Streams!EditsAreKept'
  BY <1>1, SMT DEF Streams!EditsAreKept, EditsStay
<1> QED BY <1>2, <1>3

\* in one that reads the file,
LEMMA EditRead ==
  ASSUME ToolTypes, EditsFit, Streams!EditsAreKept, UNCHANGED <<cCall, cFile, cResult>>,
         NEW c \in Streams!Calls,
         cJob[c] = "begin", cJob' = [cJob EXCEPT ![c] = "write"],
           cCopy' = [cCopy EXCEPT ![c] = cFile]
  PROVE  EditsFit' /\ Streams!EditsAreKept'
<1>1. /\ cFile \subseteq Streams!Calls /\ \A d \in Streams!Calls : cCopy[d] \subseteq Streams!Calls
      /\ cCopy'[c] = cFile /\ cJob'[c] = "write"
      /\ \A d \in Streams!Calls \ {c} : cCopy'[d] = cCopy[d] /\ cJob'[d] = cJob[d]
  BY SMT DEF ToolTypes
<1>2. EditsFit'
  BY <1>1, SMT DEF EditsFit, Snapshot
<1>3. ASSUME NEW d \in Streams!Calls, cCall[d].tool = "edit", cResult[d] = "ok", d \notin cFile
      PROVE  \E e \in Streams!Calls \ {d} : cJob'[e] = "over" /\ d \notin cCopy'[e]
               /\ e \notin cCopy'[d]
  <2>1. d # c
    BY <1>3 DEF EditsFit
  <2>2. PICK e \in Streams!Calls \ {d} : cJob[e] = "over" /\ d \notin cCopy[e] /\ e \notin cCopy[d]
    BY <1>3 DEF Streams!EditsAreKept
  <2>3. e # c
    BY <2>2
  <2> QED BY <1>1, <2>1, <2>2, <2>3, Zenon
<1> QED BY <1>2, <1>3 DEF Streams!EditsAreKept

\* and in one that writes it.
LEMMA EditWritten ==
  ASSUME ToolTypes, EditsFit, Streams!EditsAreKept, EditsStay, UNCHANGED <<cCall, cCopy>>,
         NEW c \in Streams!Calls,
         cJob[c] = "write", cJob'[c] = "over", cFile' = Streams!Edited(c),
         \A d \in Streams!Calls : cCall[d].tool = "edit" /\ cResult'[d] = "ok"
                                     => cResult[d] = "ok" \/ d = c
  PROVE  EditsFit' /\ Streams!EditsAreKept'
<1>1. /\ cFile \subseteq Streams!Calls
      /\ (\A d \in Streams!Calls : cCopy[d] \subseteq Streams!Calls) /\ cFile' = cCopy[c] \cup {c}
  BY SMT DEF ToolTypes, Streams!Edited
<1>2. EditsFit'
  BY <1>1, SMT DEF EditsFit, EditsStay, Snapshot
<1>3. ASSUME NEW d \in Streams!Calls, cCall[d].tool = "edit", cResult'[d] = "ok", d \notin cFile'
      PROVE  \E e \in Streams!Calls \ {d} : cJob'[e] = "over" /\ d \notin cCopy[e]
               /\ e \notin cCopy[d]
  <2>1. d # c /\ d \notin cCopy[c] /\ cResult[d] = "ok"
    BY <1>1, <1>3
  <2>2. CASE d \in cFile
    <3>1. c \notin cCopy[d]
      BY <1>3, <2>1 DEF EditsFit, Snapshot
    <3> QED BY <2>1, <3>1
  <2>3. CASE d \notin cFile
    <3>1. PICK e \in Streams!Calls \ {d} : cJob[e] = "over" /\ d \notin cCopy[e]
               /\ e \notin cCopy[d]
      BY <1>3, <2>1, <2>3 DEF Streams!EditsAreKept
    <3> QED BY <3>1 DEF EditsStay
  <2> QED BY <2>2, <2>3
<1> QED BY <1>2, <1>3 DEF Streams!EditsAreKept

\* The handlers of calls that edit nothing.
LEMMA OtherHandlersKeepEdits ==
  ASSUME ToolTypes, JobsFit, EditsFit, Streams!EditsAreKept, UNCHANGED <<cCall, Streams!text>>,
         Onward, NEW c \in Streams!Calls,
         NEW where \in Stages \ {"write"}, NEW how \in {"none", "ok", "failed"},
         cJob' = [cJob EXCEPT ![c] = where], cResult' = [cResult EXCEPT ![c] = how],
         cCall[c].tool # "edit" \/ how # "ok"
  PROVE  EditsFit' /\ Streams!EditsAreKept'
<1>1. /\ cJob'[c] = where /\ cResult'[c] = how
      /\ \A d \in Streams!Calls \ {c} : cJob'[d] = cJob[d] /\ cResult'[d] = cResult[d]
  BY SMT DEF ToolTypes
<1>2. EditsStay
  BY <1>1, SMT DEF EditsStay, Onward, Streams!Ended
<1> QED BY <1>1, <1>2, NoEdit, SMT

\* The handlers keep what holds of the calls and of the turn.
LEMMA HandlersKeepTheTurn ==
  ASSUME StreamsInv, Streams!Handlers
  PROVE  /\ TurnTypes' /\ ToolTypes' /\ JobsFit' /\ RoundFits' /\ TapeFits' /\ ShownFits'
         /\ ProgressFits' /\ TerminalsFit' /\ SaidFits'
<1>0. /\ TurnTypes /\ ToolTypes /\ JobsFit /\ RoundFits /\ TapeFits /\ ShownFits /\ ProgressFits
      /\ TerminalsFit /\ SaidFits
  BY DEF StreamsInv
<1>1. PICK c \in Streams!Calls :
        \/ Streams!Asks(c) \/ Streams!EditReads(c) \/ Streams!EditWrites(c) \/ Streams!Begins(c)
             \/ Streams!Created(c) \/ Streams!Attached(c)
        \/ Streams!Waits(c) \/ Streams!Answers(c) \/ Streams!Releases(c)
             \/ Streams!KillsNothing(c) \/ \E d \in Streams!Calls : Streams!KillsBash(c, d)
  BY Zenon DEF Streams!Handlers
<1>2. CASE Streams!Created(c)
  <2>1. HandlerGoes
    BY <1>0, <1>2, CreatedGoes
  <2>2. CASE UNCHANGED <<cStream, cShown>>
    BY <1>0, <2>1, <2>2, QuietKeeps DEF Untold, HandlerGoes
  <2>3. CASE Streams!Goes(c, "attach") /\ Streams!AttachTerminal(c)
    <3>1. cJob'[c] = "attach" /\ Streams!Runs(c) /\ cJob[c] = "create" /\ Streams!AttachTerminal(c)
      BY <1>0, <1>2, <2>3, SMT DEF Streams!Goes, Streams!Created, ToolTypes
    <3>2. ToolTypes' /\ JobsFit'
      BY <2>1 DEF HandlerGoes
    <3> QED BY <1>0, <2>1, <3>1, <3>2, AttachKeeps
  <2> QED BY <1>2, <2>2, <2>3, Zenon DEF Streams!Created
<1>3. CASE ~ Streams!Created(c)
  <2>1. HandlerGoes /\ Untold
    BY <1>0, <1>1, <1>3, AsksGoes, EditReadsGoes, EditWritesGoes, BeginsGoes, AttachedGoes,
       WaitsGoes, AnswersGoes, ReleasesGoes, KillsBashGoes, KillsNothingGoes
  <2> QED BY <1>0, <2>1, QuietKeeps DEF HandlerGoes
<1> QED
  BY <1>2, <1>3

\* They keep edits, too.
LEMMA HandlersKeepEdits ==
  ASSUME StreamsInv, Streams!Handlers PROVE EditsFit' /\ Streams!EditsAreKept'
<1>0. ToolTypes /\ JobsFit /\ EditsFit /\ Streams!EditsAreKept
  BY DEF StreamsInv
<1>1. PICK c \in Streams!Calls :
        \/ Streams!Asks(c) \/ Streams!EditReads(c) \/ Streams!EditWrites(c) \/ Streams!Begins(c)
             \/ Streams!Created(c) \/ Streams!Attached(c)
        \/ Streams!Waits(c) \/ Streams!Answers(c) \/ Streams!Releases(c)
             \/ Streams!KillsNothing(c) \/ \E d \in Streams!Calls : Streams!KillsBash(c, d)
  BY Zenon DEF Streams!Handlers
<1>2. ASSUME NoEditing(c), HandlerGoes, UNCHANGED Streams!text
      PROVE  EditsFit' /\ Streams!EditsAreKept'
  <2>1. Onward /\ UNCHANGED cCall
    BY <1>2 DEF HandlerGoes, Streams!OfTools
  <2> QED BY <1>0, <1>2, <2>1, OtherHandlersKeepEdits DEF NoEditing
<1>3. CASE Streams!EditReads(c)
  <2>0. HandlerGoes /\ Onward /\ UNCHANGED cCall
    BY <1>0, <1>3, EditReadsGoes DEF HandlerGoes, Streams!OfTools
  <2>1. CASE Streams!Ends(c, "failed") /\ UNCHANGED cCopy
    <3>1. UNCHANGED Streams!text /\ NoEditing(c)
      BY <1>3, <2>1, Zenon DEF Streams!EditReads, Streams!text, NoEditing, Streams!Ends, Stages
    <3> QED BY <1>2, <2>0, <3>1
  <2>2. CASE Streams!Goes(c, "write") /\ cCopy' = [cCopy EXCEPT ![c] = cFile]
    BY <1>0, <1>3, <2>0, <2>2, EditRead DEF Streams!EditReads, Streams!Goes
  <2> QED BY <1>3, <2>1, <2>2, Zenon DEF Streams!EditReads
<1>4. CASE Streams!EditWrites(c)
  <2>0. HandlerGoes /\ Onward /\ UNCHANGED cCall
    BY <1>0, <1>4, EditWritesGoes DEF HandlerGoes, Streams!OfTools
  <2>1. CASE Streams!Ends(c, "failed") /\ UNCHANGED cFile
    <3>1. UNCHANGED Streams!text /\ NoEditing(c)
      BY <1>4, <2>1, Zenon DEF Streams!EditWrites, Streams!text, NoEditing, Streams!Ends, Stages
    <3> QED BY <1>2, <2>0, <3>1
  <2>2. CASE Streams!Ends(c, "ok") /\ cFile' = Streams!Edited(c)
    <3>1. /\ cJob[c] = "write" /\ cJob' = [cJob EXCEPT ![c] = "over"] /\ UNCHANGED cCopy
          /\ cResult' = [cResult EXCEPT ![c] = "ok"]
      BY <1>4, <2>2, Zenon DEF Streams!EditWrites, Streams!Ends
    <3>2. /\ cJob'[c] = "over"
          /\ \A d \in Streams!Calls \ {c} : cJob'[d] = cJob[d] /\ cResult'[d] = cResult[d]
      BY <1>0, <3>1, SMT DEF ToolTypes
    <3>3. EditsStay
      BY <3>1, <3>2, SMT DEF EditsStay
    <3> QED BY <1>0, <2>0, <2>2, <3>1, <3>2, <3>3, EditWritten
  <2> QED BY <1>4, <2>1, <2>2, Zenon DEF Streams!EditWrites
<1>5. CASE ~ Streams!EditReads(c) /\ ~ Streams!EditWrites(c)
  <2>1. HandlerGoes /\ NoEditing(c)
    BY <1>0, <1>1, <1>5, AsksGoes, BeginsGoes, CreatedGoes, AttachedGoes, WaitsGoes, AnswersGoes,
       ReleasesGoes, KillsBashGoes, KillsNothingGoes
  <2>2. UNCHANGED Streams!text
    BY <1>1, <1>5, Zenon
    DEF Streams!Asks, Streams!Begins, Streams!Created, Streams!Attached, Streams!Waits,
        Streams!Answers, Streams!Releases, Streams!KillsBash, Streams!KillsNothing
  <2> QED BY <1>2, <2>1, <2>2
<1> QED
  BY <1>3, <1>4, <1>5

\* A cancellation takes every handler on,
LEMMA CancelsGoes ==
  ASSUME TurnTypes, ToolTypes, JobsFit, Streams!Cancels
  PROVE  Onward /\ ToolTypes' /\ JobsFit' /\ TurnTypes'
<1> DEFINE At(c) == IF cJob[c] = "none" THEN "none" ELSE Streams!AfterCancel(cJob[c])
<1>0. /\ cJob' = [c \in Streams!Calls |-> At(c)]
      /\ cResult' = [c \in Streams!Calls |->
            IF cJob'[c] \in {"over", "left"} /\ cResult[c] = "none" THEN "failed" ELSE cResult[c]]
      /\ UNCHANGED <<cMade, cCall, cRound, cStream, cShown, cSaid, cTape, cReplayed, cTurns, cCopy>>
      /\ cTurn' = "cancelled" /\ cCancels' = cCancels + 1
      /\ cFile' \in {cFile} \cup {Streams!Edited(c) : c \in {d \in Streams!Calls : cJob[d] = "write"}}
  BY Zenon DEF Streams!Cancels
<1>1. PICK asked \in SUBSET {c \in Streams!Calls : cJob[c] = "create"} :
        cTerminal' = [c \in Streams!Calls |->
           CASE c \in asked -> "running" [] cJob[c] = "release" -> "released" [] OTHER -> cTerminal[c]]
  BY Zenon DEF Streams!Cancels
<1>2. ASSUME NEW c \in Streams!Calls
      PROVE  /\ cJob'[c] = At(c) /\ At(c) \in Stages
             /\ cResult'[c] = IF At(c) \in {"over", "left"} /\ cResult[c] = "none"
                              THEN "failed"
                              ELSE cResult[c]
             /\ cTerminal'[c] \in {"none", "running", "exited", "released"}
             /\ \/ cTerminal'[c] = "running" /\ cJob[c] = "create"
                \/ cTerminal'[c] = "released" /\ cJob[c] = "release"
                \/ cTerminal'[c] = cTerminal[c] /\ cJob[c] # "release"
             /\ cJob[c] \in Stages
  <2>1. cJob'[c] = At(c) /\ cJob[c] \in Stages
    BY <1>0, Zenon DEF ToolTypes
  <2>2. At(c) \in Stages
    BY <2>1, SMT DEF Stages, Streams!AfterCancel
  <2>3. cResult'[c] = IF At(c) \in {"over", "left"} /\ cResult[c] = "none"
                      THEN "failed"
                      ELSE cResult[c]
    BY <1>0, <2>1, Zenon
  <2>4. cTerminal'[c] =
           CASE c \in asked -> "running" [] cJob[c] = "release" -> "released" [] OTHER -> cTerminal[c]
    BY <1>1, Zenon
  <2>5. /\ cTerminal[c] \in {"none", "running", "exited", "released"}
        /\ (c \in asked => cJob[c] = "create")
    BY Zenon DEF ToolTypes
  <2>6. /\ cTerminal'[c] \in {"none", "running", "exited", "released"}
        /\ \/ cTerminal'[c] = "running" /\ cJob[c] = "create"
           \/ cTerminal'[c] = "released" /\ cJob[c] = "release"
           \/ cTerminal'[c] = cTerminal[c] /\ cJob[c] # "release"
    BY <2>4, <2>5, SMT
  <2> QED BY <2>1, <2>2, <2>3, <2>6
<1>3. Onward
  <2> SUFFICES ASSUME NEW c \in Streams!Calls
               PROVE  /\ cJob[c] = "none" <=> cJob'[c] = "none"
                      /\ Streams!Ended(c) => cJob'[c] = cJob[c] /\ cResult'[c] = cResult[c]
                      /\ Made(c) => Made(c)'
    BY DEF Onward
  <2>1. JobFits(c)
    BY DEF JobsFit
  <2> QED BY <1>2, <2>1, SMT DEF JobFits, Streams!Ended, Made, Streams!AfterCancel, Stages
<1>4. ASSUME NEW c \in Streams!Calls PROVE JobFits(c)'
  <2>1. JobFits(c)
    BY DEF JobsFit
  <2> QED BY <1>0, <1>2, <2>1, SMT DEF JobFits, Streams!Ended, Streams!IsBash, Streams!AfterCancel,
    Stages
<1>5. ToolTypes'
  <2>1. cJob' \in [Streams!Calls -> Stages]
    BY <1>0, <1>2
  <2>2. cResult' \in [Streams!Calls -> {"none", "ok", "failed"}]
    <3>1. \A c \in Streams!Calls : cResult[c] \in {"none", "ok", "failed"}
      BY DEF ToolTypes
    <3> QED BY <1>0, <3>1
  <2>3. cTerminal' \in [Streams!Calls -> {"none", "running", "exited", "released"}]
    BY <1>1, <1>2, Zenon
  <2>4. cFile' \subseteq Streams!Calls /\ cCopy' \in [Streams!Calls -> SUBSET Streams!Calls]
    BY <1>0 DEF ToolTypes, Streams!Edited
  <2> QED BY <2>1, <2>2, <2>3, <2>4 DEF ToolTypes
<1>6. TurnTypes'
  BY <1>0, SMT DEF TurnTypes
<1> QED
  BY <1>3, <1>4, <1>5, <1>6 DEF JobsFit

\* and nothing is lost by it: what a handler has shown, written or left stays.
LEMMA CancelsKeepStreams ==
  ASSUME StreamsInv, Streams!Cancels PROVE StreamsInv'
<1>0. /\ TurnTypes /\ ToolTypes /\ JobsFit /\ RoundFits /\ TapeFits /\ ShownFits /\ ProgressFits
      /\ TerminalsFit /\ SaidFits /\ EditsFit /\ Streams!EditsAreKept
  BY DEF StreamsInv
<1>1. /\ UNCHANGED <<cMade, cCall, cRound, cStream, cShown, cSaid, cTape, cReplayed, cCopy>>
      /\ cTurn \in {"model", "tools", "cancelled"} /\ cTurn' = "cancelled"
      /\ cCancels' = cCancels + 1
      /\ cJob' = [c \in Streams!Calls |-> IF cJob[c] = "none"
                                          THEN "none"
                                          ELSE Streams!AfterCancel(cJob[c])]
      /\ cResult' = [c \in Streams!Calls |->
            IF cJob'[c] \in {"over", "left"} /\ cResult[c] = "none" THEN "failed" ELSE cResult[c]]
  BY Zenon DEF Streams!Cancels
<1>2. Onward /\ ToolTypes' /\ JobsFit' /\ TurnTypes'
  BY <1>0, CancelsGoes
<1>3. RoundFits'
  <2>1. cCancels' # 0
    BY <1>0, <1>1 DEF TurnTypes
  <2>2. PendingIs(cStream.pending, cRound)
    BY <1>0, <1>1, SMT DEF RoundFits, PendingIs
  <2> QED BY <1>0, <1>1, <1>2, <2>1, <2>2, SMT DEF RoundFits, Onward, TurnTypes
<1>4. TapeFits'
  BY <1>0, <1>1, <1>2, EntryTypes, SMT DEF TapeFits, Onward, Streams!Ended
<1>5. ShownFits'
  BY <1>0, <1>1, <1>2, SMT DEF ShownFits, Onward, Streams!Ended
<1>6. ProgressFits'
  BY <1>0, <1>1, SMT DEF ProgressFits, TurnTypes
<1>7. TerminalsFit'
  <2>1. \A c \in Streams!Calls : cShown[c].terminal \in Streams!Calls \cup {0}
    BY <1>0, SMT DEF TurnTypes, ShownRecs
  <2>2. cTurn = "model" => DOMAIN cStream.pending = {}
    BY <1>0, SMT DEF RoundFits
  <2> QED BY <1>0, <1>1, <1>2, <2>1, <2>2, SMT DEF TerminalsFit, Onward, Made, Streams!IsBash
<1>8. SaidFits'
  BY <1>0, <1>1, SMT DEF SaidFits
<1>9. EditsFit' /\ Streams!EditsAreKept'
  <2>1. \A c \in Streams!Calls :
          /\ cJob[c] \in Stages
          /\ cJob'[c] = IF cJob[c] = "none" THEN "none" ELSE Streams!AfterCancel(cJob[c])
    BY <1>0, <1>1, SMT DEF ToolTypes
  <2>2. EditsStay
    BY <2>1, SMT DEF EditsStay, Streams!AfterCancel, Stages
  <2>3. \A c \in Streams!Calls : cResult'[c] = "ok" => cResult[c] = "ok"
    BY <1>1, SMT
  <2>4. CASE cFile' = cFile
    BY <1>0, <1>1, <2>2, <2>3, <2>4, NoEdit DEF Streams!text
  <2>5. ASSUME NEW c \in Streams!Calls, cJob[c] = "write", cFile' = Streams!Edited(c)
        PROVE  EditsFit' /\ Streams!EditsAreKept'
    <3>1. cJob'[c] = "over"
      BY <2>1, <2>5, SMT DEF Streams!AfterCancel
    <3> QED BY <1>0, <1>1, <2>2, <2>3, <2>5, <3>1, EditWritten
  <2>6. cFile' = cFile \/ \E c \in Streams!Calls : cJob[c] = "write" /\ cFile' = Streams!Edited(c)
    BY Zenon DEF Streams!Cancels
  <2> QED BY <2>4, <2>5, <2>6
<1> QED
  BY <1>2, <1>3, <1>4, <1>5, <1>6, <1>7, <1>8, <1>9 DEF StreamsInv

TurnMoves == UNCHANGED <<cMade, cCall, cJob, cResult, cTerminal, cFile, cCopy>>
\* A step of the turn in which no handler takes part keeps what holds of the calls.
LEMMA TurnKeepsTools ==
  ASSUME ToolTypes, JobsFit, EditsFit, Streams!EditsAreKept, TurnMoves
  PROVE  ToolTypes' /\ JobsFit' /\ EditsFit' /\ Streams!EditsAreKept'
<1>1. ToolTypes'
  BY Zenon DEF ToolTypes, TurnMoves
<1>2. JobsFit'
  BY SMT DEF JobsFit, JobFits, TurnMoves, Streams!Ended, Streams!IsBash
<1>3. EditsFit' /\ Streams!EditsAreKept'
  BY SMT DEF EditsFit, Streams!EditsAreKept, Snapshot, TurnMoves
<1> QED BY <1>1, <1>2, <1>3

\* What holds of the turn.
StreamParts ==
  TurnTypes /\ RoundFits /\ TapeFits /\ ShownFits /\ ProgressFits /\ TerminalsFit /\ SaidFits
\* The invariant in two halves, of the turn and of the calls.
LEMMA StreamPartsAre ==
  StreamsInv <=> StreamParts /\ ToolTypes /\ JobsFit /\ EditsFit /\ Streams!EditsAreKept
  BY Zenon DEF StreamsInv, StreamParts

\* What is shown stays true while the tape and the calls stay.
LEMMA ShownStays ==
  ASSUME TurnTypes, TapeFits, TerminalsFit, TurnMoves, UNCHANGED <<cShown, cTape>>
  PROVE  /\ TapeFits'
         /\ cTurn' \notin {"tools", "cancelled"} => TerminalsFit'
<1>1. TapeFits'
  BY SMT DEF TapeFits, TurnMoves, Streams!Ended
<1>2. ASSUME cTurn' \notin {"tools", "cancelled"} PROVE TerminalsFit'
  BY <1>2, SMT DEF TerminalsFit, TurnMoves, Made
<1> QED BY <1>1, <1>2

\* A turn begins,
LEMMA StartsKeeps ==
  ASSUME StreamsInv, Streams!Starts PROVE StreamsInv'
<1>0. StreamParts /\ ToolTypes /\ JobsFit /\ EditsFit /\ Streams!EditsAreKept
  BY StreamPartsAre
<1>1. /\ cTurn = "idle" /\ cTurn' = "model" /\ cSaid' = {} /\ cStream' = Streams!NoStream
      /\ TurnMoves
      /\ UNCHANGED <<cMade, cCall, cRound, cShown, cTape, cReplayed, cCancels>>
  BY Zenon DEF Streams!Starts, TurnMoves, Streams!tools, Streams!text
<1>2. /\ Streams!NoStream \in [pending : Seq(PendingRecs), text : BOOLEAN]
      /\ Streams!NoStream.pending = <<>> /\ Streams!NoStream.text = FALSE
  BY DEF Streams!NoStream
<1>3. TurnTypes'
  BY <1>0, <1>1, <1>2, SMT DEF StreamParts, TurnTypes
<1>4. RoundFits'
  BY <1>0, <1>1, <1>2, SMT DEF StreamParts, RoundFits
<1>5. ShownFits' /\ ProgressFits' /\ SaidFits'
  BY <1>0, <1>1, <1>2, SMT
  DEF StreamParts, ShownFits, ProgressFits, SaidFits, Streams!Ended, TurnMoves
<1>6. TapeFits' /\ TerminalsFit'
  BY <1>0, <1>1, ShownStays DEF StreamParts
<1>9. ToolTypes' /\ JobsFit' /\ EditsFit' /\ Streams!EditsAreKept'
  BY <1>0, <1>1, TurnKeepsTools
<1> QED BY <1>3, <1>4, <1>5, <1>6, <1>9, Zenon DEF StreamsInv

\* streams text,
LEMMA StreamsTextKeeps ==
  ASSUME StreamsInv, Streams!StreamsText PROVE StreamsInv'
<1>0. StreamParts /\ ToolTypes /\ JobsFit /\ EditsFit /\ Streams!EditsAreKept
  BY StreamPartsAre
<1>1. /\ cTurn = "model" /\ cStream' = [cStream EXCEPT !.text = TRUE]
      /\ cSaid' = cSaid \cup {"streamed"}
      /\ TurnMoves /\ UNCHANGED <<cTurn, cMade, cCall, cRound, cShown, cTape, cReplayed, cCancels>>
  BY Zenon DEF Streams!StreamsText, TurnMoves, Streams!tools, Streams!text
<1>2. /\ cStream' \in [pending : Seq(PendingRecs), text : BOOLEAN]
      /\ cStream'.pending = cStream.pending /\ cStream'.text = TRUE
  <2>1. cStream \in [pending : Seq(PendingRecs), text : BOOLEAN]
    BY <1>0, Zenon DEF StreamParts, TurnTypes
  <2>2. /\ cStream' = [pending |-> cStream.pending, text |-> TRUE]
        /\ cStream.pending \in Seq(PendingRecs)
    BY <1>1, <2>1, Zenon
  <2> QED BY <2>2, Zenon
<1>3. TurnTypes'
  BY <1>0, <1>1, <1>2, SMT DEF StreamParts, TurnTypes
<1>4. RoundFits'
  BY <1>0, <1>1, <1>2, SMT DEF StreamParts, RoundFits, TurnMoves
<1>5. ShownFits' /\ ProgressFits' /\ SaidFits'
  BY <1>0, <1>1, <1>2, SMT
  DEF StreamParts, ShownFits, ProgressFits, SaidFits, Streams!Ended, TurnMoves
<1>6. TapeFits' /\ TerminalsFit'
  BY <1>0, <1>1, ShownStays DEF StreamParts
<1>9. ToolTypes' /\ JobsFit' /\ EditsFit' /\ Streams!EditsAreKept'
  BY <1>0, <1>1, TurnKeepsTools
<1> QED BY <1>3, <1>4, <1>5, <1>6, <1>9, Zenon DEF StreamsInv

\* has its answer,
LEMMA FinishesKeeps ==
  ASSUME StreamsInv, Streams!Finishes PROVE StreamsInv'
<1>0. StreamParts /\ ToolTypes /\ JobsFit /\ EditsFit /\ Streams!EditsAreKept
  BY StreamPartsAre
<1>1. /\ cTurn = "model" /\ cTurn' = "idle" /\ cStream' = Streams!NoStream /\ TurnMoves
      /\ cSaid' = IF ~ cStream.text THEN cSaid \cup {"whole"} ELSE cSaid
      /\ UNCHANGED <<cMade, cCall, cRound, cShown, cTape, cReplayed, cCancels>>
  BY Zenon DEF Streams!Finishes, TurnMoves, Streams!tools, Streams!text, Streams!ShowsWhole
<1>2. /\ Streams!NoStream \in [pending : Seq(PendingRecs), text : BOOLEAN]
      /\ Streams!NoStream.pending = <<>> /\ Streams!NoStream.text = FALSE
  BY DEF Streams!NoStream
<1>3. TurnTypes'
  BY <1>0, <1>1, <1>2, SMT DEF StreamParts, TurnTypes
<1>4. RoundFits'
  BY <1>0, <1>1, <1>2, SMT DEF StreamParts, RoundFits, TurnMoves
<1>5. ShownFits' /\ ProgressFits'
  BY <1>0, <1>1, <1>2, SMT DEF StreamParts, ShownFits, ProgressFits, Streams!Ended, TurnMoves
<1>6. SaidFits'
  <2>1. cSaid = IF cStream.text = TRUE THEN {"streamed"} ELSE {}
    BY <1>0, <1>1 DEF StreamParts, SaidFits
  <2>2. cStream.text \in BOOLEAN
    BY <1>0 DEF StreamParts, TurnTypes
  <2>3. CASE cStream.text = TRUE
    BY <1>1, <2>1, <2>3, Zenon DEF SaidFits
  <2>4. CASE cStream.text = FALSE
    <3>1. cSaid' = {"whole"}
      BY <1>1, <2>1, <2>4, SMT
    <3> QED BY <1>1, <3>1, Zenon DEF SaidFits
  <2> QED BY <2>2, <2>3, <2>4
<1>7. TapeFits' /\ TerminalsFit'
  BY <1>0, <1>1, ShownStays DEF StreamParts
<1>9. ToolTypes' /\ JobsFit' /\ EditsFit' /\ Streams!EditsAreKept'
  BY <1>0, <1>1, TurnKeepsTools
<1> QED BY <1>3, <1>4, <1>5, <1>6, <1>7, <1>9, Zenon DEF StreamsInv

\* or dies.
LEMMA DiesKeeps ==
  ASSUME StreamsInv, Streams!Dies PROVE StreamsInv'
<1>0. StreamParts /\ ToolTypes /\ JobsFit /\ EditsFit /\ Streams!EditsAreKept
  BY StreamPartsAre
<1>1. /\ cTurn = "cancelled" /\ cTurn' = "idle" /\ cStream' = Streams!NoStream /\ TurnMoves
      /\ cRound' = <<>>
      /\ UNCHANGED <<cMade, cCall, cSaid, cShown, cTape, cReplayed, cCancels>>
  BY Zenon DEF Streams!Dies, TurnMoves, Streams!tools, Streams!text
<1>2. /\ Streams!NoStream \in [pending : Seq(PendingRecs), text : BOOLEAN]
      /\ Streams!NoStream.pending = <<>> /\ Streams!NoStream.text = FALSE
  BY DEF Streams!NoStream
<1>3. TurnTypes'
  BY <1>0, <1>1, <1>2, SMT DEF StreamParts, TurnTypes
<1>4. RoundFits'
  BY <1>0, <1>1, <1>2, SMT DEF StreamParts, RoundFits, TurnMoves
<1>5. ShownFits' /\ ProgressFits' /\ SaidFits'
  BY <1>0, <1>1, <1>2, SMT
  DEF StreamParts, ShownFits, ProgressFits, SaidFits, RoundFits, Streams!Ended, TurnMoves
<1>6. TapeFits' /\ TerminalsFit'
  BY <1>0, <1>1, ShownStays DEF StreamParts
<1>9. ToolTypes' /\ JobsFit' /\ EditsFit' /\ Streams!EditsAreKept'
  BY <1>0, <1>1, TurnKeepsTools
<1> QED BY <1>3, <1>4, <1>5, <1>6, <1>9, Zenon DEF StreamsInv

\* session/load begins
LEMMA LoadsKeeps ==
  ASSUME StreamsInv, Streams!Loads PROVE StreamsInv'
<1>0. StreamParts /\ ToolTypes /\ JobsFit /\ EditsFit /\ Streams!EditsAreKept
  BY StreamPartsAre
<1>1. /\ cTurn = "idle" /\ cTurn' = "load" /\ cStream' = Streams!NoStream /\ TurnMoves
      /\ cReplayed' = 0
      /\ cShown' = [c \in Streams!Calls |-> Streams!NotShown]
      /\ UNCHANGED <<cMade, cCall, cSaid, cRound, cTape, cCancels>>
  BY Zenon DEF Streams!Loads, TurnMoves, Streams!tools, Streams!text
<1>2. /\ Streams!NoStream \in [pending : Seq(PendingRecs), text : BOOLEAN]
      /\ Streams!NoStream.pending = <<>> /\ Streams!NoStream.text = FALSE
  BY DEF Streams!NoStream
<1>3. /\ cShown' \in [Streams!Calls -> ShownRecs]
      /\ \A c \in Streams!Calls :
           cShown'[c].status = "none" /\ cShown'[c].of = 0 /\ cShown'[c].terminal = 0
  BY <1>1 DEF Streams!NotShown, ShownRecs
<1>4. TurnTypes'
  BY <1>0, <1>1, <1>2, <1>3, SMT DEF StreamParts, TurnTypes
<1>5. RoundFits'
  BY <1>0, <1>1, <1>2, SMT DEF StreamParts, RoundFits, TurnTypes
<1>6. ShownFits' /\ ProgressFits' /\ SaidFits' /\ TerminalsFit'
  BY <1>0, <1>1, <1>3, SMT
  DEF StreamParts, ShownFits, ProgressFits, SaidFits, TerminalsFit, Streams!Ended, TurnMoves
<1>7. TapeFits'
  BY <1>0, <1>1, SMT DEF StreamParts, TapeFits, TurnMoves, Streams!Ended
<1>9. ToolTypes' /\ JobsFit' /\ EditsFit' /\ Streams!EditsAreKept'
  BY <1>0, <1>1, TurnKeepsTools
<1> QED BY <1>4, <1>5, <1>6, <1>7, <1>9, Zenon DEF StreamsInv

\* and ends.
LEMMA LoadedKeeps ==
  ASSUME StreamsInv, Streams!Loaded PROVE StreamsInv'
<1>0. StreamParts /\ ToolTypes /\ JobsFit /\ EditsFit /\ Streams!EditsAreKept
  BY StreamPartsAre
<1>1. /\ cTurn = "load" /\ cTurn' = "idle" /\ cStream' = Streams!NoStream /\ TurnMoves
      /\ cReplayed = Len(cTape)
      /\ UNCHANGED <<cMade, cCall, cSaid, cRound, cShown, cReplayed, cTape, cCancels>>
  BY Zenon DEF Streams!Loaded, TurnMoves, Streams!tools, Streams!text
<1>2. /\ Streams!NoStream \in [pending : Seq(PendingRecs), text : BOOLEAN]
      /\ Streams!NoStream.pending = <<>> /\ Streams!NoStream.text = FALSE
  BY DEF Streams!NoStream
<1>3. cRound = <<>>
  BY <1>0, <1>1, SMT DEF StreamParts, RoundFits, TurnTypes
<1>4. TurnTypes'
  BY <1>0, <1>1, <1>2, SMT DEF StreamParts, TurnTypes
<1>5. RoundFits'
  BY <1>0, <1>1, <1>2, <1>3, SMT DEF StreamParts, RoundFits, TurnTypes
<1>6. ShownFits' /\ ProgressFits' /\ SaidFits'
  BY <1>0, <1>1, SMT DEF StreamParts, ShownFits, ProgressFits, SaidFits, Streams!Ended, TurnMoves
<1>7. TapeFits' /\ TerminalsFit'
  BY <1>0, <1>1, ShownStays DEF StreamParts
<1>9. ToolTypes' /\ JobsFit' /\ EditsFit' /\ Streams!EditsAreKept'
  BY <1>0, <1>1, TurnKeepsTools
<1> QED BY <1>4, <1>5, <1>6, <1>7, <1>9, Zenon DEF StreamsInv

\* The results of a round come to its calls.
LEMMA ResultsByPlace ==
  ASSUME TurnTypes, ToolTypes, NEW calls \in Seq(Streams!Calls), PendingIs(cStream.pending, calls),
         \A i, j \in DOMAIN calls : calls[i] = calls[j] => i = j, Streams!SendToolResults(calls)
  PROVE  /\ cStream' \in [pending : Seq(PendingRecs), text : BOOLEAN]
         /\ cStream'.pending = <<>> /\ cStream'.text = cStream.text
         /\ cShown' \in [Streams!Calls -> ShownRecs]
         /\ \A c \in Streams!Calls :
              /\ cShown'[c].terminal = cShown[c].terminal
              /\ \/ /\ \E i \in DOMAIN calls : calls[i] = c
                    /\ cShown'[c].of = c /\ cShown'[c].status = cResult[c]
                 \/ /\ ~ \E i \in DOMAIN calls : calls[i] = c
                    /\ cShown'[c] = cShown[c]
<1> DEFINE place(c) == CHOOSE i \in DOMAIN cStream.pending : cStream.pending[i].id = c
           told == {i \in DOMAIN cStream.pending : i <= Len(calls)}
<1>1. /\ cStream' = [cStream EXCEPT !.pending = <<>>]
      /\ cShown' = [c \in Streams!Calls |->
           IF \E i \in told : cStream.pending[i].id = c
           THEN [cShown[c] EXCEPT !.status = cResult[calls[place(c)]], !.of = calls[place(c)]]
           ELSE cShown[c]]
  BY Zenon DEF Streams!SendToolResults
<1>2. /\ cStream' \in [pending : Seq(PendingRecs), text : BOOLEAN]
      /\ cStream'.pending = <<>> /\ cStream'.text = cStream.text
  <2>1. cStream \in [pending : Seq(PendingRecs), text : BOOLEAN]
    BY Zenon DEF TurnTypes
  <2>2. <<>> \in Seq(PendingRecs)
    OBVIOUS
  <2>3. cStream' = [pending |-> <<>>, text |-> cStream.text] /\ cStream.text \in BOOLEAN
    BY <1>1, <2>1, Zenon
  <2> QED BY <2>2, <2>3, Zenon
<1>3. /\ told = DOMAIN calls /\ DOMAIN cStream.pending = DOMAIN calls
      /\ \A i \in DOMAIN calls : cStream.pending[i].id = calls[i]
  <2>1. /\ DOMAIN cStream.pending = DOMAIN calls
        /\ \A i \in DOMAIN calls : cStream.pending[i].id = calls[i]
    BY Zenon DEF PendingIs
  <2>2. DOMAIN calls = 1 .. Len(calls) /\ Len(calls) \in Nat
    OBVIOUS
  <2>3. told = {i \in 1 .. Len(calls) : i <= Len(calls)}
    BY <2>1, <2>2
  <2>4. told = 1 .. Len(calls)
    BY <2>2, <2>3
  <2> QED BY <2>1, <2>2, <2>4
<1> HIDE DEF told
<1>4. ASSUME NEW c \in Streams!Calls
      PROVE  /\ cShown'[c] \in ShownRecs /\ cShown'[c].terminal = cShown[c].terminal
             /\ \/ /\ \E i \in DOMAIN calls : calls[i] = c
                   /\ cShown'[c].of = c /\ cShown'[c].status = cResult[c]
                \/ /\ ~ \E i \in DOMAIN calls : calls[i] = c
                   /\ cShown'[c] = cShown[c]
  <2>0. cShown[c] \in ShownRecs /\ cResult[c] \in {"none", "ok", "failed"}
    BY Zenon DEF TurnTypes, ToolTypes
  <2>1. CASE \E i \in DOMAIN calls : calls[i] = c
    <3>1. place(c) \in DOMAIN calls /\ calls[place(c)] = c
      BY <1>3, <2>1, Zenon
    <3>2. \E i \in told : cStream.pending[i].id = c
      BY <1>3, <2>1, Zenon
    <3>3. cShown'[c] = [cShown[c] EXCEPT !.status = cResult[c], !.of = c]
      BY <1>1, <3>1, <3>2, Zenon
    <3>4. cShown'[c] = [status |-> cResult[c], of |-> c, terminal |-> cShown[c].terminal]
          /\ cShown[c].terminal \in Streams!Calls \cup {0}
      BY <2>0, <3>3, Zenon DEF ShownRecs
    <3> QED BY <2>0, <2>1, <3>4, SMT DEF ShownRecs
  <2>2. CASE ~ \E i \in DOMAIN calls : calls[i] = c
    <3>0. ~ \E i \in told : cStream.pending[i].id = c
      BY <1>3, <2>2
    <3>1. cShown'[c] = cShown[c]
      BY <1>1, <3>0, Zenon
    <3> QED BY <2>0, <2>2, <3>1
  <2> QED BY <2>1, <2>2
<1>5. cShown' \in [Streams!Calls -> ShownRecs]
  BY <1>1, <1>4, Zenon
<1> QED BY <1>2, <1>4, <1>5

\* The calls of a round are told.
LEMMA CallsAreTold ==
  ASSUME TurnTypes, NEW calls \in Seq(Streams!Calls), Streams!SendToolCalls(calls)
  PROVE  /\ cStream' \in [pending : Seq(PendingRecs), text : BOOLEAN]
         /\ PendingIs(cStream'.pending, calls) /\ cStream'.text = cStream.text
         /\ \A i \in DOMAIN cStream'.pending : cStream'.pending[i].terminal = 0
         /\ cShown' \in [Streams!Calls -> ShownRecs]
         /\ \A c \in Streams!Calls :
              /\ cShown'[c].terminal = cShown[c].terminal /\ cShown'[c].of = cShown[c].of
              /\ \/ /\ \E i \in DOMAIN calls : calls[i] = c
                    /\ cShown'[c].status = "in_progress"
                 \/ /\ ~ \E i \in DOMAIN calls : calls[i] = c
                    /\ cShown'[c].status = cShown[c].status
<1> DEFINE p == Streams!PendingTools(calls)
<1>1. /\ cStream' = [cStream EXCEPT !.pending = p]
      /\ cShown' = [c \in Streams!Calls |->
                  IF \E i \in DOMAIN calls : calls[i] = c
                  THEN [cShown[c] EXCEPT !.status = "in_progress"] ELSE cShown[c]]
  BY Zenon DEF Streams!SendToolCalls
<1>2. /\ p \in Seq(PendingRecs) /\ DOMAIN p = DOMAIN calls
      /\ \A i \in DOMAIN calls : p[i].id = calls[i] /\ p[i].terminal = 0
  <2>1. \A i \in DOMAIN calls : [id |-> calls[i], terminal |-> 0] \in PendingRecs
    BY SMT DEF PendingRecs
  <2>2. p = [i \in 1 .. Len(calls) |-> [id |-> calls[i], terminal |-> 0]] /\ Len(calls) \in Nat
        /\ DOMAIN calls = 1 .. Len(calls)
    BY SMT DEF Streams!PendingTools
  <2> HIDE DEF p
  <2>3. p \in Seq(PendingRecs)
    BY <2>1, <2>2, SMT
  <2> QED BY <2>2, <2>3, SMT
<1> HIDE DEF p
<1>3. /\ cStream' \in [pending : Seq(PendingRecs), text : BOOLEAN]
      /\ cStream'.pending = p /\ cStream'.text = cStream.text
  <2>1. cStream \in [pending : Seq(PendingRecs), text : BOOLEAN]
    BY Zenon DEF TurnTypes
  <2> QED BY <1>1, <1>2, <2>1, SMT
<1>4. ASSUME NEW c \in Streams!Calls
      PROVE  /\ cShown'[c] \in ShownRecs
             /\ cShown'[c].terminal = cShown[c].terminal /\ cShown'[c].of = cShown[c].of
             /\ \/ /\ \E i \in DOMAIN calls : calls[i] = c
                   /\ cShown'[c].status = "in_progress"
                \/ /\ ~ \E i \in DOMAIN calls : calls[i] = c
                   /\ cShown'[c].status = cShown[c].status
  <2>0. cShown[c] \in ShownRecs
    BY Zenon DEF TurnTypes
  <2>1. CASE \E i \in DOMAIN calls : calls[i] = c
    <3>1. cShown'[c] = [cShown[c] EXCEPT !.status = "in_progress"]
      BY <1>1, <2>1, Zenon
    <3> QED BY <2>0, <2>1, <3>1, SMT DEF ShownRecs
  <2>2. CASE ~ \E i \in DOMAIN calls : calls[i] = c
    <3>1. cShown'[c] = cShown[c]
      BY <1>1, <2>2, Zenon
    <3> QED BY <2>0, <2>2, <3>1
  <2> QED BY <2>1, <2>2
<1>5. cShown' \in [Streams!Calls -> ShownRecs]
  BY <1>1, <1>4, Zenon
<1>6. /\ PendingIs(cStream'.pending, calls)
      /\ \A i \in DOMAIN cStream'.pending : cStream'.pending[i].terminal = 0
  BY <1>2, <1>3, Zenon DEF PendingIs
<1> QED BY <1>3, <1>4, <1>5, <1>6

\* An entry of the tape, answered.
LEMMA AnsweredSet ==
  ASSUME NEW S, NEW u \in BOOLEAN, NEW t \in [calls : S, answered : BOOLEAN]
  PROVE  LET e == [t EXCEPT !.answered = u] IN
         e \in [calls : S, answered : BOOLEAN] /\ e.calls = t.calls /\ e.answered = u
  BY SMT

\* The results of the round that ran.
LEMMA ToolResultsKeeps ==
  ASSUME StreamsInv, Streams!ToolResults PROVE StreamsInv'
<1>0. StreamParts /\ ToolTypes /\ JobsFit /\ EditsFit /\ Streams!EditsAreKept
  BY StreamPartsAre
<1>1. /\ cTurn = "tools" /\ cTurn' = "model" /\ cRound' = <<>> /\ Streams!AllEnded /\ TurnMoves
      /\ Streams!SendToolResults(cRound) /\ cTape' = [cTape EXCEPT ![Len(cTape)].answered = TRUE]
      /\ UNCHANGED <<cMade, cCall, cSaid, cReplayed, cCancels>>
  BY Zenon DEF Streams!ToolResults, TurnMoves, Streams!tools, Streams!text
<1>2. /\ cRound \in Seq(Streams!Calls) /\ PendingIs(cStream.pending, cRound) /\ cTape # <<>>
      /\ cRound = cTape[Len(cTape)].calls /\ cTape \in Seq(TapeRecs)
      /\ \A i, j \in DOMAIN cRound : cRound[i] = cRound[j] => i = j
  BY <1>0, <1>1, SMT DEF StreamParts, TurnTypes, RoundFits
<1>3. /\ cStream' \in [pending : Seq(PendingRecs), text : BOOLEAN]
      /\ cStream'.pending = <<>> /\ cStream'.text = cStream.text
      /\ cShown' \in [Streams!Calls -> ShownRecs]
      /\ \A c \in Streams!Calls :
              /\ cShown'[c].terminal = cShown[c].terminal
              /\ \/ /\ \E i \in DOMAIN cRound : cRound[i] = c
                    /\ cShown'[c].of = c /\ cShown'[c].status = cResult[c]
                 \/ /\ ~ \E i \in DOMAIN cRound : cRound[i] = c
                    /\ cShown'[c] = cShown[c]
  <2>1. TurnTypes
    BY <1>0 DEF StreamParts
  <2> QED BY <1>0, <1>1, <1>2, <2>1, ResultsByPlace
<1>4. /\ Len(cTape) \in DOMAIN cTape /\ cTape[Len(cTape)] \in TapeRecs
      /\ cTape' \in Seq(TapeRecs) /\ DOMAIN cTape' = DOMAIN cTape /\ Len(cTape') = Len(cTape)
      /\ \A k \in DOMAIN cTape :
           cTape'[k].calls = cTape[k].calls /\ cTape[k].calls \in Seq(Streams!Calls)
      /\ cTape'[Len(cTape)].answered = TRUE
      /\ \A k \in DOMAIN cTape : k # Len(cTape) => cTape'[k].answered = cTape[k].answered
  <2> DEFINE n == Len(cTape)
             e == [cTape[n] EXCEPT !.answered = TRUE]
  <2>1. n \in DOMAIN cTape /\ n \in 1 .. Len(cTape) /\ DOMAIN cTape = 1 .. Len(cTape)
    BY <1>2
  <2>2. cTape[n] \in TapeRecs
    BY <1>2, <2>1
  <2>3. e \in TapeRecs /\ e.calls = cTape[n].calls /\ e.answered = TRUE
    BY <2>2, AnsweredSet, Zenon DEF TapeRecs
  <2>4. cTape' = [cTape EXCEPT ![n] = e]
    BY <1>1, Zenon
  <2>5. \A k \in DOMAIN cTape : cTape[k].calls \in Seq(Streams!Calls)
    BY <1>0, EntryTypes DEF StreamParts
  <2> HIDE DEF e, n
  <2>6. /\ cTape' \in Seq(TapeRecs) /\ DOMAIN cTape' = DOMAIN cTape /\ Len(cTape') = Len(cTape)
        /\ cTape'[n] = e /\ \A k \in DOMAIN cTape : k # n => cTape'[k] = cTape[k]
    BY <1>2, <2>1, <2>3, <2>4, SMT
  <2> QED BY <2>1, <2>2, <2>3, <2>5, <2>6, SMT DEF n
<1>5. TurnTypes'
  BY <1>0, <1>1, <1>3, <1>4, SMT DEF StreamParts, TurnTypes
<1>6. RoundFits'
  BY <1>1, <1>3, SMT DEF RoundFits
<1>7. TapeFits'
  <2>1. TapeFits /\ \A i \in DOMAIN cRound : Streams!Ended(cRound[i])
    BY <1>0, <1>1 DEF StreamParts, Streams!AllEnded
  <2>2. cJob' = cJob /\ \A c \in Streams!Calls : Streams!Ended(c)' = Streams!Ended(c)
    BY <1>1 DEF TurnMoves, Streams!Ended
  <2>3. ASSUME NEW k \in DOMAIN cTape', NEW i \in DOMAIN cTape'[k].calls
        PROVE  /\ cJob[cTape'[k].calls[i]] # "none"
               /\ cTape'[k].answered = TRUE => Streams!Ended(cTape'[k].calls[i])
    <3>1. /\ k \in DOMAIN cTape /\ i \in DOMAIN cTape[k].calls
          /\ cTape'[k].calls[i] = cTape[k].calls[i]
      BY <1>4, <2>3
    <3>2. CASE k = Len(cTape)
      BY <1>2, <2>1, <3>1, <3>2 DEF TapeFits
    <3>3. CASE k # Len(cTape)
      BY <1>4, <2>1, <3>1, <3>3 DEF TapeFits
    <3> QED BY <3>2, <3>3
  <2>4. \A k, l \in DOMAIN cTape' : \A i \in DOMAIN cTape'[k].calls, j \in DOMAIN cTape'[l].calls :
          cTape'[k].calls[i] = cTape'[l].calls[j] => k = l /\ i = j
    BY <1>4, <2>1, SMT DEF TapeFits
  <2> QED BY <2>2, <2>3, <2>4 DEF TapeFits, Streams!Ended
<1>8. ShownFits'
  BY <1>0, <1>1, <1>3, SMT DEF StreamParts, ShownFits, Streams!AllEnded, Streams!Ended, TurnMoves
<1>9. ProgressFits'
  <2> SUFFICES ASSUME cCancels = 0
               PROVE  /\ \A c \in Streams!Calls : cShown'[c].status # "in_progress"
                      /\ \A k \in DOMAIN cTape' : cTape'[k].answered = TRUE
    BY <1>1 DEF ProgressFits
  <2>1. /\ \A c \in Streams!Calls : cShown[c].status = "in_progress"
          => \E i \in DOMAIN cRound : cRound[i] = c
        /\ \A k \in DOMAIN cTape : cTape[k].answered = TRUE \/ k = Len(cTape)
    BY <1>0, Zenon DEF StreamParts, ProgressFits
  <2>2. \A c \in Streams!Calls : cResult[c] # "in_progress"
    BY <1>0, SMT DEF ToolTypes
  <2>3. ASSUME NEW c \in Streams!Calls PROVE cShown'[c].status # "in_progress"
    BY <1>3, <2>1, <2>2
  <2>4. ASSUME NEW k \in DOMAIN cTape' PROVE cTape'[k].answered = TRUE
    BY <1>4, <2>1
  <2> QED BY <2>3, <2>4
<1>10. TerminalsFit'
  BY <1>0, <1>1, <1>3, SMT DEF StreamParts, TerminalsFit, Made, TurnMoves
<1>11. SaidFits'
  BY <1>0, <1>1, <1>3, SMT DEF StreamParts, SaidFits
<1>12. ToolTypes' /\ JobsFit' /\ EditsFit' /\ Streams!EditsAreKept'
  BY <1>0, <1>1, TurnKeepsTools
<1> QED
  BY <1>5, <1>6, <1>7, <1>8, <1>9, <1>10, <1>11, <1>12, Zenon DEF StreamsInv

\* session/load shows the calls of a round,
LEMMA ReplaysCallsKeeps ==
  ASSUME StreamsInv, cTurn = "load", cReplayed < Len(cTape), cRound = <<>>,
         Streams!SendToolCalls(cTape[cReplayed + 1].calls),
         IF cTape[cReplayed + 1].answered THEN cRound' = cTape[cReplayed + 1].calls
           /\ UNCHANGED cReplayed
         ELSE cReplayed' = cReplayed + 1 /\ UNCHANGED cRound,
         UNCHANGED cTurn, UNCHANGED <<cSaid, cTape, cCancels>>, TurnMoves
  PROVE  StreamsInv'
<1> DEFINE n == cReplayed + 1
           calls == cTape[n].calls
<1>0. StreamParts /\ ToolTypes /\ JobsFit /\ EditsFit /\ Streams!EditsAreKept /\ TurnTypes
  BY StreamPartsAre DEF StreamParts
<1>1. /\ n \in DOMAIN cTape /\ cReplayed \in Nat /\ cTape \in Seq(TapeRecs) /\ n = cReplayed + 1
      /\ n <= Len(cTape)
  BY <1>0, SMT DEF TurnTypes
<1>2. calls \in Seq(Streams!Calls) /\ cTape[n].answered \in BOOLEAN
  <2>1. cTape[n] \in TapeRecs
    BY <1>1
  <2> QED BY <2>1, Zenon DEF TapeRecs
<1>3. /\ cStream' \in [pending : Seq(PendingRecs), text : BOOLEAN]
      /\ PendingIs(cStream'.pending, calls) /\ cStream'.text = cStream.text
      /\ cShown' \in [Streams!Calls -> ShownRecs]
      /\ \A c \in Streams!Calls :
              /\ cShown'[c].terminal = cShown[c].terminal /\ cShown'[c].of = cShown[c].of
              /\ \/ /\ \E i \in DOMAIN calls : calls[i] = c
                    /\ cShown'[c].status = "in_progress"
                 \/ /\ ~ \E i \in DOMAIN calls : calls[i] = c
                    /\ cShown'[c].status = cShown[c].status
  BY <1>0, <1>2, CallsAreTold, Zenon
<1>4. \/ cTape[n].answered = TRUE /\ cRound' = calls /\ cReplayed' = cReplayed
      \/ cTape[n].answered = FALSE /\ cRound' = <<>> /\ cReplayed' = n
  BY <1>2, Zenon
<1>5. /\ \A i \in DOMAIN calls : cJob[calls[i]] # "none"
      /\ \A i, j \in DOMAIN calls : calls[i] = calls[j] => i = j
      /\ \A k \in 1 .. cReplayed : k \in DOMAIN cTape /\ k # n
      /\ \A k \in DOMAIN cTape : k # n =>
           \A i \in DOMAIN calls : \A j \in DOMAIN cTape[k].calls : cTape[k].calls[j] # calls[i]
  <2>1. \A k \in 1 .. cReplayed : k \in DOMAIN cTape /\ k # n
    BY <1>1, SMT
  <2>2. TapeFits
    BY <1>0 DEF StreamParts
  <2> HIDE DEF n
  <2> QED BY <1>1, <2>1, <2>2 DEF TapeFits
<1> HIDE DEF n, calls
<1>6. TurnTypes'
  <2>1. cRound' \in Seq(Streams!Calls) /\ cReplayed' \in Nat
    <3>1. <<>> \in Seq(Streams!Calls) /\ n \in Nat
      BY <1>1
    <3> QED BY <1>1, <1>2, <1>4, <3>1, Zenon
  <2> QED BY <1>0, <1>3, <2>1, Zenon DEF TurnTypes, TurnMoves
<1>7. RoundFits'
  <2>1. cJob' = cJob
    BY DEF TurnMoves
  <2>2. CASE cTape[n].answered = TRUE /\ cRound' = calls /\ cReplayed' = cReplayed
    BY <1>1, <1>3, <1>5, <2>1, <2>2, SMT DEF RoundFits, calls, n
  <2>3. CASE cRound' = <<>> /\ cReplayed' = n
    BY <1>1, <1>3, <1>5, <2>1, <2>3, SMT DEF RoundFits
  <2> QED BY <1>4, <2>2, <2>3
<1>8. TapeFits'
  BY <1>0, SMT DEF StreamParts, TapeFits, TurnMoves, Streams!Ended
<1>9. ShownFits'
  <2>1. ASSUME NEW c \in Streams!Calls, cShown'[c].of # 0
        PROVE  /\ cShown'[c].of = c /\ cShown'[c].status = cResult[c] /\ Streams!Ended(c)
               /\ \E k \in 1 .. cReplayed : \E i \in DOMAIN cTape[k].calls : cTape[k].calls[i] = c
    <3>1. cShown'[c].of = cShown[c].of
      BY <1>3
    <3>2. cShown[c].of = c /\ cShown[c].status = cResult[c] /\ Streams!Ended(c)
      BY <1>0, <2>1, <3>1 DEF StreamParts, ShownFits
    <3>3. PICK k \in 1 .. cReplayed : \E i \in DOMAIN cTape[k].calls : cTape[k].calls[i] = c
      BY <1>0, <2>1, <3>1, Zenon DEF StreamParts, ShownFits
    <3>4. ~ \E i \in DOMAIN calls : calls[i] = c
      BY <1>5, <3>3, Zenon
    <3>5. cShown'[c].status = cShown[c].status
      BY <1>3, <3>4
    <3> QED BY <3>1, <3>2, <3>3, <3>5
  <2>2. cJob' = cJob /\ cResult' = cResult
    BY DEF TurnMoves
  <2>3. 1 .. cReplayed \subseteq 1 .. cReplayed'
    BY <1>1, <1>4, SMT
  <2> QED BY <2>1, <2>2, <2>3 DEF ShownFits, Streams!Ended
<1>10. ProgressFits'
  <2> SUFFICES ASSUME cCancels = 0
               PROVE  /\ \A c \in Streams!Calls : cShown'[c].status = "in_progress"
                        => \E i \in DOMAIN cRound' : cRound'[i] = c
                      /\ \A k \in DOMAIN cTape : cTape[k].answered = TRUE
    BY DEF ProgressFits
  <2>1. /\ \A c \in Streams!Calls : cShown[c].status # "in_progress"
        /\ \A k \in DOMAIN cTape : cTape[k].answered = TRUE
    BY <1>0, SMT DEF StreamParts, ProgressFits
  <2>2. cRound' = calls
    BY <1>1, <1>4, <2>1
  <2> QED BY <1>3, <2>1, <2>2
<1>11. TerminalsFit'
  BY <1>0, <1>3, SMT DEF StreamParts, TerminalsFit, Made, TurnMoves
<1>12. SaidFits'
  BY <1>0, <1>3, SMT DEF StreamParts, SaidFits
<1>13. ToolTypes' /\ JobsFit' /\ EditsFit' /\ Streams!EditsAreKept'
  BY <1>0, TurnKeepsTools
<1> QED
  BY <1>6, <1>7, <1>8, <1>9, <1>10, <1>11, <1>12, <1>13, Zenon DEF StreamsInv

\* and their results.
LEMMA ReplaysResultsKeeps ==
  ASSUME StreamsInv, cTurn = "load", cReplayed < Len(cTape), cRound # <<>>,
         Streams!SendToolResults(cTape[cReplayed + 1].calls), cRound' = <<>>,
           cReplayed' = cReplayed + 1,
         UNCHANGED cTurn, UNCHANGED <<cSaid, cTape, cCancels>>, TurnMoves
  PROVE  StreamsInv'
<1>0. StreamParts /\ ToolTypes /\ JobsFit /\ EditsFit /\ Streams!EditsAreKept /\ TurnTypes
  BY StreamPartsAre DEF StreamParts
<1>1. /\ cReplayed + 1 \in DOMAIN cTape /\ cReplayed \in Nat /\ cTape \in Seq(TapeRecs)
      /\ cReplayed + 1 <= Len(cTape)
  BY <1>0, SMT DEF TurnTypes
<1>2. /\ cRound \in Seq(Streams!Calls) /\ PendingIs(cStream.pending, cRound)
      /\ cRound = cTape[cReplayed + 1].calls /\ cTape[cReplayed + 1].answered = TRUE
      /\ \A i, j \in DOMAIN cRound : cRound[i] = cRound[j] => i = j
  BY <1>0, SMT DEF StreamParts, TurnTypes, RoundFits
<1>3. /\ cStream' \in [pending : Seq(PendingRecs), text : BOOLEAN]
      /\ cStream'.pending = <<>> /\ cStream'.text = cStream.text
      /\ cShown' \in [Streams!Calls -> ShownRecs]
      /\ \A c \in Streams!Calls :
              /\ cShown'[c].terminal = cShown[c].terminal
              /\ \/ /\ \E i \in DOMAIN cRound : cRound[i] = c
                    /\ cShown'[c].of = c /\ cShown'[c].status = cResult[c]
                 \/ /\ ~ \E i \in DOMAIN cRound : cRound[i] = c
                    /\ cShown'[c] = cShown[c]
  BY <1>0, <1>2, ResultsByPlace
<1>4. \A i \in DOMAIN cRound : Streams!Ended(cRound[i])
  BY <1>0, <1>1, <1>2 DEF StreamParts, TapeFits
<1>5. TurnTypes'
  BY <1>0, <1>1, <1>3, SMT DEF TurnTypes, TurnMoves
<1>6. RoundFits'
  BY <1>1, <1>3, SMT DEF RoundFits
<1>7. TapeFits'
  BY <1>0, SMT DEF StreamParts, TapeFits, TurnMoves, Streams!Ended
<1>8. ShownFits'
  <2>1. ASSUME NEW c \in Streams!Calls, cShown'[c].of # 0
        PROVE  /\ cShown'[c].of = c /\ cShown'[c].status = cResult[c] /\ Streams!Ended(c)
               /\ \E k \in 1 .. cReplayed' : \E i \in DOMAIN cTape[k].calls : cTape[k].calls[i] = c
    <3>1. CASE \E i \in DOMAIN cRound : cRound[i] = c
      <4>1. cShown'[c].of = c /\ cShown'[c].status = cResult[c] /\ Streams!Ended(c)
        BY <1>3, <1>4, <3>1
      <4>2. cReplayed' \in 1 .. cReplayed' /\ cRound = cTape[cReplayed'].calls
        BY <1>1, <1>2
      <4> QED BY <3>1, <4>1, <4>2
    <3>2. CASE ~ \E i \in DOMAIN cRound : cRound[i] = c
      <4>1. cShown'[c] = cShown[c]
        BY <1>3, <3>2
      <4>2. /\ cShown[c].of = c /\ cShown[c].status = cResult[c] /\ Streams!Ended(c)
            /\ \E k \in 1 .. cReplayed : \E i \in DOMAIN cTape[k].calls : cTape[k].calls[i] = c
        BY <1>0, <2>1, <4>1, Zenon DEF StreamParts, ShownFits
      <4>3. 1 .. cReplayed \subseteq 1 .. cReplayed'
        BY <1>1
      <4> QED BY <4>1, <4>2, <4>3
    <3> QED BY <3>1, <3>2
  <2>2. cJob' = cJob /\ cResult' = cResult
    BY DEF TurnMoves
  <2> QED BY <2>1, <2>2 DEF ShownFits, Streams!Ended
<1>9. ProgressFits'
  <2>1. \A c \in Streams!Calls : \A i \in DOMAIN cRound :
          cRound[i] = c => cResult[c] # "in_progress"
    BY <1>0, SMT DEF ToolTypes
  <2> QED BY <1>0, <1>3, <2>1, SMT DEF StreamParts, ProgressFits
<1>10. TerminalsFit'
  BY <1>0, <1>3, SMT DEF StreamParts, TerminalsFit, Made, TurnMoves
<1>11. SaidFits'
  BY <1>0, <1>3, SMT DEF StreamParts, SaidFits
<1>12. ToolTypes' /\ JobsFit' /\ EditsFit' /\ Streams!EditsAreKept'
  BY <1>0, TurnKeepsTools
<1> QED
  BY <1>5, <1>6, <1>7, <1>8, <1>9, <1>10, <1>11, <1>12, Zenon DEF StreamsInv

\* The model asks for a round.
LEMMA CallsToolsKeeps ==
  ASSUME StreamsInv, NEW asked \in Rounds, Streams!CallsTools(asked) PROVE StreamsInv'
<1> DEFINE calls == [i \in DOMAIN asked |-> cMade + i]
<1>0. /\ StreamParts /\ ToolTypes /\ JobsFit /\ EditsFit /\ Streams!EditsAreKept /\ TurnTypes
      /\ RoundFits /\ TapeFits
      /\ ShownFits /\ ProgressFits /\ TerminalsFit /\ SaidFits
  BY StreamPartsAre DEF StreamParts
<1>1. /\ cTurn = "model" /\ cMade + Len(asked) <= MaxCalls /\ cMade' = cMade + Len(asked)
      /\ cRound' = calls /\ Streams!SendToolCalls(calls) /\ cTurn' = "tools"
      /\ cTape' = Append(cTape, [calls |-> calls, answered |-> FALSE])
      /\ cCall' = [c \in Streams!Calls |-> IF c \in cMade + 1 .. cMade'
                                           THEN asked[c - cMade]
                                           ELSE cCall[c]]
      /\ cJob' = [c \in Streams!Calls |-> IF c \in cMade + 1 .. cMade' THEN "begin" ELSE cJob[c]]
      /\ UNCHANGED <<cResult, cTerminal, cFile, cCopy, cSaid, cReplayed, cTurns, cCancels>>
  BY Zenon DEF Streams!CallsTools, Streams!text
<1>2. /\ asked \in Seq(Streams!AskedCalls) /\ cMade \in Nat /\ MaxCalls \in Nat
      /\ cMade' \in 0 .. MaxCalls
      /\ DOMAIN asked = 1 .. Len(asked) /\ Len(asked) \in Nat
  BY <1>0, <1>1, Resources, SMT DEF Streams!StreamsConstants, TurnTypes
<1>3. /\ calls \in Seq(Streams!Calls) /\ DOMAIN calls = 1 .. Len(asked)
      /\ \A i \in DOMAIN calls :
           calls[i] = cMade + i /\ calls[i] \in Streams!Calls /\ calls[i] \in cMade + 1 .. cMade'
      /\ \A c \in cMade + 1 .. cMade' : c - cMade \in DOMAIN calls /\ calls[c - cMade] = c
      /\ \A c \in cMade + 1 .. cMade' : c \in Streams!Calls
  <2>1. /\ DOMAIN calls = 1 .. Len(asked)
        /\ \A i \in 1 .. Len(asked) : calls[i] = cMade + i /\ cMade + i \in Streams!Calls
    BY <1>1, <1>2, SMT DEF Streams!Calls
  <2>2. calls = [i \in 1 .. Len(asked) |-> cMade + i]
    BY <1>2
  <2> HIDE DEF calls
  <2>3. calls \in Seq(Streams!Calls)
    BY <1>2, <2>1, <2>2, SMT
  <2> QED BY <1>1, <1>2, <2>1, <2>3, SMT DEF Streams!Calls
<1> HIDE DEF calls
<1>4. \A c \in Streams!Calls :
        \/ /\ c \in cMade + 1 .. cMade' /\ c > cMade /\ cJob[c] = "none" /\ cJob'[c] = "begin"
           /\ cResult[c] = "none" /\ cTerminal[c] = "none" /\ cCall'[c] \in CallRecs
           /\ cCall'[c].tool \in Streams!Names /\ \E i \in DOMAIN calls : calls[i] = c
        \/ /\ c \notin cMade + 1 .. cMade' /\ cCall'[c] = cCall[c] /\ cJob'[c] = cJob[c]
           /\ (cJob[c] = "none" <=> c > cMade') /\ ~ \E i \in DOMAIN calls : calls[i] = c
  <2> TAKE c \in Streams!Calls
  <2>0. JobFits(c) /\ cResult[c] \in {"none", "ok", "failed"} /\ c \in Nat
    BY <1>0, <1>2, SMT DEF JobsFit, ToolTypes, Streams!Calls
  <2>1. CASE c \in cMade + 1 .. cMade'
    <3>1. /\ c > cMade /\ c - cMade \in DOMAIN asked /\ c - cMade \in DOMAIN calls
          /\ calls[c - cMade] = c
      BY <1>1, <1>2, <1>3, <2>1, SMT
    <3>2. asked[c - cMade] \in Streams!AskedCalls
      BY <1>2, <3>1
    <3>3. cCall'[c] = asked[c - cMade] /\ cJob'[c] = "begin"
      BY <1>1, <2>1, Zenon
    <3>4. cCall'[c] \in CallRecs /\ cCall'[c].tool \in Streams!Names
      BY <3>2, <3>3, SMT DEF CallRecs, Streams!AskedCalls
    <3>5. cJob[c] = "none" /\ cResult[c] = "none" /\ cTerminal[c] = "none"
      BY <2>0, <3>1, SMT DEF JobFits, Streams!Ended
    <3> QED BY <2>1, <3>1, <3>3, <3>4, <3>5
  <2>2. CASE c \notin cMade + 1 .. cMade'
    <3>1. cCall'[c] = cCall[c] /\ cJob'[c] = cJob[c]
      BY <1>1, <2>2, Zenon
    <3>2. cJob[c] = "none" <=> c > cMade'
      BY <1>1, <1>2, <2>0, <2>2, SMT DEF JobFits
    <3>3. ~ \E i \in DOMAIN calls : calls[i] = c
      BY <1>3, <2>2
    <3> QED BY <2>2, <3>1, <3>2, <3>3
  <2> QED BY <2>1, <2>2
<1>5. /\ cStream' \in [pending : Seq(PendingRecs), text : BOOLEAN]
      /\ PendingIs(cStream'.pending, calls) /\ cStream'.text = cStream.text
      /\ \A i \in DOMAIN cStream'.pending : cStream'.pending[i].terminal = 0
      /\ cShown' \in [Streams!Calls -> ShownRecs]
      /\ \A c \in Streams!Calls :
              /\ cShown'[c].terminal = cShown[c].terminal /\ cShown'[c].of = cShown[c].of
              /\ \/ /\ \E i \in DOMAIN calls : calls[i] = c
                    /\ cShown'[c].status = "in_progress"
                 \/ /\ ~ \E i \in DOMAIN calls : calls[i] = c
                    /\ cShown'[c].status = cShown[c].status
  BY <1>0, <1>1, <1>3, CallsAreTold
<1>6. /\ cTape' \in Seq(TapeRecs) /\ cTape \in Seq(TapeRecs) /\ Len(cTape') = Len(cTape) + 1
      /\ DOMAIN cTape' = DOMAIN cTape \cup {Len(cTape')} /\ Len(cTape') \notin DOMAIN cTape
      /\ cTape' # <<>>
      /\ \A k \in DOMAIN cTape : cTape'[k] = cTape[k]
      /\ cTape'[Len(cTape')].calls = calls /\ cTape'[Len(cTape')].answered = FALSE
  <2> DEFINE e == [calls |-> calls, answered |-> FALSE]
  <2>1. e \in TapeRecs /\ e.calls = calls /\ e.answered = FALSE
    BY <1>3, Zenon DEF TapeRecs
  <2>2. cTape \in Seq(TapeRecs) /\ cTape' = Append(cTape, e)
    BY <1>0, <1>1, Zenon DEF TurnTypes
  <2> HIDE DEF e
  <2> QED BY <2>1, <2>2, SMT
<1>7. TurnTypes'
  <2>1. cCall' \in [Streams!Calls -> CallRecs]
    <3>1. \A c \in Streams!Calls : cCall[c] \in CallRecs
      BY <1>0 DEF TurnTypes
    <3>2. \A c \in Streams!Calls : cCall'[c] \in CallRecs
      BY <1>4, <3>1
    <3> QED BY <1>1, <3>2, Zenon
  <2> QED BY <1>0, <1>1, <1>2, <1>3, <1>5, <1>6, <2>1, Zenon DEF TurnTypes
<1>8. ToolTypes'
  <2>1. cJob' \in [Streams!Calls -> Stages]
    BY <1>0, <1>1, SMT DEF ToolTypes, Stages
  <2> QED BY <1>0, <1>1, <2>1, Zenon DEF ToolTypes
<1>9. JobsFit'
  <2> SUFFICES ASSUME NEW c \in Streams!Calls PROVE JobFits(c)'
    BY DEF JobsFit
  <2>1. JobFits(c)
    BY <1>0 DEF JobsFit
  <2>2. CASE c \in cMade + 1 .. cMade'
    <3>1. ~(c > cMade') /\ cJob'[c] = "begin" /\ cResult'[c] = "none" /\ cTerminal'[c] = "none"
      BY <1>1, <1>2, <1>4, <2>2, SMT
    <3> QED BY <3>1, SMT DEF JobFits, Streams!Ended
  <2>3. CASE c \notin cMade + 1 .. cMade'
    <3>1. /\ cCall'[c] = cCall[c] /\ cJob'[c] = cJob[c] /\ cResult' = cResult
          /\ cTerminal' = cTerminal
          /\ cJob[c] = "none" <=> c > cMade'
      BY <1>1, <1>4, <2>3
    <3> QED BY <2>1, <3>1, SMT DEF JobFits, Streams!Ended, Streams!IsBash
  <2> QED BY <2>2, <2>3
<1>10. RoundFits'
  <2>1. \A i, j \in DOMAIN calls : calls[i] = calls[j] => i = j
    BY <1>2, <1>3, SMT
  <2>2. \A i \in DOMAIN calls : cJob'[calls[i]] # "none"
    BY <1>3, <1>4, SMT
  <2>3. /\ cTurn' = "tools" /\ PendingIs(cStream'.pending, cRound') /\ cTape' # <<>>
        /\ cRound' = cTape'[Len(cTape')].calls
        /\ \A i, j \in DOMAIN cRound' : cRound'[i] = cRound'[j] => i = j
        /\ \A i \in DOMAIN cRound' : cJob'[cRound'[i]] # "none"
    BY <1>1, <1>5, <1>6, <2>1, <2>2, Zenon
  <2> QED BY <2>3, Zenon DEF RoundFits
<1>11. TapeFits'
  <2>0. \A k \in DOMAIN cTape : cTape[k].calls \in Seq(Streams!Calls)
    BY <1>0, EntryTypes
  <2>1. ASSUME NEW k \in DOMAIN cTape, NEW i \in DOMAIN cTape[k].calls
        PROVE  /\ cTape[k].calls[i] \in Streams!Calls /\ cJob[cTape[k].calls[i]] # "none"
               /\ cJob'[cTape[k].calls[i]] = cJob[cTape[k].calls[i]]
               /\ ~ \E j \in DOMAIN calls : calls[j] = cTape[k].calls[i]
    <3>1. cTape[k].calls[i] \in Streams!Calls /\ cJob[cTape[k].calls[i]] # "none"
      BY <1>0, <2>0 DEF TapeFits
    <3> QED BY <1>4, <3>1
  <2>2. ASSUME NEW k \in DOMAIN cTape', NEW i \in DOMAIN cTape'[k].calls
        PROVE  /\ cJob'[cTape'[k].calls[i]] # "none"
               /\ cTape'[k].answered = TRUE => cJob'[cTape'[k].calls[i]] \in {"over", "left"}
    <3>1. CASE k \in DOMAIN cTape
      BY <1>0, <1>6, <2>1, <3>1 DEF TapeFits, Streams!Ended
    <3>2. CASE k = Len(cTape')
      <4>1. cTape'[k].calls = calls /\ cTape'[k].answered = FALSE /\ i \in DOMAIN calls
        BY <1>6, <3>2
      <4>2. cJob'[calls[i]] = "begin"
        BY <1>3, <1>4, <4>1
      <4> QED BY <4>1, <4>2
    <3> QED BY <1>6, <3>1, <3>2
  <2>3. ASSUME NEW k \in DOMAIN cTape', NEW l \in DOMAIN cTape',
               NEW i \in DOMAIN cTape'[k].calls, NEW j \in DOMAIN cTape'[l].calls,
               cTape'[k].calls[i] = cTape'[l].calls[j]
        PROVE  k = l /\ i = j
    <3>1. CASE k \in DOMAIN cTape /\ l \in DOMAIN cTape
      BY <1>0, <1>6, <2>3, <3>1 DEF TapeFits
    <3>2. CASE k \in DOMAIN cTape /\ l = Len(cTape')
      BY <1>6, <2>1, <2>3, <3>2
    <3>3. CASE k = Len(cTape') /\ l \in DOMAIN cTape
      BY <1>6, <2>1, <2>3, <3>3
    <3>4. CASE k = Len(cTape') /\ l = Len(cTape')
      <4>1. i \in DOMAIN calls /\ j \in DOMAIN calls /\ calls[i] = calls[j]
        BY <1>6, <2>3, <3>4, Zenon
      <4>2. cMade + i = cMade + j /\ i \in Nat /\ j \in Nat
        BY <1>2, <1>3, <4>1
      <4> QED BY <1>2, <3>4, <4>2
    <3> QED BY <1>6, <3>1, <3>2, <3>3, <3>4
  <2> QED BY <2>2, <2>3 DEF TapeFits, Streams!Ended
<1>12. ShownFits'
  <2> SUFFICES ASSUME NEW c \in Streams!Calls, cShown'[c].of # 0
               PROVE  /\ cShown'[c].of = c /\ cShown'[c].status = cResult[c]
                      /\ cJob'[c] \in {"over", "left"}
    BY <1>1 DEF ShownFits, Streams!Ended
  <2>1. cShown[c].of = c /\ cShown[c].status = cResult[c] /\ cJob[c] \in {"over", "left"}
    BY <1>0, <1>5 DEF ShownFits, Streams!Ended
  <2> QED BY <1>4, <1>5, <2>1
<1>13. ProgressFits'
  <2> SUFFICES ASSUME cCancels = 0
               PROVE  /\ \A c \in Streams!Calls : cShown'[c].status = "in_progress"
                        => \E i \in DOMAIN calls : calls[i] = c
                      /\ \A k \in DOMAIN cTape' : cTape'[k].answered = TRUE \/ k = Len(cTape')
    BY <1>1 DEF ProgressFits
  <2>1. /\ \A c \in Streams!Calls : cShown[c].status # "in_progress"
        /\ \A k \in DOMAIN cTape : cTape[k].answered = TRUE
    BY <1>0, <1>1, SMT DEF ProgressFits, RoundFits
  <2> QED BY <1>5, <1>6, <2>1
<1>14. TerminalsFit'
  <2>0. \A c \in Streams!Calls :
          cShown[c].terminal \in Streams!Calls \cup {0} /\ cShown'[c].terminal = cShown[c].terminal
    <3>1. \A c \in Streams!Calls : cShown[c] \in ShownRecs
      BY <1>0, Zenon DEF TurnTypes
    <3> QED BY <1>5, <3>1, SMT DEF ShownRecs
  <2>1. ASSUME NEW c \in Streams!Calls, cShown[c].terminal # 0
        PROVE  /\ cJob'[c] # "none" /\ cJob'[cShown[c].terminal] \notin {"none", "begin", "create"}
               /\ cCall'[c].command = cCall'[cShown[c].terminal].command
    <3>1. /\ cJob[c] # "none" /\ cJob[cShown[c].terminal] \notin {"none", "begin", "create"}
          /\ cCall[c].command = cCall[cShown[c].terminal].command
          /\ cShown[c].terminal \in Streams!Calls
      BY <1>0, <2>0, <2>1, SMT DEF TerminalsFit, Made
    <3>2. /\ cCall'[c] = cCall[c] /\ cJob'[c] = cJob[c]
          /\ cCall'[cShown[c].terminal] = cCall[cShown[c].terminal]
          /\ cJob'[cShown[c].terminal] = cJob[cShown[c].terminal]
      BY <1>4, <3>1
    <3> QED BY <3>1, <3>2
  <2>2. \A c, d \in Streams!Calls :
          cShown[c].terminal # 0 /\ cShown[d].terminal = cShown[c].terminal => c = d
    BY <1>0 DEF TerminalsFit
  <2> QED BY <1>5, <2>0, <2>1, <2>2, SMT DEF TerminalsFit, Made
<1>15. SaidFits'
  BY <1>0, <1>1, <1>5, SMT DEF SaidFits
<1>16. EditsFit' /\ Streams!EditsAreKept'
  <2>1. /\ \A c \in Streams!Calls : cJob[c] = "over" => cJob'[c] = "over"
        /\ \A c \in Streams!Calls : cJob'[c] = "write" => cJob[c] = "write"
    BY <1>4, SMT
  <2>2. EditsStay
    BY <2>1 DEF EditsStay
  <2>3. \A c \in Streams!Calls : cCall'[c].tool = "edit" /\ cResult'[c] = "ok"
                                     => cCall[c].tool = "edit" /\ cResult[c] = "ok"
    BY <1>1, <1>4, SMT
  <2>4. UNCHANGED Streams!text
    BY <1>1 DEF Streams!text
  <2> QED BY <1>0, <2>2, <2>3, <2>4, NoEdit
<1> QED
  BY <1>7, <1>8, <1>9, <1>10, <1>11, <1>12, <1>13, <1>14, <1>15, <1>16, Zenon DEF StreamsInv

\* Every step keeps the invariant.
LEMMA NextKeepsStreams ==
  ASSUME StreamsInv, [Streams!Next]_Streams!vars PROVE StreamsInv'
<1>1. CASE Streams!Handlers
  BY <1>1, HandlersKeepTheTurn, HandlersKeepEdits DEF StreamsInv
<1>2. CASE Streams!TurnSteps
  <2>1. CASE Streams!Replays
    <3>1. /\ cTurn = "load" /\ cReplayed < Len(cTape) /\ UNCHANGED cTurn
          /\ UNCHANGED <<cSaid, cTape, cCancels>>
          /\ TurnMoves
      BY <2>1, Zenon DEF Streams!Replays, TurnMoves, Streams!tools, Streams!text
    <3>2. CASE cRound = <<>>
      <4>1. /\ Streams!SendToolCalls(cTape[cReplayed + 1].calls)
            /\ IF cTape[cReplayed + 1].answered THEN cRound' = cTape[cReplayed + 1].calls
              /\ UNCHANGED cReplayed
               ELSE cReplayed' = cReplayed + 1 /\ UNCHANGED cRound
        BY <2>1, <3>2, Zenon DEF Streams!Replays
      <4> QED BY <3>1, <3>2, <4>1, ReplaysCallsKeeps
    <3>3. CASE cRound # <<>>
      <4>1. /\ Streams!SendToolResults(cTape[cReplayed + 1].calls) /\ cRound' = <<>>
            /\ cReplayed' = cReplayed + 1
        BY <2>1, <3>3, Zenon DEF Streams!Replays
      <4> QED BY <3>1, <3>3, <4>1, ReplaysResultsKeeps
    <3> QED BY <3>2, <3>3
  <2> QED
    BY <1>2, <2>1, StartsKeeps, StreamsTextKeeps, ToolResultsKeeps, FinishesKeeps, DiesKeeps,
       CancelsKeepStreams, LoadsKeeps, LoadedKeeps, CallsToolsKeeps, Zenon
    DEF Streams!TurnSteps
<1>3. CASE UNCHANGED Streams!vars
  <2>0. StreamParts /\ ToolTypes /\ JobsFit /\ EditsFit /\ Streams!EditsAreKept
    BY StreamPartsAre
  <2>1. UNCHANGED <<cTurn, cRound, cStream, cShown, cSaid, cTape, cReplayed, cCancels>> /\ TurnMoves
    BY <1>3, Zenon DEF Streams!vars, Streams!tools, Streams!text, TurnMoves
  <2>2. ToolTypes' /\ JobsFit' /\ EditsFit' /\ Streams!EditsAreKept'
    BY <2>0, <2>1, TurnKeepsTools
  <2>3. TurnTypes' /\ SaidFits'
    BY <2>0, <2>1, Zenon DEF StreamParts, TurnTypes, SaidFits, TurnMoves
  <2>4. RoundFits'
    BY <2>0, <2>1, SMT DEF StreamParts, RoundFits, TurnMoves
  <2>5. TapeFits'
    BY <2>0, <2>1, SMT DEF StreamParts, TapeFits, TurnMoves, Streams!Ended
  <2>6. ShownFits' /\ ProgressFits'
    BY <2>0, <2>1, SMT DEF StreamParts, ShownFits, ProgressFits, TurnMoves, Streams!Ended
  <2>7. TerminalsFit'
    BY <2>0, <2>1, SMT DEF StreamParts, TerminalsFit, TurnMoves, Made, Streams!IsBash
  <2> QED BY <2>2, <2>3, <2>4, <2>5, <2>6, <2>7 DEF StreamsInv
<1> QED
  BY <1>1, <1>2, <1>3 DEF Streams!Next

\* The initial states satisfy it.
LEMMA InitStreams ==
  ASSUME Streams!Init PROVE StreamsInv
<1>0. 0 \in 0 .. MaxCalls /\ MaxCalls \in Nat
  BY Resources, SMT DEF Streams!StreamsConstants
<1>1. /\ cTurn = "idle" /\ cMade = 0 /\ cRound = <<>> /\ cStream = Streams!NoStream
      /\ cCall = [c \in Streams!Calls |-> [tool |-> "other", command |-> "none"]]
      /\ cJob = [c \in Streams!Calls |-> "none"] /\ cResult = [c \in Streams!Calls |-> "none"]
      /\ cTerminal = [c \in Streams!Calls |-> "none"]
      /\ cShown = [c \in Streams!Calls |-> Streams!NotShown]
      /\ cFile = {} /\ cCopy = [c \in Streams!Calls |-> Streams!Calls]
      /\ cSaid = {} /\ cTape = <<>> /\ cReplayed = 0 /\ cCancels = 0
  BY Zenon DEF Streams!Init
<1>2. /\ Streams!NoStream \in [pending : Seq(PendingRecs), text : BOOLEAN]
      /\ Streams!NoStream.pending = <<>>
      /\ Streams!NoStream.text = FALSE
      /\ Streams!NotShown \in ShownRecs /\ Streams!NotShown.status = "none"
      /\ Streams!NotShown.of = 0 /\ Streams!NotShown.terminal = 0
      /\ [tool |-> "other", command |-> "none"] \in CallRecs
  BY DEF Streams!NoStream, Streams!NotShown, ShownRecs, CallRecs, Streams!Names
<1>3. TurnTypes
  BY <1>0, <1>1, <1>2, SMT DEF TurnTypes
<1>4. ToolTypes
  BY <1>1, SMT DEF ToolTypes, Stages
<1>5. JobsFit
  BY <1>0, <1>1, SMT DEF JobsFit, JobFits, Streams!Ended, Streams!Calls
<1>6. RoundFits /\ TapeFits
  BY <1>1, <1>2, SMT DEF RoundFits, TapeFits
<1>7. ShownFits /\ ProgressFits /\ TerminalsFit
  BY <1>1, <1>2, SMT DEF ShownFits, ProgressFits, TerminalsFit
<1>8. SaidFits
  BY <1>1, Zenon DEF SaidFits
<1>9. EditsFit /\ Streams!EditsAreKept
  BY <1>1, SMT DEF EditsFit, Streams!EditsAreKept, Snapshot
<1> QED
  BY <1>3, <1>4, <1>5, <1>6, <1>7, <1>8, <1>9 DEF StreamsInv

\* What the client sees follows from it.
LEMMA StreamsInvImplies ==
  ASSUME StreamsInv PROVE Streams!StreamsAreTrue /\ Streams!ClientToolsAreSound
<1>0. /\ ShownFits /\ TerminalsFit /\ SaidFits /\ ProgressFits /\ RoundFits /\ JobsFit
      /\ Streams!EditsAreKept
  BY DEF StreamsInv
<1>1. Streams!ResultsReachTheirCalls
  BY <1>0 DEF ShownFits, Streams!ResultsReachTheirCalls
<1>2. Streams!TerminalsAreShown
  BY <1>0 DEF TerminalsFit, Streams!TerminalsAreShown
<1>3. Streams!AnswersAreShownOnce
  <2>1. \A how, other \in cSaid : how = other
    <3>1. cSaid = {} \/ cSaid = {"streamed"} \/ cSaid = {"whole"}
      BY <1>0 DEF SaidFits
    <3> QED BY <3>1
  <2>2. cTurn = "idle" /\ cCancels = 0 => \A c \in Streams!Calls : cShown[c].status # "in_progress"
    BY <1>0 DEF ProgressFits, RoundFits
  <2> QED BY <2>1, <2>2 DEF Streams!AnswersAreShownOnce
<1>4. Streams!TerminalsAreReleased
  BY <1>0, SMT DEF JobsFit, JobFits, Streams!TerminalsAreReleased
<1> QED
  BY <1>0, <1>1, <1>2, <1>3, <1>4 DEF Streams!StreamsAreTrue, Streams!ClientToolsAreSound

\* Streams and client tools keep their invariant, whatever calls a model asks for and however
\* often its turns are cancelled.
LEMMA StreamsStay == Streams!Spec => []StreamsInv
<1>1. Streams!Init => StreamsInv
  BY InitStreams
<1>2. StreamsInv /\ [Streams!Next]_Streams!vars => StreamsInv'
  BY NextKeepsStreams
<1> QED
  BY <1>1, <1>2, PTL DEF Streams!Spec

\* A client is told the result of every call as that call's, now and when the session is
\* loaded again; a terminal is shown with one call of its command, although calls of a round
\* ask for theirs in any order; and an answer is shown once: ACPStreamRouter.
THEOREM StreamsStayTrue == Streams!Spec => []StreamsAreTrue
<1>1. StreamsInv => StreamsAreTrue
  BY StreamsInvImplies DEF StreamsAreTrue
<1> QED
  BY <1>1, StreamsStay, PTL

\* A bash call that ends has released its terminal, unless it was cancelled or its update
\* failed before the wait, and an edit is lost only to one that overlapped it, whatever
\* refusals, timeouts and cancellations come between: ACPClientToolRuntime.
THEOREM ClientToolsStaySound == Streams!Spec => []ClientToolsAreSound
<1>1. StreamsInv => ClientToolsAreSound
  BY StreamsInvImplies DEF ClientToolsAreSound
<1> QED
  BY <1>1, StreamsStay, PTL

-----------------------------------------------------------------------------
(* The proof that subagents are known *)

\* The types of the variables.
SubagentTypes ==
  /\ bOwner \in [SubTasks -> [by : Watchers \cup {"none"}, of : SubSessions \cup {"none"}]]
  /\ bStatus \in [SubTasks -> {"none", "running", "done"}]
  /\ bRuns \in [Watchers -> SUBSET SubTasks]
  /\ bFinished \in [Watchers -> [SubSessions -> Seq(SubTasks)]]
  /\ bEnded \in [Watchers -> [SubSessions -> Seq(SubTasks)]]
  /\ bTold \in [SubTasks -> {"nothing", "news", "end"}]
  /\ DOMAIN bClosedBy = SubSessions

\* The runs of w are of tasks it watches that run or are kept as finished.
Kept(w, t) ==
  \E i \in 1 .. Len(bFinished[w][bOwner[t].of]) : bFinished[w][bOwner[t].of][i] = t
RunsFit ==
  /\ \A t \in SubTasks : bStatus[t] # "none" =>
       bOwner[t].by \in Watchers /\ bOwner[t].of \in SubSessions
  /\ \A t \in SubTasks : bStatus[t] = "running" => t \in bRuns[bOwner[t].by]
  /\ \A w \in Watchers : \A t \in bRuns[w] :
       /\ bOwner[t].by = w /\ bStatus[t] # "none"
       /\ bStatus[t] = "running" \/ Kept(w, t)

\* Those of s that w keeps as finished: a few, each once, and listed.
FinishedFits(w, s) ==
  LET kept == bFinished[w][s] IN
  /\ Len(kept) <= MaxFinished
  /\ \A i, j \in 1 .. Len(kept) : kept[i] = kept[j] => i = j
  /\ \A i \in 1 .. Len(kept) :
       kept[i] \in bRuns[w] /\ bOwner[kept[i]].of = s /\ bStatus[kept[i]] = "done"

\* The last of them are those that ended last.
LastAre(kept, mine) ==
  \A k \in 1 .. MaxFinished :
    k <= Len(mine) => k <= Len(kept) /\ kept[Len(kept) + 1 - k] = mine[Len(mine) + 1 - k]
EndedFits(w, s) ==
  /\ LastAre(bFinished[w][s], bEnded[w][s])
  /\ bClosedBy[s] = w => Len(bFinished[w][s]) <= Len(bEnded[w][s])

\* What is told as ended has ended its emitter.
EmittersFit == \A t \in SubTasks : bTold[t] = "end" => t \in bEmitter

\* The inductive invariant of subagents.
SubagentsInv ==
  /\ SubagentTypes /\ RunsFit /\ EmittersFit
  /\ \A w \in Watchers, s \in SubSessions : FinishedFits(w, s) /\ EndedFits(w, s)

\* The runs of a session that are kept when t ends: all, or all but the first.
LEMMA NewestAre ==
  ASSUME NEW f \in Seq(SubTasks), NEW t \in SubTasks, Len(f) <= MaxFinished
  PROVE  LET kept == Append(f, t)
             new == Subagents!Newest(kept)
             off == IF Len(f) < MaxFinished THEN 0 ELSE 1
         IN /\ new \in Seq(SubTasks) /\ Len(new) = Len(f) + 1 - off
            /\ \A i \in 1 .. Len(f) + 1 - off : new[i] = IF i + off <= Len(f) THEN f[i + off] ELSE t
            /\ Subagents!Dropped(kept) = IF off = 0 THEN {} ELSE {f[1]}
<1> DEFINE kept == Append(f, t)
           new == Subagents!Newest(kept)
           off == IF Len(f) < MaxFinished THEN 0 ELSE 1
           m == Len(f)
<1>1. m \in Nat /\ MaxFinished \in Nat \ {0} /\ m <= MaxFinished
  BY Resources, LenProperties DEF Subagents!SubagentsConstants
<1>2. /\ kept \in Seq(SubTasks) /\ Len(kept) = m + 1 /\ DOMAIN kept = 1 .. m + 1
      /\ \A i \in 1 .. m : kept[i] = f[i]
      /\ kept[m + 1] = t
  BY AppendProperties
<1>3. CASE m < MaxFinished
  <2>1. off = 0 /\ new = kept
    BY <1>1, <1>2, <1>3 DEF Subagents!Newest
  <2>2. Subagents!Dropped(kept) = {}
    BY <1>1, <1>2, <1>3 DEF Subagents!Dropped
  <2>3. \A i \in 1 .. m + 1 : i + 0 = i /\ (i <= m \/ i = m + 1)
    BY <1>1
  <2> QED
    BY <1>1, <1>2, <2>1, <2>2, <2>3
<1>4. CASE m = MaxFinished
  <2>1. off = 1 /\ new = SubSeq(kept, 2, m + 1)
    <3>1. Len(kept) > MaxFinished /\ Len(kept) - MaxFinished + 1 = 2 /\ ~ (m < MaxFinished)
      BY <1>1, <1>2, <1>4
    <3> QED
      BY <1>2, <3>1 DEF Subagents!Newest
  <2>2. /\ new \in Seq(SubTasks) /\ Len(new) = m
        /\ \A i \in 1 .. m : new[i] = kept[i + 1]
    <3>1. \A i \in 2 .. m + 1 : kept[i] \in SubTasks
      BY <1>1, <1>2
    <3> HIDE DEF kept
    <3>2. (m + 1) - 2 + 1 = m /\ \A i \in 1 .. m : 2 + i - 1 = i + 1
      BY <1>1
    <3>3. SubSeq(kept, 2, m + 1) \in Seq(SubTasks)
      BY <1>1, <1>2, SubSeqProperties
    <3>4. /\ Len(SubSeq(kept, 2, m + 1)) = IF 2 <= m + 1 THEN (m + 1) - 2 + 1 ELSE 0
          /\ \A i \in 1 .. (m + 1) - 2 + 1 : SubSeq(kept, 2, m + 1)[i] = kept[2 + i - 1]
      BY <1>1, <1>2, SubSeqProperties
    <3> QED
      BY <1>1, <2>1, <3>2, <3>3, <3>4
  <2>3. Subagents!Dropped(kept) = {f[1]}
    <3>1. {j \in DOMAIN kept : j + MaxFinished <= Len(kept)} = {1}
      BY <1>1, <1>2, <1>4
    <3>2. kept[1] = f[1]
      BY <1>1, <1>2, <1>4
    <3> QED
      BY <3>1, <3>2 DEF Subagents!Dropped
  <2>4. \A i \in 1 .. m : new[i] = IF i + 1 <= m THEN f[i + 1] ELSE t
    BY <1>1, <1>2, <2>2
  <2>5. /\ Len(new) = m + 1 - off
        /\ \A i \in 1 .. m + 1 - off : new[i] = IF i + off <= m THEN f[i + off] ELSE t
    <3> HIDE DEF new, off, m
    <3>1. m + 1 - 1 = m
      BY <1>1
    <3> QED
      BY <2>1, <2>2, <2>4, <3>1, Zenon
  <2>6. Subagents!Dropped(kept) = IF off = 0 THEN {} ELSE {f[1]}
    BY <2>1, <2>3
  <2> QED
    BY <2>2, <2>5, <2>6, Zenon
<1> QED BY <1>1, <1>3, <1>4

\* News of t, or its end, is told of tasks whose emitters have not ended.
LEMMA NewsKeeps ==
  ASSUME SubagentTypes, EmittersFit, NEW t \in SubTasks,
         Subagents!PublishesNews(t) \/ Subagents!PublishesEnd(t)
  PROVE  bTold' \in [SubTasks -> {"nothing", "news", "end"}] /\ EmittersFit'
<1>1. bTold \in [SubTasks -> {"nothing", "news", "end"}]
  BY DEF SubagentTypes
<1>2. t \notin bEmitter => bTold[t] # "end"
  BY DEF EmittersFit
<1>3. CASE Subagents!PublishesNews(t)
  <2>1. bEmitter' = bEmitter /\ (bTold' = bTold \/ bTold' = [bTold EXCEPT ![t] = "news"])
    BY <1>1, <1>2, <1>3 DEF Subagents!PublishesNews, Subagents!NewsGoes
  <2> QED
    BY <1>1, <2>1 DEF EmittersFit
<1>4. CASE Subagents!PublishesEnd(t)
  <2>1. bEmitter' = bEmitter \cup {t} /\ (bTold' = bTold \/ bTold' = [bTold EXCEPT ![t] = "end"])
    BY <1>1, <1>2, <1>4 DEF Subagents!PublishesEnd, Subagents!NewsGoes
  <2> QED
    BY <1>1, <2>1 DEF EmittersFit
<1> QED BY <1>3, <1>4

\* What is kept of subagents rests on a few of the variables.
LEMMA SubagentsRest ==
  ASSUME SubagentsInv, UNCHANGED <<bOwner, bStatus, bRuns, bFinished, bEnded, bClosedBy>>,
         bTold' \in [SubTasks -> {"nothing", "news", "end"}] /\ EmittersFit'
  PROVE  SubagentsInv'
<1>1. SubagentTypes'
  BY DEF SubagentsInv, SubagentTypes
<1>2. RunsFit'
  BY DEF SubagentsInv, RunsFit, Kept
<1>3. ASSUME NEW w \in Watchers, NEW s \in SubSessions PROVE FinishedFits(w, s)' /\ EndedFits(w, s)'
  <2>1. FinishedFits(w, s) /\ EndedFits(w, s)
    BY DEF SubagentsInv
  <2> QED
    BY <2>1 DEF FinishedFits, EndedFits, LastAre
<1> QED BY <1>1, <1>2, <1>3 DEF SubagentsInv

\* Whom w keeps as finished is watched by it.
LEMMA FinishedAre ==
  ASSUME SubagentsInv, NEW w \in Watchers, NEW s \in SubSessions
  PROVE  /\ bFinished[w][s] \in Seq(SubTasks) /\ bEnded[w][s] \in Seq(SubTasks)
         /\ Len(bFinished[w][s]) \in Nat /\ Len(bEnded[w][s]) \in Nat
         /\ MaxFinished \in Nat \ {0} /\ Len(bFinished[w][s]) <= MaxFinished
         /\ \A i \in 1 .. Len(bFinished[w][s]) :
              /\ bFinished[w][s][i] \in SubTasks /\ bFinished[w][s][i] \in bRuns[w]
              /\ bOwner[bFinished[w][s][i]] = [by |-> w, of |-> s]
              /\ bStatus[bFinished[w][s][i]] = "done"
<1> DEFINE f == bFinished[w][s]
<1>1. f \in Seq(SubTasks) /\ bEnded[w][s] \in Seq(SubTasks)
  BY DEF SubagentsInv, SubagentTypes
<1>2. FinishedFits(w, s) /\ MaxFinished \in Nat \ {0}
  BY Resources DEF SubagentsInv, Subagents!SubagentsConstants
<1>3. Len(f) \in Nat /\ Len(bEnded[w][s]) \in Nat /\ \A i \in 1 .. Len(f) : f[i] \in SubTasks
  BY <1>1, LenProperties, ElementOfSeq
<1>4. ASSUME NEW i \in 1 .. Len(f) PROVE bOwner[f[i]] = [by |-> w, of |-> s]
  <2>1. f[i] \in bRuns[w] /\ bOwner[f[i]].of = s /\ f[i] \in SubTasks
    BY <1>2, <1>3 DEF FinishedFits
  <2>2. bOwner[f[i]].by = w
    BY <2>1 DEF SubagentsInv, RunsFit
  <2>3. bOwner[f[i]] \in [by : Watchers \cup {"none"}, of : SubSessions \cup {"none"}]
    BY <2>1 DEF SubagentsInv, SubagentTypes
  <2> QED
    BY <2>1, <2>2, <2>3
<1> QED
  BY <1>1, <1>2, <1>3, <1>4 DEF FinishedFits

\* A run that is made already is not made again.
LEMMA OutputsKeep ==
  ASSUME SubagentsInv, NEW t \in SubTasks, Subagents!Outputs(t)
  PROVE  SubagentsInv'
<1>1. bStatus[t] = "running" /\ bOwner' = bOwner /\ bRuns' = Subagents!WithRun(t)
  BY DEF Subagents!Outputs
<1>2. t \in bRuns[bOwner[t].by] /\ bOwner[t].by \in Watchers
  BY <1>1 DEF SubagentsInv, RunsFit
<1>3. bRuns' = bRuns
  BY <1>1, <1>2 DEF SubagentsInv, SubagentTypes, Subagents!WithRun
<1>4. UNCHANGED <<bOwner, bStatus, bRuns, bFinished, bEnded, bClosedBy>>
  BY <1>1, <1>3 DEF Subagents!Outputs, Subagents!sessions
<1>5. bTold' \in [SubTasks -> {"nothing", "news", "end"}] /\ EmittersFit'
  BY NewsKeeps DEF SubagentsInv, Subagents!Outputs
<1> QED
  BY <1>4, <1>5, SubagentsRest

\* A task that starts is listed, and is none of those that have ended.
LEMMA StartsListed ==
  ASSUME SubagentsInv, NEW t \in SubTasks, NEW w \in Watchers, NEW s \in SubSessions,
         Subagents!Starts(t, w, s)
  PROVE  SubagentsInv'
<1>1. /\ SubagentTypes /\ RunsFit /\ EmittersFit
      /\ bOwner \in [SubTasks -> [by : Watchers \cup {"none"}, of : SubSessions \cup {"none"}]]
      /\ bStatus \in [SubTasks -> {"none", "running", "done"}]
      /\ bRuns \in [Watchers -> SUBSET SubTasks]
  BY DEF SubagentsInv, SubagentTypes
<1>2. /\ bStatus[t] = "none"
      /\ bOwner' = [bOwner EXCEPT ![t] = [by |-> w, of |-> s]]
      /\ bStatus' = [bStatus EXCEPT ![t] = "running"]
      /\ bRuns' = [bRuns EXCEPT ![bOwner'[t].by] = @ \cup {t}]
      /\ UNCHANGED <<bFinished, bEnded, bClosedBy>>
  BY DEF Subagents!Starts, Subagents!WithRun, Subagents!sessions
<1>3. bOwner'[t] = [by |-> w, of |-> s] /\ bStatus'[t] = "running"
      /\ \A u \in SubTasks \ {t} : bOwner'[u] = bOwner[u] /\ bStatus'[u] = bStatus[u]
  BY <1>1, <1>2
<1>4. /\ \A v \in Watchers : bRuns'[v] \subseteq bRuns[v] \cup {t} /\ bRuns[v] \subseteq bRuns'[v]
      /\ t \in bRuns'[w] /\ \A v \in Watchers \ {w} : bRuns'[v] = bRuns[v]
  BY <1>1, <1>2, <1>3
<1>5. SubagentTypes'
  <2>1. bRuns' \in [Watchers -> SUBSET SubTasks]
    BY <1>1, <1>2
  <2>2. bTold' \in [SubTasks -> {"nothing", "news", "end"}]
    BY <1>1, NewsKeeps DEF Subagents!Starts
  <2>3. bOwner' \in [SubTasks -> [by : Watchers \cup {"none"}, of : SubSessions \cup {"none"}]]
    BY <1>1, <1>2
  <2> QED
    BY <1>1, <1>2, <2>1, <2>2, <2>3 DEF SubagentTypes
<1>6. EmittersFit'
  BY <1>1, NewsKeeps DEF Subagents!Starts
<1>7. \A v \in Watchers : t \notin bRuns[v]
  BY <1>1, <1>2 DEF RunsFit
<1>8. RunsFit'
  <2>1. \A u \in SubTasks : bStatus'[u] # "none" =>
          bOwner'[u].by \in Watchers /\ bOwner'[u].of \in SubSessions
    BY <1>1, <1>3 DEF RunsFit
  <2>2. \A u \in SubTasks : bStatus'[u] = "running" => u \in bRuns'[bOwner'[u].by]
    <3> TAKE u \in SubTasks
    <3> HAVE bStatus'[u] = "running"
    <3>1. CASE u = t
      BY <1>3, <1>4, <3>1
    <3>2. CASE u # t
      <4>1. u \in bRuns[bOwner[u].by] /\ bOwner[u].by \in Watchers
        BY <1>1, <1>3, <3>2 DEF RunsFit
      <4> QED
        BY <1>3, <1>4, <3>2, <4>1
    <3> QED BY <3>1, <3>2
  <2>3. ASSUME NEW v \in Watchers, NEW u \in bRuns'[v]
        PROVE  /\ bOwner'[u].by = v /\ bStatus'[u] # "none"
               /\ bStatus'[u] = "running" \/ Kept(v, u)'
    <3>1. CASE u = t
      <4>1. v = w
        BY <1>4, <1>7, <3>1
      <4> QED
        BY <1>3, <3>1, <4>1
    <3>2. CASE u # t
      <4>1. u \in bRuns[v] /\ u \in SubTasks
        BY <1>1, <1>4, <3>2
      <4>2. bOwner[u].by = v /\ bStatus[u] # "none" /\ (bStatus[u] = "running" \/ Kept(v, u))
        BY <1>1, <4>1 DEF RunsFit
      <4> QED
        BY <1>2, <1>3, <3>2, <4>1, <4>2 DEF Kept
    <3> QED BY <3>1, <3>2
  <2> QED
    BY <2>1, <2>2, <2>3 DEF RunsFit
<1>9. ASSUME NEW v \in Watchers, NEW r \in SubSessions PROVE FinishedFits(v, r)' /\ EndedFits(v, r)'
  <2>1. FinishedFits(v, r) /\ EndedFits(v, r)
    BY DEF SubagentsInv
  <2>2. \A i \in 1 .. Len(bFinished[v][r]) :
          /\ bFinished[v][r][i] \in bRuns'[v] /\ bOwner'[bFinished[v][r][i]].of = r
          /\ bStatus'[bFinished[v][r][i]] = "done"
    <3> TAKE i \in 1 .. Len(bFinished[v][r])
    <3> DEFINE u == bFinished[v][r][i]
    <3>1. /\ u \in SubTasks /\ u \in bRuns[v] /\ bOwner[u] = [by |-> v, of |-> r]
          /\ bStatus[u] = "done"
      BY FinishedAre
    <3> HIDE DEF u
    <3>2. u # t
      BY <1>2, <3>1
    <3>3. bOwner'[u] = bOwner[u] /\ bStatus'[u] = bStatus[u] /\ bOwner[u].of = r
      BY <1>3, <3>1, <3>2
    <3> QED
      BY <1>4, <3>1, <3>3 DEF u
  <2>3. FinishedFits(v, r)'
    BY <1>2, <2>1, <2>2 DEF FinishedFits
  <2> QED
    BY <1>2, <2>1, <2>3 DEF EndedFits, LastAre
<1> QED
  BY <1>5, <1>6, <1>8, <1>9 DEF SubagentsInv

\* A session that has ended is forgotten by the connection that closed it.
LEMMA EndedForgotten ==
  ASSUME SubagentsInv, NEW s \in SubSessions, Subagents!Ended(s)
  PROVE  SubagentsInv'
<1> DEFINE w == bSession[s]
           gone == {t \in SubTasks : bOwner[t].of = s}
<1>1. /\ SubagentTypes /\ RunsFit /\ EmittersFit
      /\ bRuns \in [Watchers -> SUBSET SubTasks]
      /\ bFinished \in [Watchers -> [SubSessions -> Seq(SubTasks)]]
      /\ bEnded \in [Watchers -> [SubSessions -> Seq(SubTasks)]]
  BY DEF SubagentsInv, SubagentTypes
<1>2. /\ w \in Watchers
      /\ \A t \in SubTasks : bOwner[t].of = s => bStatus[t] = "done"
      /\ bRuns' = [bRuns EXCEPT ![w] = @ \ gone]
      /\ bFinished' = [bFinished EXCEPT ![w][s] = <<>>]
      /\ bClosedBy' = [bClosedBy EXCEPT ![s] = w]
      /\ bEnded' = [v \in Watchers |-> [bEnded[v] EXCEPT ![s] = <<>>]]
      /\ UNCHANGED <<bOwner, bStatus, bEmitter, bTold>>
  BY DEF Subagents!Ended
<1> HIDE DEF w
<1>3. /\ \A v \in Watchers, r \in SubSessions :
           r # s \/ v # w => bFinished'[v][r] = bFinished[v][r]
      /\ bFinished'[w][s] = <<>> /\ \A v \in Watchers : bEnded'[v][s] = <<>>
      /\ \A v \in Watchers, r \in SubSessions : r # s => bEnded'[v][r] = bEnded[v][r]
      /\ \A r \in SubSessions : r # s => bClosedBy'[r] = bClosedBy[r]
      /\ bClosedBy'[s] = w
  <2>1. bClosedBy'[s] = w /\ \A r \in SubSessions : r # s => bClosedBy'[r] = bClosedBy[r]
    BY <1>1, <1>2 DEF SubagentTypes
  <2> QED
    BY <1>1, <1>2, <2>1
<1>4. /\ \A v \in Watchers : bRuns'[v] \subseteq bRuns[v]
      /\ \A v \in Watchers, t \in SubTasks :
           t \in bRuns[v] => t \in bRuns'[v] \/ (v = w /\ bOwner[t].of = s)
      /\ \A t \in bRuns'[w] : bOwner[t].of # s
  BY <1>1, <1>2
<1>5. SubagentTypes'
  <2>1. bRuns' \in [Watchers -> SUBSET SubTasks]
    BY <1>1, <1>2
  <2>2. bFinished' \in [Watchers -> [SubSessions -> Seq(SubTasks)]]
    BY <1>1, <1>2
  <2>3. bEnded' \in [Watchers -> [SubSessions -> Seq(SubTasks)]]
    <3>1. ASSUME NEW v \in Watchers
          PROVE [bEnded[v] EXCEPT ![s] = <<>>] \in [SubSessions -> Seq(SubTasks)]
      BY <1>1
    <3> QED BY <1>2, <3>1
  <2>4. DOMAIN bClosedBy' = SubSessions
    BY <1>1, <1>2 DEF SubagentTypes
  <2> QED
    BY <1>1, <1>2, <2>1, <2>2, <2>3, <2>4 DEF SubagentTypes
<1>6. EmittersFit'
  BY <1>1, <1>2 DEF EmittersFit
<1>7. RunsFit'
  <2>1. \A t \in SubTasks : bStatus'[t] # "none" =>
          bOwner'[t].by \in Watchers /\ bOwner'[t].of \in SubSessions
    BY <1>1, <1>2 DEF RunsFit
  <2>2. \A t \in SubTasks : bStatus'[t] = "running" => t \in bRuns'[bOwner'[t].by]
    <3> TAKE t \in SubTasks
    <3> HAVE bStatus'[t] = "running"
    <3>1. t \in bRuns[bOwner[t].by] /\ bOwner[t].by \in Watchers /\ bOwner[t].of # s
      BY <1>1, <1>2 DEF RunsFit
    <3> QED
      BY <1>2, <1>4, <3>1
  <2>3. ASSUME NEW v \in Watchers, NEW t \in bRuns'[v]
        PROVE  /\ bOwner'[t].by = v /\ bStatus'[t] # "none"
               /\ bStatus'[t] = "running" \/ Kept(v, t)'
    <3>1. t \in bRuns[v] /\ t \in SubTasks
      BY <1>1, <1>4
    <3>2. /\ bOwner[t].by = v /\ bStatus[t] # "none" /\ bOwner[t].of \in SubSessions
          /\ bStatus[t] = "running" \/ Kept(v, t)
      BY <1>1, <3>1 DEF RunsFit
    <3>3. bOwner[t].of # s \/ v # w
      BY <1>4
    <3>4. bFinished'[v][bOwner[t].of] = bFinished[v][bOwner[t].of]
      BY <1>3, <3>2, <3>3
    <3> QED
      BY <1>2, <3>2, <3>4 DEF Kept
  <2> QED
    BY <2>1, <2>2, <2>3 DEF RunsFit
<1>8. ASSUME NEW v \in Watchers, NEW r \in SubSessions PROVE FinishedFits(v, r)' /\ EndedFits(v, r)'
  <2>1. FinishedFits(v, r) /\ EndedFits(v, r) /\ MaxFinished \in Nat
    BY FinishedAre DEF SubagentsInv
  <2>2. FinishedFits(v, r)'
    <3>1. CASE r = s /\ v = w
      <4>1. Len(bFinished'[v][r]) = 0
        BY <1>3, <3>1, EmptySeq
      <4> QED
        BY <2>1, <4>1 DEF FinishedFits
    <3>2. CASE ~ (r = s /\ v = w)
      <4>1. bFinished'[v][r] = bFinished[v][r]
        BY <1>3, <3>2
      <4>2. ASSUME NEW i \in 1 .. Len(bFinished[v][r])
            PROVE bFinished[v][r][i] \in bRuns'[v]
        <5> DEFINE u == bFinished[v][r][i]
        <5>1. u \in SubTasks /\ u \in bRuns[v] /\ bOwner[u] = [by |-> v, of |-> r]
          BY FinishedAre
        <5> HIDE DEF u
        <5>2. bOwner[u].of = r
          BY <5>1
        <5>3. u \in bRuns'[v]
          BY <1>4, <3>2, <5>1, <5>2
        <5> QED BY <5>3 DEF u
      <4>3. \A i \in 1 .. Len(bFinished[v][r]) :
              /\ bFinished[v][r][i] \in bRuns'[v] /\ bOwner'[bFinished[v][r][i]].of = r
              /\ bStatus'[bFinished[v][r][i]] = "done"
        BY <1>2, <2>1, <4>2 DEF FinishedFits
      <4>4. /\ Len(bFinished[v][r]) <= MaxFinished
            /\ \A i, j \in 1 .. Len(bFinished[v][r]) :
                 bFinished[v][r][i] = bFinished[v][r][j] => i = j
        BY <2>1 DEF FinishedFits
      <4> QED
        BY <4>1, <4>3, <4>4, Zenon DEF FinishedFits
    <3> QED BY <3>1, <3>2
  <2>3. EndedFits(v, r)'
    <3>1. CASE r = s
      <4>1. Len(bEnded'[v][r]) = 0 /\ (v = w => Len(bFinished'[v][r]) = 0)
            /\ (bClosedBy'[r] = v => v = w)
        BY <1>3, <3>1, EmptySeq
      <4> QED
        BY <4>1 DEF EndedFits, LastAre
    <3>2. CASE r # s
      <4>1. /\ bFinished'[v][r] = bFinished[v][r] /\ bEnded'[v][r] = bEnded[v][r]
            /\ bClosedBy'[r] = bClosedBy[r]
        BY <1>3, <3>2
      <4> QED
        BY <2>1, <4>1 DEF EndedFits, LastAre
    <3> QED BY <3>1, <3>2
  <2> QED BY <2>2, <2>3
<1> QED
  BY <1>5, <1>6, <1>7, <1>8 DEF SubagentsInv

\* A task that ends is kept with those that ended last before it.
LEMMA EndsKept ==
  ASSUME SubagentsInv, NEW t \in SubTasks, Subagents!Finishes(t),
         NEW w \in Watchers, NEW s \in SubSessions, w = bOwner[t].by, s = bOwner[t].of
  PROVE  SubagentsInv'
<1> DEFINE f == bFinished[w][s]
           e == bEnded[w][s]
           kept == Append(f, t)
           new == Subagents!Newest(kept)
           dropped == Subagents!Dropped(kept)
           off == IF Len(f) < MaxFinished THEN 0 ELSE 1
<1>1. /\ SubagentTypes /\ RunsFit /\ EmittersFit
      /\ bStatus \in [SubTasks -> {"none", "running", "done"}]
      /\ bRuns \in [Watchers -> SUBSET SubTasks]
      /\ bFinished \in [Watchers -> [SubSessions -> Seq(SubTasks)]]
      /\ bEnded \in [Watchers -> [SubSessions -> Seq(SubTasks)]]
  BY DEF SubagentsInv, SubagentTypes
<1>2. /\ bStatus[t] = "running"
      /\ bStatus' = [bStatus EXCEPT ![t] = "done"]
      /\ bFinished' = [bFinished EXCEPT ![w][s] = new]
      /\ bRuns' = [Subagents!WithRun(t) EXCEPT ![w] = @ \ dropped]
      /\ bEnded' = [bEnded EXCEPT ![w][s] = Append(@, t)]
      /\ UNCHANGED <<bOwner, bClosedBy>>
  BY DEF Subagents!Finishes, Subagents!sessions
<1>3. t \in bRuns[w]
  BY <1>1, <1>2 DEF RunsFit
<1>4. /\ f \in Seq(SubTasks) /\ e \in Seq(SubTasks) /\ Len(f) \in Nat /\ Len(e) \in Nat
      /\ MaxFinished \in Nat \ {0} /\ Len(f) <= MaxFinished
      /\ \A i \in 1 .. Len(f) :
           /\ f[i] \in SubTasks /\ f[i] \in bRuns[w] /\ bOwner[f[i]] = [by |-> w, of |-> s]
           /\ bStatus[f[i]] = "done"
  BY <1>3, FinishedAre
<1>5. /\ new \in Seq(SubTasks) /\ Len(new) = Len(f) + 1 - off
      /\ \A i \in 1 .. Len(f) + 1 - off : new[i] = IF i + off <= Len(f) THEN f[i + off] ELSE t
      /\ dropped = IF off = 0 THEN {} ELSE {f[1]}
  BY <1>4, NewestAre
<1>6. off \in {0, 1} /\ (off = 1 => Len(f) = MaxFinished) /\ (off = 0 => Len(f) < MaxFinished)
  BY <1>4
<1>7. bRuns' = [bRuns EXCEPT ![w] = @ \ dropped]
  BY <1>1, <1>2, <1>3 DEF Subagents!WithRun
<1>8. Append(e, t) \in Seq(SubTasks) /\ Len(Append(e, t)) = Len(e) + 1
      /\ Append(e, t)[Len(e) + 1] = t /\ \A i \in 1 .. Len(e) : Append(e, t)[i] = e[i]
  <2>1. e \in Seq(SubTasks)
    BY <1>4
  <2> HIDE DEF e
  <2> QED
    BY <2>1, AppendProperties
<1>9. FinishedFits(w, s) /\ EndedFits(w, s)
  BY DEF SubagentsInv
<1>10. /\ \A i, j \in 1 .. Len(f) : f[i] = f[j] => i = j
       /\ \A i \in 1 .. Len(f) : f[i] # t
  <2>1. \A i, j \in 1 .. Len(f) : f[i] = f[j] => i = j
    BY <1>9 DEF FinishedFits
  <2>2. \A i \in 1 .. Len(f) : f[i] # t
    BY <1>2, <1>4
  <2> QED BY <2>1, <2>2
<1>11. \A k \in 1 .. MaxFinished :
         k <= Len(e) => k <= Len(f) /\ f[Len(f) + 1 - k] = e[Len(e) + 1 - k]
  BY <1>9 DEF EndedFits, LastAre
<1>12. bClosedBy[s] = w => Len(f) <= Len(e)
  BY <1>9 DEF EndedFits
<1> DEFINE wide == Append(e, t)
<1> HIDE DEF f, e, kept, new, dropped, off, wide
<1>13. /\ bFinished'[w][s] = new /\ bEnded'[w][s] = wide
       /\ \A v \in Watchers, r \in SubSessions :
            v # w \/ r # s => bFinished'[v][r] = bFinished[v][r] /\ bEnded'[v][r] = bEnded[v][r]
  <2>1. bFinished'[w][s] = new
        /\ \A v \in Watchers, r \in SubSessions :
             v # w \/ r # s => bFinished'[v][r] = bFinished[v][r]
    BY <1>1, <1>2, <1>3
  <2>2. bEnded' = [bEnded EXCEPT ![w][s] = wide]
    BY <1>2 DEF e, wide
  <2>3. bEnded'[w][s] = wide
        /\ \A v \in Watchers, r \in SubSessions :
             v # w \/ r # s => bEnded'[v][r] = bEnded[v][r]
    BY <1>1, <1>3, <2>2
  <2> QED BY <2>1, <2>3
<1>14. bStatus'[t] = "done" /\ \A u \in SubTasks \ {t} : bStatus'[u] = bStatus[u]
  BY <1>1, <1>2
<1>15. /\ bRuns'[w] = bRuns[w] \ dropped /\ \A v \in Watchers : v # w => bRuns'[v] = bRuns[v]
       /\ \A u \in dropped : off = 1 /\ u = f[1] /\ u # t /\ bStatus[u] = "done"
            /\ \A i \in 1 .. Len(f) : f[i] = u => i = 1
  <2>1. bRuns'[w] = bRuns[w] \ dropped /\ \A v \in Watchers : v # w => bRuns'[v] = bRuns[v]
    BY <1>1, <1>3, <1>7
  <2>2. \A u \in dropped : off = 1 /\ u = f[1]
    BY <1>5, <1>6
  <2>3. off = 1 => 1 \in 1 .. Len(f)
    BY <1>4, <1>6
  <2>4. \A u \in dropped : u # t /\ bStatus[u] = "done" /\ \A i \in 1 .. Len(f) : f[i] = u => i = 1
    BY <1>4, <1>10, <2>2, <2>3
  <2> QED BY <2>1, <2>2, <2>4
<1>16. SubagentTypes'
  <2>1. bFinished' \in [Watchers -> [SubSessions -> Seq(SubTasks)]]
    BY <1>1, <1>2, <1>5
  <2>2. bEnded' \in [Watchers -> [SubSessions -> Seq(SubTasks)]]
    <3>1. bEnded' = [bEnded EXCEPT ![w][s] = wide] /\ wide \in Seq(SubTasks)
      BY <1>2, <1>8 DEF e, wide
    <3> QED
      BY <1>1, <3>1
  <2>3. bRuns' \in [Watchers -> SUBSET SubTasks]
    BY <1>1, <1>7
  <2>4. bTold' \in [SubTasks -> {"nothing", "news", "end"}]
    BY <1>1, NewsKeeps DEF Subagents!Finishes
  <2> QED
    BY <1>1, <1>2, <2>1, <2>2, <2>3, <2>4 DEF SubagentTypes
<1>17. EmittersFit'
  BY <1>1, NewsKeeps DEF Subagents!Finishes
\* Who stays among the finished: t, and those that do not make room.
<1>18. /\ \E i \in 1 .. Len(new) : new[i] = t
       /\ \A i \in 1 .. Len(f) : f[i] \notin dropped => \E j \in 1 .. Len(new) : new[j] = f[i]
       /\ \A i \in 1 .. Len(new) : new[i] = t \/ (i + off \in 1 .. Len(f) /\ new[i] = f[i + off])
  <2> DEFINE m == Len(f)
             n == Len(new)
  <2>1. m \in Nat /\ n = m + 1 - off /\ n \in Nat /\ off \in {0, 1} /\ (off = 1 => m >= 1)
    BY <1>4, <1>5, <1>6
  <2>2. \A i \in 1 .. n : new[i] = IF i + off <= m THEN f[i + off] ELSE t
    BY <1>5
  <2>3. off = 1 => f[1] \in dropped
    BY <1>5
  <2> HIDE DEF m, n
  <2>4. n \in 1 .. n /\ new[n] = t
    BY <2>1, <2>2
  <2>5. ASSUME NEW i \in 1 .. m, f[i] \notin dropped
        PROVE \E j \in 1 .. n : new[j] = f[i]
    <3>1. i - off \in 1 .. n /\ (i - off) + off = i /\ i <= m
      BY <2>1, <2>3, <2>5
    <3> QED BY <2>2, <3>1
  <2>6. \A i \in 1 .. n : new[i] = t \/ (i + off \in 1 .. m /\ new[i] = f[i + off])
    BY <2>1, <2>2
  <2> QED
    BY <2>4, <2>5, <2>6 DEF m, n
<1>19. RunsFit'
  <2>1. \A u \in SubTasks : bStatus'[u] # "none" =>
          bOwner'[u].by \in Watchers /\ bOwner'[u].of \in SubSessions
    BY <1>1, <1>2, <1>14 DEF RunsFit
  <2>2. \A u \in SubTasks : bStatus'[u] = "running" => u \in bRuns'[bOwner'[u].by]
    <3> TAKE u \in SubTasks
    <3> HAVE bStatus'[u] = "running"
    <3>1. u # t /\ bStatus[u] = "running"
      BY <1>14
    <3>2. u \in bRuns[bOwner[u].by] /\ bOwner[u].by \in Watchers /\ u \notin dropped
      BY <1>1, <1>15, <3>1 DEF RunsFit
    <3> QED
      BY <1>2, <1>15, <3>2
  <2>3. ASSUME NEW v \in Watchers, NEW u \in bRuns'[v]
        PROVE  /\ bOwner'[u].by = v /\ bStatus'[u] # "none"
               /\ bStatus'[u] = "running" \/ Kept(v, u)'
    <3>1. u \in bRuns[v] /\ u \in SubTasks /\ (v = w => u \notin dropped)
      BY <1>1, <1>15
    <3>2. /\ bOwner[u].by = v /\ bStatus[u] # "none"
          /\ bStatus[u] = "running" \/ Kept(v, u)
      BY <1>1, <3>1 DEF RunsFit
    <3>3. bOwner[u].of \in SubSessions
      BY <1>1, <3>1, <3>2 DEF RunsFit
    <3>4. CASE u = t
      <4>1. v = w /\ bOwner[u].of = s
        BY <3>2, <3>4
      <4>2. Kept(v, u)'
        BY <1>2, <1>13, <1>18, <3>4, <4>1 DEF Kept
      <4> QED
        BY <1>2, <1>14, <3>2, <3>4, <4>2
    <3>5. CASE u # t
      <4>1. bStatus'[u] = bStatus[u] /\ bOwner'[u] = bOwner[u]
        BY <1>2, <1>14, <3>1, <3>5
      <4>2. ASSUME Kept(v, u) PROVE Kept(v, u)'
        <5>1. PICK i \in 1 .. Len(bFinished[v][bOwner[u].of]) : bFinished[v][bOwner[u].of][i] = u
          BY <4>2 DEF Kept
        <5>2. CASE v = w /\ bOwner[u].of = s
          <6>1. i \in 1 .. Len(f) /\ f[i] = u
            BY <5>1, <5>2 DEF f
          <6>2. \E j \in 1 .. Len(new) : new[j] = u
            BY <1>18, <3>1, <5>2, <6>1
          <6> QED
            BY <1>2, <1>13, <5>2, <6>2 DEF Kept
        <5>3. CASE ~ (v = w /\ bOwner[u].of = s)
          <6>1. bFinished'[v][bOwner[u].of] = bFinished[v][bOwner[u].of]
            BY <1>13, <3>3, <5>3
          <6> QED
            BY <1>2, <5>1, <6>1 DEF Kept
        <5> QED BY <5>2, <5>3
      <4> QED
        BY <3>2, <4>1, <4>2
    <3> QED BY <3>4, <3>5
  <2> QED
    BY <2>1, <2>2, <2>3 DEF RunsFit
<1>20. FinishedFits(w, s)'
  <2>1. Len(new) <= MaxFinished
    <3> DEFINE m == Len(f)
               n == Len(new)
    <3>1. /\ m \in Nat /\ n = m + 1 - off /\ off \in {0, 1} /\ MaxFinished \in Nat
          /\ m <= MaxFinished /\ (off = 0 => m < MaxFinished)
      BY <1>4, <1>5, <1>6
    <3> HIDE DEF m, n
    <3>2. n <= MaxFinished
      BY <3>1
    <3> QED BY <3>2 DEF n
  <2>2. \A i, j \in 1 .. Len(new) : new[i] = new[j] => i = j
    <3> DEFINE m == Len(f)
               n == Len(new)
    <3>1. m \in Nat /\ n = m + 1 - off /\ off \in {0, 1}
      BY <1>4, <1>5, <1>6
    <3>2. \A i \in 1 .. n : new[i] = IF i + off <= m THEN f[i + off] ELSE t
      BY <1>5
    <3>3. /\ \A i, j \in 1 .. m : f[i] = f[j] => i = j
          /\ \A i \in 1 .. m : f[i] # t
      BY <1>10
    <3> HIDE DEF m, n
    <3>4. ASSUME NEW i \in 1 .. n, NEW j \in 1 .. n, new[i] = new[j] PROVE i = j
      <4>1. /\ i + off \in 1 .. m \/ (i + off = m + 1 /\ new[i] = t)
            /\ j + off \in 1 .. m \/ (j + off = m + 1 /\ new[j] = t)
            /\ i + off \in 1 .. m => new[i] = f[i + off]
            /\ j + off \in 1 .. m => new[j] = f[j + off]
        BY <3>1, <3>2
      <4>2. i + off = j + off
        BY <3>3, <3>4, <4>1
      <4> QED
        BY <3>1, <4>2
    <3> QED BY <3>4 DEF n
  <2>3. \A i \in 1 .. Len(new) :
          /\ new[i] \in bRuns'[w] /\ bOwner'[new[i]].of = s /\ bStatus'[new[i]] = "done"
    <3>1. ASSUME NEW i \in 1 .. Len(new)
          PROVE /\ new[i] \in bRuns'[w] /\ bOwner'[new[i]].of = s /\ bStatus'[new[i]] = "done"
      <4>1. CASE new[i] = t
        BY <1>2, <1>3, <1>14, <1>15, <4>1
      <4>2. CASE new[i] # t
        <5> DEFINE j == i + off
                   u == new[i]
        <5>1. j \in 1 .. Len(f) /\ u = f[j]
          BY <1>18, <4>2
        <5>2. j # 1 \/ off = 0
          BY <1>6
        <5> HIDE DEF u, j
        <5>3. /\ u \in SubTasks /\ u \in bRuns[w] /\ bOwner[u] = [by |-> w, of |-> s]
              /\ bStatus[u] = "done"
          BY <1>4, <5>1
        <5>4. u \notin dropped
          BY <1>6, <1>15, <5>1, <5>2
        <5>5. bStatus'[u] = "done" /\ u \in bRuns'[w] /\ bOwner'[u].of = s
          BY <1>2, <1>14, <1>15, <5>3, <5>4
        <5> QED BY <5>5 DEF u
      <4> QED BY <4>1, <4>2
    <3> QED BY <3>1
  <2> QED
    BY <1>13, <2>1, <2>2, <2>3, SMT DEF FinishedFits
<1>21. EndedFits(w, s)'
  <2> DEFINE m == Len(f)
             n == Len(new)
             l == Len(e)
  <2>1. /\ m \in Nat /\ l \in Nat /\ n = m + 1 - off /\ off \in {0, 1} /\ MaxFinished \in Nat \ {0}
        /\ m <= MaxFinished /\ (off = 1 => m = MaxFinished) /\ (off = 0 => m < MaxFinished)
    BY <1>4, <1>5, <1>6
  <2>2. /\ \A i \in 1 .. n : new[i] = IF i + off <= m THEN f[i + off] ELSE t
        /\ \A i \in 1 .. l : wide[i] = e[i]
        /\ Len(wide) = l + 1 /\ wide[l + 1] = t
    BY <1>5, <1>8 DEF wide
  <2>3. \A k \in 1 .. MaxFinished : k <= l => k <= m /\ f[m + 1 - k] = e[l + 1 - k]
    BY <1>11
  <2> HIDE DEF m, n, l
  <2>4. ASSUME NEW k \in 1 .. MaxFinished, k <= l + 1
        PROVE k <= n /\ new[n + 1 - k] = wide[(l + 1) + 1 - k]
    <3>1. CASE k = 1
      BY <2>1, <2>2, <3>1
    <3>2. CASE k # 1
      <4> DEFINE q == k - 1
      <4>1. q \in 1 .. MaxFinished /\ q <= l /\ k \in Nat /\ k = q + 1 /\ k <= MaxFinished
        BY <2>1, <2>4, <3>2
      <4> HIDE DEF q
      <4>2. q <= m /\ f[m + 1 - q] = e[l + 1 - q]
        BY <2>3, <4>1
      <4>3. k <= n
        BY <2>1, <4>1, <4>2
      <4>4. /\ n + 1 - k \in 1 .. n /\ (n + 1 - k) + off = m + 1 - q /\ m + 1 - q <= m
            /\ (l + 1) + 1 - k = l + 1 - q /\ l + 1 - q \in 1 .. l
        BY <2>1, <4>1, <4>2, <4>3
      <4> QED
        BY <2>2, <4>2, <4>3, <4>4
    <3> QED BY <3>1, <3>2
  <2>5. LastAre(new, wide)
    BY <2>2, <2>4, Zenon DEF LastAre, n
  <2>6. l >= m => n <= l + 1
    BY <2>1
  <2>7. bClosedBy'[s] = w => Len(new) <= Len(wide)
    BY <1>2, <1>12, <2>2, <2>6 DEF n, m, l
  <2> QED
    BY <1>13, <2>5, <2>7 DEF EndedFits
<1>22. ASSUME NEW v \in Watchers, NEW r \in SubSessions PROVE FinishedFits(v, r)' /\ EndedFits(v, r)'
  <2>1. CASE v = w /\ r = s
    BY <1>20, <1>21, <2>1
  <2>2. CASE v # w \/ r # s
    <3>1. /\ bFinished'[v][r] = bFinished[v][r] /\ bEnded'[v][r] = bEnded[v][r]
          /\ FinishedFits(v, r) /\ EndedFits(v, r)
      BY <1>13, <2>2 DEF SubagentsInv
    <3>2. ASSUME NEW i \in 1 .. Len(bFinished[v][r])
          PROVE  /\ bFinished[v][r][i] \in bRuns'[v] /\ bOwner'[bFinished[v][r][i]].of = r
                 /\ bStatus'[bFinished[v][r][i]] = "done"
      <4> DEFINE u == bFinished[v][r][i]
      <4>1. /\ u \in SubTasks /\ u \in bRuns[v] /\ bOwner[u] = [by |-> v, of |-> r]
            /\ bStatus[u] = "done"
        BY FinishedAre
      <4> HIDE DEF u
      <4>2. u # t /\ (v = w => u \notin dropped)
        <5>1. \A x \in dropped : bOwner[x] = [by |-> w, of |-> s]
          <6>1. off = 1 => 1 \in 1 .. Len(f)
            BY <1>4, <1>6
          <6> QED BY <1>4, <1>15, <6>1
        <5> QED BY <1>2, <2>2, <4>1, <5>1
      <4>3. u \in bRuns'[v] /\ bOwner'[u].of = r /\ bStatus'[u] = "done"
        BY <1>2, <1>14, <1>15, <4>1, <4>2
      <4> QED BY <4>3 DEF u
    <3>3. FinishedFits(v, r)'
      <4>1. /\ Len(bFinished[v][r]) <= MaxFinished
            /\ \A i, j \in 1 .. Len(bFinished[v][r]) :
                 bFinished[v][r][i] = bFinished[v][r][j] => i = j
        BY <3>1 DEF FinishedFits
      <4> QED
        BY <3>1, <3>2, <4>1, Zenon DEF FinishedFits
    <3>4. EndedFits(v, r)'
      <4>1. /\ LastAre(bFinished[v][r], bEnded[v][r]) /\ bClosedBy' = bClosedBy
            /\ bClosedBy[r] = v => Len(bFinished[v][r]) <= Len(bEnded[v][r])
        BY <1>2, <3>1 DEF EndedFits
      <4> QED
        BY <3>1, <4>1, Zenon DEF EndedFits
    <3> QED BY <3>3, <3>4
  <2> QED BY <2>1, <2>2
<1> QED
  BY <1>16, <1>17, <1>19, <1>22 DEF SubagentsInv

\* Every step keeps what is kept of subagents.
LEMMA NextKeepsSubagents ==
  ASSUME SubagentsInv, [Subagents!Next]_Subagents!vars PROVE SubagentsInv'
<1>1. EmittersFit /\ bTold \in [SubTasks -> {"nothing", "news", "end"}] /\ SubagentTypes
  BY DEF SubagentsInv, SubagentTypes
<1>2. (UNCHANGED <<bEmitter, bTold>>) =>
        EmittersFit' /\ bTold' \in [SubTasks -> {"nothing", "news", "end"}]
  BY <1>1 DEF EmittersFit
<1>3. ASSUME UNCHANGED <<bOwner, bStatus, bRuns, bFinished, bEnded, bClosedBy, bEmitter, bTold>>
      PROVE  SubagentsInv'
  BY <1>2, <1>3, SubagentsRest
<1>4. ASSUME NEW t \in SubTasks, NEW w \in Watchers, NEW s \in SubSessions,
             Subagents!Starts(t, w, s)
      PROVE  SubagentsInv'
  BY <1>4, StartsListed
<1>5. ASSUME NEW t \in SubTasks, Subagents!Outputs(t) PROVE SubagentsInv'
  BY <1>5, OutputsKeep
<1>6. ASSUME NEW t \in SubTasks, Subagents!Handled(t) PROVE SubagentsInv'
  BY <1>3, <1>6 DEF Subagents!Handled, Subagents!sessions, Subagents!books
<1>7. ASSUME NEW t \in SubTasks, Subagents!Finishes(t) PROVE SubagentsInv'
  <2>1. bOwner[t].by \in Watchers /\ bOwner[t].of \in SubSessions
    BY <1>7 DEF Subagents!Finishes, SubagentsInv, RunsFit
  <2> QED
    BY <1>7, <2>1, EndsKept
<1>8. ASSUME NEW t \in SubTasks, Subagents!TellsEnd(t) PROVE SubagentsInv'
  <2>1. EmittersFit' /\ bTold' \in [SubTasks -> {"nothing", "news", "end"}]
    BY <1>1, <1>8, NewsKeeps DEF Subagents!TellsEnd
  <2>2. UNCHANGED <<bOwner, bStatus, bRuns, bFinished, bEnded, bClosedBy>>
    BY <1>8 DEF Subagents!TellsEnd, Subagents!sessions, Subagents!books
  <2> QED
    BY <2>1, <2>2, SubagentsRest
<1>9. ASSUME NEW w \in Watchers, NEW t \in SubTasks, Subagents!AsksCancel(w, t)
      PROVE  SubagentsInv'
  BY <1>3, <1>9 DEF Subagents!AsksCancel, Subagents!sessions, Subagents!books
<1>10. ASSUME NEW s \in SubSessions, NEW w \in Watchers, Subagents!Ends(s, w)
       PROVE  SubagentsInv'
  BY <1>3, <1>10 DEF Subagents!Ends, Subagents!books
<1>11. ASSUME NEW s \in SubSessions, Subagents!Ended(s) PROVE SubagentsInv'
  BY <1>11, EndedForgotten
<1>12. ASSUME NEW s \in SubSessions, Subagents!Opens(s) PROVE SubagentsInv'
  BY <1>3, <1>12 DEF Subagents!Opens, Subagents!books
<1>13. CASE UNCHANGED Subagents!vars
  BY <1>3, <1>13 DEF Subagents!vars, Subagents!sessions, Subagents!books
<1> QED
  BY <1>4, <1>5, <1>6, <1>7, <1>8, <1>9, <1>10, <1>11, <1>12, <1>13 DEF Subagents!Next

\* At first there is no task.
LEMMA InitSubagents == Subagents!Init => SubagentsInv
<1> SUFFICES ASSUME Subagents!Init PROVE SubagentsInv
  OBVIOUS
<1>1. /\ bOwner = [t \in SubTasks |-> [by |-> "none", of |-> "none"]]
      /\ bStatus = [t \in SubTasks |-> "none"] /\ bRuns = [w \in Watchers |-> {}]
      /\ bFinished = [w \in Watchers |-> [s \in SubSessions |-> <<>>]]
      /\ bEnded = [w \in Watchers |-> [s \in SubSessions |-> <<>>]]
      /\ bTold = [t \in SubTasks |-> "nothing"] /\ bClosedBy = [s \in SubSessions |-> "none"]
  BY DEF Subagents!Init
<1>2. SubagentTypes
  BY <1>1 DEF SubagentTypes
<1>3. RunsFit /\ EmittersFit
  BY <1>1 DEF RunsFit, EmittersFit
<1>4. ASSUME NEW w \in Watchers, NEW s \in SubSessions PROVE FinishedFits(w, s) /\ EndedFits(w, s)
  <2>1. Len(bFinished[w][s]) = 0 /\ Len(bEnded[w][s]) = 0
    BY <1>1, EmptySeq
  <2>2. MaxFinished \in Nat \ {0}
    BY Resources DEF Subagents!SubagentsConstants
  <2> QED
    BY <2>1, <2>2 DEF FinishedFits, EndedFits, LastAre
<1> QED BY <1>2, <1>3, <1>4 DEF SubagentsInv

\* The connection lists what the invariant says.
LEMMA SubagentsInvImplies == SubagentsInv => SubagentsAreKnown
<1> SUFFICES ASSUME SubagentsInv PROVE SubagentsAreKnown
  OBVIOUS
<1>1. RunsFit /\ SubagentTypes
  BY DEF SubagentsInv
<1>2. Subagents!EndsAreLast
  BY <1>1 DEF SubagentTypes, Subagents!EndsAreLast
<1>3. \A t \in SubTasks : bStatus[t] = "running" => t \in bRuns[bOwner[t].by]
  BY <1>1 DEF RunsFit
<1>4. ASSUME NEW w \in Watchers, NEW s \in SubSessions
      PROVE  /\ Subagents!Latest(w, s) \subseteq bRuns[w]
             /\ bClosedBy[s] = w => \A t \in bRuns[w] :
                  bOwner[t].of = s => bStatus[t] = "running" \/ t \in Subagents!Latest(w, s)
  <2> DEFINE f == bFinished[w][s]
             e == bEnded[w][s]
             m == Len(f)
             l == Len(e)
  <2>1. /\ m \in Nat /\ l \in Nat /\ MaxFinished \in Nat \ {0} /\ m <= MaxFinished
        /\ \A i \in 1 .. m : f[i] \in bRuns[w]
        /\ DOMAIN e = 1 .. l
    <3>1. e \in Seq(SubTasks) => DOMAIN e = 1 .. Len(e)
      BY LenProperties
    <3>2. \A i \in 1 .. m : f[i] \in bRuns[w]
      BY FinishedAre
    <3>3. m \in Nat /\ l \in Nat /\ MaxFinished \in Nat \ {0} /\ m <= MaxFinished /\ e \in Seq(SubTasks)
      BY FinishedAre
    <3> QED BY <3>1, <3>2, <3>3
  <2>2. EndedFits(w, s)
    BY DEF SubagentsInv
  <2>3. \A k \in 1 .. MaxFinished : k <= l => k <= m /\ f[m + 1 - k] = e[l + 1 - k]
    BY <2>2 DEF EndedFits, LastAre
  <2>4. bClosedBy[s] = w => m <= l
    BY <2>2 DEF EndedFits
  <2>5. Subagents!Latest(w, s) = {e[i] : i \in {j \in 1 .. l : j + MaxFinished > l}}
    BY <2>1 DEF Subagents!Latest
  <2>6. \A t \in bRuns[w] : bOwner[t].of = s /\ bStatus[t] # "running" => \E i \in 1 .. m : f[i] = t
    BY <1>1 DEF RunsFit, Kept
  <2> HIDE DEF f, e, m, l
  <2>7. ASSUME NEW j \in 1 .. l, j + MaxFinished > l PROVE e[j] \in bRuns[w]
    <3> DEFINE k == l + 1 - j
    <3>1. k \in 1 .. MaxFinished /\ k <= l /\ l + 1 - k = j
      BY <2>1, <2>7
    <3> HIDE DEF k
    <3>2. k <= m /\ f[m + 1 - k] = e[j]
      BY <2>3, <3>1
    <3>3. m + 1 - k \in 1 .. m
      BY <2>1, <3>1, <3>2
    <3> QED BY <2>1, <3>2, <3>3
  <2>8. ASSUME bClosedBy[s] = w, NEW i \in 1 .. m
        PROVE  \E j \in 1 .. l : j + MaxFinished > l /\ e[j] = f[i]
    <3> DEFINE k == m + 1 - i
    <3>1. k \in 1 .. MaxFinished /\ k <= l /\ m + 1 - k = i
      BY <2>1, <2>4, <2>8
    <3> HIDE DEF k
    <3>2. f[i] = e[l + 1 - k]
      BY <2>3, <3>1
    <3>3. l + 1 - k \in 1 .. l /\ (l + 1 - k) + MaxFinished > l
      BY <2>1, <3>1
    <3> QED BY <3>2, <3>3
  <2> QED
    BY <2>5, <2>6, <2>7, <2>8
<1> QED
  BY <1>2, <1>3, <1>4 DEF SubagentsAreKnown, Subagents!SubagentsAreKnown, Subagents!RunsAreListed

\* A connection lists every task it watches that runs and those that ended last, as few as it
\* may keep, however many there are and whoever closes a session meanwhile, and the client is
\* told the end of a task once and last: _subagent_run, _prune_finished_subagent_runs,
\* _end_subagents.
THEOREM SubagentsStayKnown == Subagents!Spec => []SubagentsAreKnown
<1>1. Subagents!Init => SubagentsInv
  BY InitSubagents
<1>2. SubagentsInv /\ [Subagents!Next]_Subagents!vars => SubagentsInv'
  BY NextKeepsSubagents
<1>3. SubagentsInv => SubagentsAreKnown
  BY SubagentsInvImplies
<1> QED
  BY <1>1, <1>2, <1>3, PTL DEF Subagents!Spec

-----------------------------------------------------------------------------
(* The proof that handoffs are timely *)

\* Messages whose sizes are numbers, and the sums of the sizes of the first of them.
HasSizes(ms) == Len(ms) \in Nat /\ \A i \in 1 .. Len(ms) : ms[i].size \in Nat
Sums(f, ms, l) ==
  f \in [0 .. l -> Nat] /\ f[0] = 0 /\ \A n \in 1 .. l : f[n] = f[n - 1] + ms[n].size

\* There are such sums.
LEMMA SumsExist ==
  ASSUME NEW ms, HasSizes(ms) PROVE \E f : Sums(f, ms, Len(ms))
<1> DEFINE l == Len(ms)
           bad == {k \in 0 .. l : ~ \E f : Sums(f, ms, k)}
<1>1. l \in Nat /\ \A i \in 1 .. l : ms[i].size \in Nat
  BY DEF HasSizes
<1>2. ASSUME bad # {} PROVE FALSE
  <2>1. PICK m \in bad : \A k \in bad : m <= k
    <3>1. bad \subseteq Nat
      OBVIOUS
    <3> HIDE DEF bad
    <3> QED BY <1>2, <3>1, Least
  <2>2. m \in 0 .. l /\ ~ \E f : Sums(f, ms, m)
    BY <2>1
  <2>3. m # 0
    <3>1. Sums([k \in 0 .. 0 |-> 0], ms, 0)
      BY DEF Sums
    <3> QED BY <2>2, <3>1
  <2>4. m - 1 \in 0 .. l /\ m - 1 \notin bad
    <3>1. m - 1 \in 0 .. l /\ ~ (m <= m - 1)
      BY <1>1, <2>2, <2>3
    <3> HIDE DEF bad
    <3> QED BY <2>1, <3>1
  <2>5. PICK f : Sums(f, ms, m - 1)
    BY <2>4
  <2>6. /\ f \in [0 .. m - 1 -> Nat] /\ f[0] = 0
        /\ \A n \in 1 .. m - 1 : f[n] = f[n - 1] + ms[n].size
    BY <2>5 DEF Sums
  <2> DEFINE x == ms[m].size
             g == [k \in 0 .. m |-> IF k = m THEN f[m - 1] + x ELSE f[k]]
  <2>7. x \in Nat
    BY <1>1, <2>2, <2>3
  <2>8. m \in 1 .. l /\ m - 1 \in 0 .. m - 1 /\ m \in Nat
    BY <1>1, <2>2, <2>3
  <2>9. g \in [0 .. m -> Nat]
    <3> HIDE DEF x
    <3> QED BY <2>6, <2>7, <2>8
  <2>10. g[0] = 0
    BY <2>6, <2>8
  <2>11. \A n \in 1 .. m : g[n] = g[n - 1] + ms[n].size
    BY <2>6, <2>8
  <2>12. Sums(g, ms, m)
    <3> HIDE DEF g
    <3> QED BY <2>9, <2>10, <2>11 DEF Sums
  <2> QED BY <2>2, <2>12
<1> QED
  BY <1>1, <1>2

\* Tokens are the last of them.
LEMMA TokensAre ==
  ASSUME NEW ms, HasSizes(ms)
  PROVE  \E f : Sums(f, ms, Len(ms)) /\ Budget!Tokens(ms) = f[Len(ms)]
<1> DEFINE l == Len(ms)
           At(f, n) == IF n = 0 THEN 0 ELSE f[n - 1] + ms[n].size
           Grows(f) == f = [n \in 0 .. l |-> At(f, n)]
           g == CHOOSE f : Grows(f)
<1>1. l \in Nat /\ \A i \in 1 .. l : ms[i].size \in Nat
  BY DEF HasSizes
<1>2. PICK f : Sums(f, ms, l)
  BY SumsExist
<1>3. Grows(f)
  <2>1. ASSUME NEW n \in 0 .. l PROVE f[n] = At(f, n)
    BY <1>1, <1>2 DEF Sums
  <2>2. f \in [0 .. l -> Nat]
    BY <1>2 DEF Sums
  <2> HIDE DEF At
  <2> QED BY <2>1, <2>2
<1>4. Grows(g)
  <2> HIDE DEF Grows
  <2> QED BY <1>3
<1>5. Budget!Tokens(ms) = g[l]
  BY DEF Budget!Tokens
<1> HIDE DEF g
<1>6. g[0] = 0 /\ \A n \in 1 .. l : g[n] = g[n - 1] + ms[n].size
  BY <1>1, <1>4
<1>7. \A n \in 0 .. l : g[n] \in Nat
  <2> DEFINE bad == {n \in 0 .. l : g[n] \notin Nat}
  <2> SUFFICES ASSUME bad # {} PROVE FALSE
    OBVIOUS
  <2>1. PICK m \in bad : \A k \in bad : m <= k
    <3>1. bad \subseteq Nat
      OBVIOUS
    <3> HIDE DEF bad
    <3> QED BY <3>1, Least
  <2>2. m \in 1 .. l /\ g[m] \notin Nat
    BY <1>1, <1>6, <2>1
  <2>3. g[m - 1] \in Nat
    <3>1. m - 1 \in 0 .. l /\ ~ (m <= m - 1)
      BY <1>1, <2>2
    <3>2. m - 1 \notin bad
      <4> HIDE DEF bad
      <4> QED BY <2>1, <3>1
    <3> QED BY <3>1, <3>2
  <2>4. g[m] = g[m - 1] + ms[m].size /\ ms[m].size \in Nat
    BY <1>1, <1>6, <2>2
  <2> QED BY <2>2, <2>3, <2>4
<1>8. DOMAIN g = 0 .. l
  BY <1>4
<1>9. g = [n \in 0 .. l |-> g[n]]
  BY <1>4, <1>8
<1>10. g \in [0 .. l -> Nat]
  BY <1>7, <1>9
<1>11. Sums(g, ms, l)
  BY <1>6, <1>10 DEF Sums
<1> QED
  BY <1>5, <1>11

\* What does not change from one place to the next is the same at all.
LEMMA SameAtAll ==
  ASSUME NEW d, NEW l \in Nat, \A n \in 1 .. l : d[n] = d[n - 1] PROVE \A n \in 0 .. l : d[n] = d[0]
<1> DEFINE bad == {n \in 0 .. l : d[n] # d[0]}
<1> SUFFICES ASSUME bad # {} PROVE FALSE
  OBVIOUS
<1>1. PICK m \in bad : \A k \in bad : m <= k
  <2>1. bad \subseteq Nat
    OBVIOUS
  <2> HIDE DEF bad
  <2> QED BY <2>1, Least
<1>2. m \in 1 .. l /\ d[m] # d[0] /\ d[m] = d[m - 1]
  BY <1>1
<1>3. m - 1 \in 0 .. l /\ ~ (m <= m - 1)
  BY <1>2
<1>4. m - 1 \notin bad
  <2> HIDE DEF bad
  <2> QED BY <1>1, <1>3
<1> QED BY <1>2, <1>3, <1>4

\* c is a and then rest, by their sizes.
Joined(ms, rest, whole) ==
  /\ Len(whole) = Len(ms) + Len(rest)
  /\ \A i \in 1 .. Len(ms) : whole[i].size = ms[i].size
  /\ \A i \in 1 .. Len(rest) : whole[Len(ms) + i].size = rest[i].size

\* The tokens of two parts are the tokens of the whole.
LEMMA TokensJoin ==
  ASSUME NEW ms, NEW rest, NEW whole, HasSizes(ms), HasSizes(rest), Joined(ms, rest, whole)
  PROVE  /\ HasSizes(whole) /\ Budget!Tokens(ms) \in Nat /\ Budget!Tokens(rest) \in Nat
         /\ Budget!Tokens(whole) = Budget!Tokens(ms) + Budget!Tokens(rest)
<1> DEFINE k == Len(ms)
           l == Len(rest)
<1>1. /\ k \in Nat /\ l \in Nat /\ Len(whole) = k + l
      /\ \A i \in 1 .. k : ms[i].size \in Nat /\ whole[i].size = ms[i].size
      /\ \A i \in 1 .. l : rest[i].size \in Nat /\ whole[k + i].size = rest[i].size
  BY DEF HasSizes, Joined
<1>2. PICK f : Sums(f, ms, k) /\ Budget!Tokens(ms) = f[k]
  BY TokensAre
<1>3. PICK g : Sums(g, rest, l) /\ Budget!Tokens(rest) = g[l]
  BY TokensAre
<1>4. HasSizes(whole)
  <2>1. ASSUME NEW i \in 1 .. k + l PROVE whole[i].size \in Nat
    <3>1. CASE i <= k
      BY <1>1, <3>1
    <3>2. CASE i > k
      <4>1. i - k \in 1 .. l /\ k + (i - k) = i
        BY <1>1, <3>2
      <4> QED BY <1>1, <4>1
    <3> QED BY <1>1, <3>1, <3>2
  <2> QED BY <1>1, <2>1 DEF HasSizes
<1>5. PICK h : Sums(h, whole, k + l) /\ Budget!Tokens(whole) = h[k + l]
  BY <1>1, <1>4, TokensAre
<1> HIDE DEF k, l
<1>6. /\ f \in [0 .. k -> Nat] /\ f[0] = 0 /\ \A n \in 1 .. k : f[n] = f[n - 1] + ms[n].size
      /\ g \in [0 .. l -> Nat] /\ g[0] = 0 /\ \A n \in 1 .. l : g[n] = g[n - 1] + rest[n].size
      /\ h \in [0 .. k + l -> Nat] /\ h[0] = 0
      /\ \A n \in 1 .. k + l : h[n] = h[n - 1] + whole[n].size
  BY <1>2, <1>3, <1>5 DEF Sums
<1>7. h[k] = f[k]
  <2> DEFINE d == [n \in 0 .. k |-> h[n] - f[n]]
  <2>1. ASSUME NEW n \in 1 .. k PROVE d[n] = d[n - 1]
    <3> DEFINE x == ms[n].size
    <3>1. /\ n \in 0 .. k /\ n - 1 \in 0 .. k /\ n \in 1 .. k + l /\ n - 1 \in 0 .. k + l
          /\ n \in 0 .. k + l
      BY <1>1
    <3>2. h[n] = h[n - 1] + x /\ f[n] = f[n - 1] + x /\ x \in Nat
      BY <1>1, <1>6, <3>1
    <3>3. h[n - 1] \in Nat /\ f[n - 1] \in Nat
      BY <1>6, <3>1
    <3> HIDE DEF x
    <3> QED BY <3>1, <3>2, <3>3
  <2> HIDE DEF d
  <2>2. k \in Nat /\ k \in 0 .. k /\ 0 \in 0 .. k
    BY <1>1
  <2>3. d[k] = d[0]
    BY <2>1, <2>2, SameAtAll
  <2>4. h[k] - f[k] = 0 /\ h[k] \in Nat /\ f[k] \in Nat
    <3>1. k \in 0 .. k + l
      BY <1>1
    <3>2. h[k] \in Nat /\ f[k] \in Nat
      BY <1>6, <2>2, <3>1
    <3>3. d[k] = h[k] - f[k] /\ d[0] = h[0] - f[0]
      BY <2>2 DEF d
    <3>4. h[0] - f[0] = 0
      BY <1>6
    <3> QED BY <2>3, <3>2, <3>3, <3>4
  <2> QED BY <2>4
<1>8. h[k + l] = h[k] + g[l]
  <2> DEFINE d == [n \in 0 .. l |-> h[k + n] - g[n]]
  <2>1. ASSUME NEW n \in 1 .. l PROVE d[n] = d[n - 1]
    <3> DEFINE x == rest[n].size
    <3>1. /\ n \in 0 .. l /\ n - 1 \in 0 .. l /\ k + n \in 1 .. k + l /\ (k + n) - 1 = k + (n - 1)
          /\ k + (n - 1) \in 0 .. k + l
      BY <1>1
    <3>2. h[k + n] = h[k + (n - 1)] + x /\ g[n] = g[n - 1] + x /\ x \in Nat
      BY <1>1, <1>6, <3>1
    <3>3. h[k + (n - 1)] \in Nat /\ g[n - 1] \in Nat
      BY <1>6, <3>1
    <3> HIDE DEF x
    <3> QED BY <3>1, <3>2, <3>3
  <2> HIDE DEF d
  <2>2. l \in Nat /\ l \in 0 .. l /\ 0 \in 0 .. l
    BY <1>1
  <2>3. d[l] = d[0]
    BY <2>1, <2>2, SameAtAll
  <2>4. h[k + l] \in Nat /\ h[k] \in Nat /\ g[l] \in Nat /\ k + 0 = k
    BY <1>1, <1>6
  <2>5. d[l] = h[k + l] - g[l] /\ d[0] = h[k + 0] - g[0]
    BY <2>2 DEF d
  <2>6. h[k + 0] - g[0] = h[k]
    BY <1>6, <2>4
  <2> QED BY <2>4, <2>5, <2>3, <2>6
<1>9. f[k] \in Nat /\ g[l] \in Nat
  BY <1>1, <1>6
<1> QED
  BY <1>2, <1>3, <1>4, <1>5, <1>7, <1>8, <1>9

\* One message has its tokens.
LEMMA TokensOfOne ==
  ASSUME NEW m, m.size \in Nat
  PROVE  HasSizes(<<m>>) /\ Budget!Tokens(<<m>>) = m.size
<1>1. HasSizes(<<m>>) /\ Len(<<m>>) = 1 /\ <<m>>[1] = m
  BY DEF HasSizes
<1>2. PICK f : Sums(f, <<m>>, 1) /\ Budget!Tokens(<<m>>) = f[1]
  BY <1>1, TokensAre
<1>3. f[0] = 0 /\ f[1] = f[0] + m.size
  BY <1>1, <1>2 DEF Sums
<1> QED BY <1>1, <1>2, <1>3

\* A message; the messages of a turn are not empty; a baseline counts what it covers; and a
\* request is told to hand off in time.
Message == [id : Nat, size : Nat]
MessagesFit ==
  /\ gNames \in Nat /\ gMessages \in Seq(Message) /\ Len(gMessages) \in Nat \ {0}
  /\ \A i \in 1 .. Len(gMessages) : gMessages[i].size \in Sizes
RequestFits ==
  gRequest = Budget!NoRequest \/ gRequest \in [model : Models, tools : Toolsets, messages : Seq(Message)]
BaselineFits ==
  \/ gBaseline = Budget!NoBaseline
  \/ /\ gBaseline \in [model : Models, tools : Toolsets, messages : Seq(Message), total : Nat]
     /\ gBaseline.total = Budget!Tokens(gBaseline.messages) + ToolTokens[gBaseline.tools]
BudgetInv == MessagesFit /\ RequestFits /\ BaselineFits /\ Budget!HandoffIsTimely

\* What is assumed of the budget.
LEMMA BudgetFacts ==
  /\ MaxTokens \in Nat /\ Reserve \in Nat /\ "none" \notin Models
  /\ \A set \in Toolsets : ToolTokens[set] \in Nat /\ ToolTokens[set] <= Reserve
  /\ Sizes \subseteq Nat \ {0}
<1>1. ToolTokens \in [Toolsets -> 0 .. Reserve] /\ Reserve \in Nat
  BY Resources DEF Budget!ContextBudgetConstants
<1> QED
  BY <1>1, Resources DEF Budget!ContextBudgetConstants

\* Messages have sizes, and the tokens of them are a number.
LEMMA MessagesHaveSizes ==
  ASSUME NEW ms \in Seq(Message)
  PROVE  /\ HasSizes(ms) /\ Budget!Tokens(ms) \in Nat
         /\ \A i \in 1 .. Len(ms) : ms[i] \in Message
<1>1. Len(ms) \in Nat
  BY LenProperties
<1>2. \A i \in 1 .. Len(ms) : ms[i] \in Message
  BY ElementOfSeq
<1>3. HasSizes(ms)
  BY <1>1, <1>2 DEF HasSizes, Message
<1>4. PICK f : Sums(f, ms, Len(ms)) /\ Budget!Tokens(ms) = f[Len(ms)]
  BY <1>3, TokensAre
<1>5. f[Len(ms)] \in Nat
  BY <1>1, <1>4 DEF Sums
<1> QED
  BY <1>2, <1>3, <1>4, <1>5

\* A message more is its tokens more, at the end
LEMMA TokensOfMore ==
  ASSUME NEW ms \in Seq(Message), NEW m \in Message
  PROVE  Append(ms, m) \in Seq(Message)
         /\ Budget!Tokens(Append(ms, m)) = Budget!Tokens(ms) + m.size
<1>1. m.size \in Nat
  BY DEF Message
<1>2. HasSizes(<<m>>) /\ Budget!Tokens(<<m>>) = m.size
  BY <1>1, TokensOfOne
<1>3. HasSizes(ms) /\ Len(ms) \in Nat
  BY MessagesHaveSizes DEF HasSizes
<1>4. /\ Append(ms, m) \in Seq(Message) /\ Len(Append(ms, m)) = Len(ms) + 1
      /\ \A i \in 1 .. Len(ms) : Append(ms, m)[i] = ms[i]
      /\ Append(ms, m)[Len(ms) + 1] = m
  BY AppendProperties
<1>5. Joined(ms, <<m>>, Append(ms, m))
  <2>1. Len(<<m>>) = 1 /\ <<m>>[1] = m
    OBVIOUS
  <2> DEFINE more == Append(ms, m)
             one == <<m>>
  <2> HIDE DEF more, one
  <2>2. \A i \in 1 .. 1 : more[Len(ms) + i] = one[i]
    BY <1>4, <2>1 DEF more, one
  <2>3. Joined(ms, one, more)
    BY <1>4, <2>1, <2>2 DEF more, one, Joined
  <2> QED BY <2>3 DEF more, one
<1>6. Budget!Tokens(Append(ms, m)) = Budget!Tokens(ms) + Budget!Tokens(<<m>>)
  <2> DEFINE more == Append(ms, m)
             one == <<m>>
  <2>1. HasSizes(one) /\ HasSizes(ms) /\ Joined(ms, one, more)
    BY <1>2, <1>3, <1>5
  <2> HIDE DEF more, one
  <2>2. Budget!Tokens(more) = Budget!Tokens(ms) + Budget!Tokens(one)
    BY <2>1, TokensJoin
  <2> QED BY <2>2 DEF more, one
<1> QED
  BY <1>2, <1>4, <1>6

\* and at the front;
LEMMA TokensOfFirst ==
  ASSUME NEW ms \in Seq(Message), NEW m \in Message
  PROVE  <<m>> \o ms \in Seq(Message)
         /\ Budget!Tokens(<<m>> \o ms) = m.size + Budget!Tokens(ms)
<1>1. m.size \in Nat
  BY DEF Message
<1>2. HasSizes(<<m>>) /\ Budget!Tokens(<<m>>) = m.size /\ <<m>> \in Seq(Message)
      /\ Len(<<m>>) = 1 /\ <<m>>[1] = m
  BY <1>1, TokensOfOne
<1>3. HasSizes(ms) /\ Len(ms) \in Nat
  BY MessagesHaveSizes DEF HasSizes
<1> DEFINE one == <<m>>
           more == one \o ms
<1> HIDE DEF one
<1>4. /\ more \in Seq(Message) /\ Len(more) = Len(one) + Len(ms)
      /\ \A i \in 1 .. Len(one) : more[i] = one[i]
      /\ \A i \in Len(one) + 1 .. Len(one) + Len(ms) : more[i] = ms[i - Len(one)]
  BY <1>2, ConcatProperties DEF one
<1> HIDE DEF more
<1>5. Len(one) = 1
  BY <1>2 DEF one
<1>6. \A i \in 1 .. Len(ms) : more[Len(one) + i] = ms[i]
  <2> DEFINE l == Len(ms)
  <2> HIDE DEF l
  <2>1. \A i \in 1 .. l : 1 + i \in 1 + 1 .. 1 + l /\ (1 + i) - 1 = i
    BY <1>3 DEF l
  <2>2. \A i \in 1 + 1 .. 1 + l : more[i] = ms[i - 1]
    BY <1>4, <1>5 DEF l
  <2>3. \A i \in 1 .. l : more[1 + i] = ms[i]
    BY <2>1, <2>2
  <2> QED BY <1>5, <2>3 DEF l
<1>7. Joined(one, ms, more)
  BY <1>4, <1>6 DEF Joined
<1>8. Budget!Tokens(more) = Budget!Tokens(one) + Budget!Tokens(ms)
  BY <1>2, <1>3, <1>7, TokensJoin DEF one
<1> QED
  BY <1>2, <1>4, <1>8 DEF one, more

\* the tokens of a part that the rest goes on from are the others.
LEMMA TokensGoOn ==
  ASSUME NEW ms \in Seq(Message), NEW from \in Seq(Message), Budget!IsPrefix(from, ms)
  PROVE  Budget!Tokens(ms)
           = Budget!Tokens(from) + Budget!Tokens(SubSeq(ms, Len(from) + 1, Len(ms)))
<1> DEFINE k == Len(from)
           l == Len(ms)
           rest == SubSeq(ms, k + 1, l)
<1>1. /\ k \in Nat /\ l \in Nat /\ HasSizes(from)
      /\ \A i \in 1 .. k : from[i] \in Message
      /\ \A i \in 1 .. l : ms[i] \in Message
  BY MessagesHaveSizes DEF HasSizes
<1>2. k <= l /\ SubSeq(from, 1, k) = SubSeq(ms, 1, k)
  BY DEF Budget!IsPrefix
<1> HIDE DEF k, l
<1>3. \A i \in 1 .. k : from[i] = ms[i]
  <2>1. \A i \in 1 .. k - 1 + 1 : SubSeq(from, 1, k)[i] = from[1 + i - 1]
    <3>1. 1 \in Int /\ k \in Int
      BY <1>1
    <3> QED BY <1>1, <3>1, SubSeqProperties
  <2>2. \A i \in 1 .. k - 1 + 1 : SubSeq(ms, 1, k)[i] = ms[1 + i - 1]
    <3>1. \A i \in 1 .. k : ms[i] \in Message
      BY <1>1, <1>2
    <3>2. 1 \in Int /\ k \in Int
      BY <1>1
    <3> QED BY <3>1, <3>2, SubSeqProperties
  <2>3. \A i \in 1 .. k : i \in 1 .. k - 1 + 1 /\ 1 + i - 1 = i
    BY <1>1
  <2> QED BY <1>2, <2>1, <2>2, <2>3
<1>4. /\ rest \in Seq(Message) /\ Len(rest) = l - k
      /\ \A i \in 1 .. l - k : rest[i] = ms[k + i]
  <2>1. k + 1 \in Int /\ l \in Int /\ \A i \in k + 1 .. l : ms[i] \in Message
    BY <1>1
  <2>2. /\ rest \in Seq(Message)
        /\ Len(rest) = IF k + 1 <= l THEN l - (k + 1) + 1 ELSE 0
        /\ \A i \in 1 .. l - (k + 1) + 1 : rest[i] = ms[(k + 1) + i - 1]
    BY <2>1, SubSeqProperties
  <2>3. l - (k + 1) + 1 = l - k /\ (k + 1 <= l \/ l - k = 0)
        /\ \A i \in 1 .. l - k : (k + 1) + i - 1 = k + i
    BY <1>1, <1>2
  <2> HIDE DEF rest
  <2> QED BY <2>2, <2>3
<1> HIDE DEF rest
<1>5. HasSizes(rest)
  BY <1>4, MessagesHaveSizes
<1>6. Joined(from, rest, ms)
  <2>1. Len(ms) = Len(from) + Len(rest)
    BY <1>1, <1>2, <1>4 DEF k, l
  <2> QED BY <1>3, <1>4, <2>1 DEF Joined, k
<1>7. Budget!Tokens(ms) = Budget!Tokens(from) + Budget!Tokens(rest)
  BY <1>1, <1>5, <1>6, TokensJoin
<1> QED
  BY <1>7 DEF rest, k, l

\* Messages that are not empty take some.
LEMMA TokensArePositive ==
  ASSUME MessagesFit PROVE Budget!Tokens(gMessages) \in Nat \ {0}
<1>1. /\ HasSizes(gMessages) /\ Len(gMessages) \in Nat /\ Len(gMessages) >= 1
      /\ \A i \in 1 .. Len(gMessages) : gMessages[i] \in Message
      /\ gMessages \in Seq(Message)
  BY MessagesHaveSizes DEF MessagesFit
<1> DEFINE m == gMessages[1]
<1>2. m \in Message /\ m.size \in Sizes
  BY <1>1 DEF MessagesFit
<1>3. m.size \in Nat /\ m.size > 0
  <2>1. Sizes \subseteq Nat \ {0}
    BY BudgetFacts
  <2>2. m.size \in Nat \ {0}
    BY <1>2, <2>1, Zenon
  <2> DEFINE x == m.size
  <2>3. x \in Nat \ {0}
    BY <2>2
  <2> HIDE DEF x
  <2>4. x \in Nat /\ x > 0
    BY <2>3
  <2> QED BY <2>4 DEF x
<1> DEFINE l == Len(gMessages)
           one == <<m>>
           others == SubSeq(gMessages, 2, l)
<1>4. HasSizes(one) /\ Budget!Tokens(one) = m.size /\ Len(one) = 1 /\ one[1] = m
  BY <1>3, TokensOfOne
<1>5. /\ others \in Seq(Message) /\ Len(others) = l - 1
      /\ \A i \in 1 .. l - 1 : others[i] = gMessages[1 + i]
  <2>1. 2 \in Int /\ l \in Int /\ \A i \in 2 .. l : gMessages[i] \in Message
    BY <1>1
  <2>2. /\ others \in Seq(Message) /\ Len(others) = IF 2 <= l THEN l - 2 + 1 ELSE 0
        /\ \A i \in 1 .. l - 2 + 1 : others[i] = gMessages[2 + i - 1]
    BY <2>1, SubSeqProperties
  <2>3. l \in Nat /\ l >= 1
    BY <1>1
  <2> HIDE DEF others, l
  <2>4. l - 2 + 1 = l - 1 /\ (2 <= l \/ l - 1 = 0) /\ \A i \in 1 .. l - 1 : 2 + i - 1 = 1 + i
    BY <2>3
  <2> QED BY <2>2, <2>4
<1> HIDE DEF one, others, l
<1>6. HasSizes(others) /\ Budget!Tokens(others) \in Nat
  BY <1>5, MessagesHaveSizes
<1>7. Joined(one, others, gMessages)
  <2>1. l \in Nat /\ l >= 1 /\ Len(gMessages) = l
    BY <1>1 DEF l
  <2>2. Len(gMessages) = Len(one) + Len(others)
    BY <1>4, <1>5, <2>1
  <2>3. \A i \in 1 .. Len(one) : gMessages[i].size = one[i].size
    BY <1>4
  <2>4. \A i \in 1 .. Len(others) : gMessages[Len(one) + i].size = others[i].size
    BY <1>4, <1>5
  <2> QED BY <2>2, <2>3, <2>4 DEF Joined
<1>8. Budget!Tokens(gMessages) = Budget!Tokens(one) + Budget!Tokens(others)
  BY <1>4, <1>6, <1>7, TokensJoin
<1> HIDE DEF m
<1> QED
  BY <1>3, <1>4, <1>6, <1>8

\* The estimate counts the whole request, or leaves out its tools.
LEMMA EstimateIs ==
  ASSUME MessagesFit, BaselineFits, NEW kind \in Models, NEW set \in Toolsets
  PROVE  LET asked == [model |-> kind, tools |-> set, messages |-> gMessages] IN
         Budget!Estimate(asked) \in {Budget!Tokens(gMessages),
                                     Budget!Tokens(gMessages) + ToolTokens[set]}
<1> DEFINE asked == [model |-> kind, tools |-> set, messages |-> gMessages]
           from == gBaseline.messages
           rest == SubSeq(gMessages, Len(from) + 1, Len(gMessages))
<1>1. asked.model = kind /\ asked.tools = set /\ asked.messages = gMessages
  OBVIOUS
<1> HIDE DEF asked
<1>2. CASE gBaseline.model = kind /\ gBaseline.tools = set /\ Budget!GoesOn(gMessages)
  <2>1. Budget!Estimate(asked) = gBaseline.total + Budget!Tokens(rest)
    BY <1>1, <1>2 DEF Budget!Estimate
  <2>2. gBaseline # Budget!NoBaseline
    BY <1>2, BudgetFacts DEF Budget!NoBaseline
  <2>3. /\ from \in Seq(Message) /\ gBaseline.total = Budget!Tokens(from) + ToolTokens[set]
        /\ gMessages \in Seq(Message) /\ Budget!IsPrefix(from, gMessages)
    BY <1>2, <2>2 DEF BaselineFits, MessagesFit, Budget!GoesOn
  <2> HIDE DEF from
  <2>4. Budget!Tokens(gMessages) = Budget!Tokens(from) + Budget!Tokens(rest)
    BY <2>3, TokensGoOn
  <2>5. rest \in Seq(Message)
    <3>1. from \in Seq(Message) /\ Len(from) \in Nat /\ Len(gMessages) \in Nat
      BY <2>3, LenProperties
    <3>2. Len(from) + 1 \in Int /\ Len(gMessages) \in Int
          /\ \A i \in Len(from) + 1 .. Len(gMessages) : i \in 1 .. Len(gMessages)
      BY <3>1
    <3>3. \A i \in Len(from) + 1 .. Len(gMessages) : gMessages[i] \in Message
      BY <2>3, <3>2, MessagesHaveSizes
    <3> QED BY <3>2, <3>3, SubSeqProperties
  <2>6. Budget!Tokens(from) \in Nat /\ Budget!Tokens(rest) \in Nat /\ ToolTokens[set] \in Nat
    BY <2>3, <2>5, MessagesHaveSizes, BudgetFacts
  <2> HIDE DEF rest
  <2> DEFINE x == Budget!Tokens(from)
             y == Budget!Tokens(rest)
             z == ToolTokens[set]
  <2>7. (x + z) + y = (x + y) + z
    <3> HIDE DEF x, y, z
    <3>1. x \in Nat /\ y \in Nat /\ z \in Nat
      BY <2>6 DEF x, y, z
    <3> QED BY <3>1
  <2>8. Budget!Estimate(asked) = Budget!Tokens(gMessages) + ToolTokens[set]
    BY <2>1, <2>3, <2>4, <2>7
  <2> QED BY <2>8 DEF asked
<1>3. CASE ~ (gBaseline.model = kind /\ gBaseline.tools = set /\ Budget!GoesOn(gMessages))
  <2>1. Budget!Estimate(asked) = Budget!Tokens(gMessages)
    BY <1>1, <1>3 DEF Budget!Estimate
  <2> QED BY <2>1 DEF asked
<1> QED BY <1>2, <1>3

\* So a request is told to hand off in time.
LEMMA AsksInTime ==
  ASSUME BudgetInv, NEW kind \in Models, NEW set \in Toolsets, Budget!BeforeLlmCall(kind, set)
  PROVE  BudgetInv'
<1> DEFINE asked == [model |-> kind, tools |-> set, messages |-> gMessages]
           est == Budget!Estimate(asked)
           x == Budget!Tokens(gMessages)
           z == ToolTokens[set]
           over == IF MaxTokens > Reserve THEN MaxTokens - Reserve ELSE 0
           sent == IF gTold' THEN <<Budget!Instruction>> \o gMessages ELSE gMessages
<1>1. MessagesFit /\ BaselineFits /\ gMessages \in Seq(Message)
  BY DEF BudgetInv, MessagesFit
<1>2. /\ gTold' = (est > over)
      /\ gRequest' = [model |-> kind, tools |-> set, messages |-> sent]
      /\ UNCHANGED <<gMessages, gNames, gBaseline>>
  BY DEF Budget!BeforeLlmCall, Budget!Threshold
<1>3. est \in {x, x + z}
  BY <1>1, EstimateIs
<1>4. /\ x \in Nat \ {0} /\ z \in Nat /\ z <= Reserve /\ MaxTokens \in Nat /\ Reserve \in Nat
  BY <1>1, TokensArePositive, BudgetFacts
<1>5. Budget!Instruction \in Message /\ Budget!Instruction.size = 0
  BY DEF Budget!Instruction, Message
<1>6. sent \in Seq(Message) /\ Budget!Tokens(sent) = x
  <2>1. <<Budget!Instruction>> \o gMessages \in Seq(Message)
        /\ Budget!Tokens(<<Budget!Instruction>> \o gMessages) = 0 + x
    BY <1>1, <1>5, TokensOfFirst
  <2>2. 0 + x = x
    BY <1>4
  <2> QED BY <1>1, <2>1, <2>2
<1> HIDE DEF asked, est, x, z, sent
<1>7. Budget!Taken' = x + z
  <2>1. gRequest'.messages = sent /\ gRequest'.tools = set
    BY <1>2
  <2>2. Budget!Taken' = Budget!Tokens(gRequest'.messages) + ToolTokens[gRequest'.tools]
    BY DEF Budget!Taken
  <2> QED BY <1>6, <2>1, <2>2 DEF z
<1>8. (~ gTold' => x + z <= MaxTokens) /\ (gTold' => x + z > over)
  <2> DEFINE more == est > over
  <2>1. gTold' = more
    BY <1>2
  <2>2. (more => x + z > over) /\ (~ more => x + z <= MaxTokens)
    BY <1>3, <1>4
  <2> HIDE DEF more
  <2> QED BY <2>1, <2>2, Zenon
<1>9. Budget!Threshold' = over
  BY DEF Budget!Threshold
<1>10. Budget!HandoffIsTimely'
  BY <1>7, <1>8, <1>9 DEF Budget!HandoffIsTimely
<1>11. gRequest' \in [model : Models, tools : Toolsets, messages : Seq(Message)]
  BY <1>2, <1>6
<1>12. MessagesFit' /\ RequestFits'
  BY <1>1, <1>2, <1>11 DEF MessagesFit, RequestFits
<1>13. BaselineFits'
  BY <1>1, <1>2 DEF BaselineFits
<1> QED
  BY <1>10, <1>12, <1>13 DEF BudgetInv

\* Without a request there is nothing to tell.
LEMMA NothingAsked == gRequest' = Budget!NoRequest => Budget!HandoffIsTimely' /\ RequestFits'
  BY DEF Budget!HandoffIsTimely, RequestFits

\* A message more, of a size that messages have.
LEMMA MessagesGrow ==
  ASSUME MessagesFit, NEW size \in Sizes
  PROVE  LET m == [id |-> gNames, size |-> size] IN
         /\ m \in Message /\ gNames + 1 \in Nat
         /\ gMessages' = Append(gMessages, m) /\ gNames' = gNames + 1 => MessagesFit'
<1> DEFINE m == [id |-> gNames, size |-> size]
<1>1. gNames \in Nat /\ size \in Nat /\ gMessages \in Seq(Message) /\ Len(gMessages) \in Nat
  BY BudgetFacts DEF MessagesFit
<1>2. m \in Message /\ m.size = size
  BY <1>1 DEF Message
<1> HIDE DEF m
<1>3. ASSUME gMessages' = Append(gMessages, m), gNames' = gNames + 1 PROVE MessagesFit'
  <2> DEFINE l == Len(gMessages)
             more == Append(gMessages, m)
  <2>1. /\ more \in Seq(Message) /\ Len(more) = l + 1 /\ more[l + 1] = m
        /\ \A i \in 1 .. l : more[i] = gMessages[i]
    BY <1>1, <1>2, AppendProperties
  <2>2. \A i \in 1 .. l : gMessages[i].size \in Sizes
    BY DEF MessagesFit
  <2>3. l \in Nat /\ gMessages' = more
    BY <1>1, <1>3
  <2> HIDE DEF l, more
  <2>4. \A i \in 1 .. l + 1 : more[i].size \in Sizes
    <3>1. \A i \in 1 .. l + 1 : i \in 1 .. l \/ i = l + 1
      BY <2>3
    <3> QED BY <1>2, <2>1, <2>2, <3>1
  <2>5. l + 1 \in Nat \ {0} /\ gNames' \in Nat
    BY <1>1, <1>3, <2>3
  <2> QED
    BY <2>1, <2>3, <2>4, <2>5 DEF MessagesFit
<1> QED
  BY <1>1, <1>2, <1>3 DEF m

\* The usage of a call counts what it covers.
LEMMA AnswersKeepBudget ==
  ASSUME BudgetInv, NEW size \in Sizes, Budget!AfterLlmCall(size) PROVE BudgetInv'
<1> DEFINE answer == [id |-> gNames, size |-> size]
<1>1. MessagesFit /\ BaselineFits /\ RequestFits
  BY DEF BudgetInv
<1>2. answer \in Message /\ gMessages' = Append(gMessages, answer) /\ gNames' = gNames + 1
  BY <1>1, MessagesGrow DEF Budget!AfterLlmCall
<1>3. MessagesFit'
  BY <1>1, <1>2, MessagesGrow
<1>4. Budget!HandoffIsTimely' /\ RequestFits'
  BY NothingAsked DEF Budget!AfterLlmCall
<1>5. CASE UNCHANGED gBaseline
  <2>1. BaselineFits'
    BY <1>1, <1>5 DEF BaselineFits
  <2> QED BY <1>3, <1>4, <2>1 DEF BudgetInv
<1>6. CASE gBaseline' = [model |-> gRequest.model, tools |-> gRequest.tools,
                         messages |-> Append(gRequest.messages, answer),
                         total |-> Budget!Taken + size]
  <2> DEFINE ms == gRequest.messages
             set == gRequest.tools
             x == Budget!Tokens(ms)
             z == ToolTokens[set]
             more == Append(ms, answer)
  <2>1. gRequest \in [model : Models, tools : Toolsets, messages : Seq(Message)]
    BY <1>1 DEF RequestFits, Budget!AfterLlmCall
  <2>2. ms \in Seq(Message) /\ set \in Toolsets /\ gRequest.model \in Models
    BY <2>1
  <2>3. x \in Nat /\ z \in Nat /\ size \in Nat /\ answer.size = size
    BY <2>2, MessagesHaveSizes, BudgetFacts
  <2>4. more \in Seq(Message) /\ Budget!Tokens(more) = x + size
    <3> HIDE DEF ms, answer
    <3> QED BY <1>2, <2>2, <2>3, TokensOfMore
  <2>5. Budget!Taken = x + z
    BY DEF Budget!Taken
  <2>6. gBaseline' = [model |-> gRequest.model, tools |-> set, messages |-> more,
                      total |-> (x + z) + size]
    BY <1>6, <2>5
  <2> HIDE DEF ms, set, x, z, more, answer
  <2>7. (x + z) + size = (x + size) + z /\ (x + z) + size \in Nat
    BY <2>3
  <2>8. BaselineFits'
    <3>1. gBaseline' \in [model : Models, tools : Toolsets, messages : Seq(Message), total : Nat]
      BY <2>2, <2>4, <2>6, <2>7
    <3>2. gBaseline'.total = Budget!Tokens(gBaseline'.messages) + ToolTokens[gBaseline'.tools]
      <4>1. gBaseline'.total = (x + z) + size /\ gBaseline'.messages = more /\ gBaseline'.tools = set
        BY <2>6
      <4> QED BY <2>4, <2>7, <4>1 DEF z
    <3> QED BY <3>1, <3>2 DEF BaselineFits
  <2> QED BY <1>3, <1>4, <2>8 DEF BudgetInv
<1> QED
  BY <1>5, <1>6 DEF Budget!AfterLlmCall, Budget!Covered

\* A handoff leaves a system message and a summary.
LEMMA HandsOffKeepsBudget ==
  ASSUME BudgetInv, NEW size \in Sizes, Budget!HandsOff(size) PROVE BudgetInv'
<1> DEFINE m == [id |-> gNames, size |-> size]
           first == Head(gMessages)
<1>1. MessagesFit /\ BaselineFits /\ RequestFits /\ Budget!HandoffIsTimely
  BY DEF BudgetInv
<1>2. /\ gMessages' = <<first, m>> /\ gNames' = gNames + 1
      /\ gRequest = Budget!NoRequest /\ gRequest' = gRequest /\ gBaseline' = gBaseline
  BY DEF Budget!HandsOff
<1>3. m \in Message /\ m.size = size /\ gNames + 1 \in Nat
  BY <1>1, MessagesGrow
<1>4. first \in Message /\ first.size \in Sizes
  <2>1. gMessages \in Seq(Message) /\ 1 \in 1 .. Len(gMessages)
    BY <1>1 DEF MessagesFit
  <2>2. first = gMessages[1]
    BY <2>1
  <2>3. gMessages[1] \in Message /\ gMessages[1].size \in Sizes
    BY <1>1, <2>1, MessagesHaveSizes DEF MessagesFit
  <2> QED BY <2>2, <2>3
<1> HIDE DEF first, m
<1>5. /\ <<first, m>> \in Seq(Message) /\ Len(<<first, m>>) = 2
      /\ \A i \in 1 .. 2 : <<first, m>>[i].size \in Sizes
  BY <1>3, <1>4
<1>6. MessagesFit'
  BY <1>2, <1>3, <1>5 DEF MessagesFit
<1>7. Budget!HandoffIsTimely' /\ RequestFits'
  BY <1>2, NothingAsked
<1>8. BaselineFits'
  BY <1>1, <1>2 DEF BaselineFits
<1> QED BY <1>6, <1>7, <1>8 DEF BudgetInv

\* Every step keeps the budget.
LEMMA NextKeepsBudget ==
  ASSUME BudgetInv, [Budget!Next]_Budget!vars PROVE BudgetInv'
<1>1. MessagesFit /\ BaselineFits /\ RequestFits /\ Budget!HandoffIsTimely
  BY DEF BudgetInv
<1>2. ASSUME NEW kind \in Models, NEW set \in Toolsets, Budget!BeforeLlmCall(kind, set)
      PROVE  BudgetInv'
  BY <1>2, AsksInTime
<1>3. ASSUME NEW size \in Sizes, Budget!AfterLlmCall(size) PROVE BudgetInv'
  BY <1>3, AnswersKeepBudget
<1>4. ASSUME NEW size \in Sizes, Budget!Grows(size) PROVE BudgetInv'
  <2>1. MessagesFit'
    BY <1>1, <1>4, MessagesGrow DEF Budget!Grows
  <2>2. gRequest' = Budget!NoRequest /\ gBaseline' = gBaseline
    BY <1>4 DEF Budget!Grows
  <2>3. BaselineFits'
    BY <1>1, <2>2 DEF BaselineFits
  <2> QED BY <2>1, <2>2, <2>3, NothingAsked DEF BudgetInv
<1>5. ASSUME NEW size \in Sizes, Budget!HandsOff(size) PROVE BudgetInv'
  BY <1>5, HandsOffKeepsBudget
<1>6. ASSUME Budget!Fails PROVE BudgetInv'
  <2>1. gRequest' = Budget!NoRequest /\ UNCHANGED <<gMessages, gNames, gBaseline>>
    BY <1>6 DEF Budget!Fails
  <2>2. MessagesFit' /\ BaselineFits'
    BY <1>1, <2>1 DEF MessagesFit, BaselineFits
  <2> QED BY <2>1, <2>2, NothingAsked DEF BudgetInv
<1>7. CASE UNCHANGED Budget!vars
  <2>1. UNCHANGED <<gMessages, gNames, gRequest, gTold, gBaseline>>
    BY <1>7 DEF Budget!vars
  <2>2. MessagesFit' /\ BaselineFits' /\ RequestFits'
    BY <1>1, <2>1 DEF MessagesFit, BaselineFits, RequestFits
  <2>3. Budget!HandoffIsTimely'
    BY <1>1, <2>1 DEF Budget!HandoffIsTimely, Budget!Taken, Budget!Threshold
  <2> QED BY <2>2, <2>3 DEF BudgetInv
<1> QED
  BY <1>2, <1>3, <1>4, <1>5, <1>6, <1>7 DEF Budget!Next

\* At first there is a message, and no request.
LEMMA InitBudget == Budget!Init => BudgetInv
<1> SUFFICES ASSUME Budget!Init PROVE BudgetInv
  OBVIOUS
<1>1. PICK n \in Sizes : gMessages = <<[id |-> 1, size |-> n]>>
  BY DEF Budget!Init
<1>2. n \in Nat
  BY BudgetFacts
<1>3. [id |-> 1, size |-> n] \in Message
  BY <1>2 DEF Message
<1>4. /\ gMessages \in Seq(Message) /\ Len(gMessages) = 1
      /\ gMessages[1].size \in Sizes
  BY <1>1, <1>3
<1>5. MessagesFit
  BY <1>4 DEF MessagesFit, Budget!Init
<1>6. RequestFits /\ BaselineFits /\ Budget!HandoffIsTimely
  BY DEF Budget!Init, RequestFits, BaselineFits, Budget!HandoffIsTimely
<1> QED BY <1>5, <1>6 DEF BudgetInv

\* A request without the instruction fits the context with its tools, and one with it is over
\* the threshold, whatever models, tools, handoffs and failed calls came between: the baseline
\* of before_llm_call covers what the request goes on from, and the reserve its tools.
THEOREM HandoffStaysTimely == Budget!Spec => []HandoffIsTimely
<1>1. Budget!Init => BudgetInv
  BY InitBudget
<1>2. BudgetInv /\ [Budget!Next]_Budget!vars => BudgetInv'
  BY NextKeepsBudget
<1>3. BudgetInv => HandoffIsTimely
  BY DEF BudgetInv, HandoffIsTimely
<1> QED
  BY <1>1, <1>2, <1>3, PTL DEF Budget!Spec
=============================================================================
