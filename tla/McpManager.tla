----------------------------- MODULE McpManager -----------------------------
(***************************************************************************)
(* MCPManager of bub-mcp (plugin.py): a manager connects its servers in a  *)
(* background task, binds their tools to the agent of a turn and takes     *)
(* them back when it stops.  Several managers bind to one agent: that of   *)
(* mcp.json, that of the agent plugins and that of an ACP session.         *)
(*                                                                         *)
(* A server offers one tool, and both carry one name; a tool on the agent  *)
(* is named by the manager that installed it.                              *)
(***************************************************************************)
EXTENDS Naturals, Sequences, Functions

CONSTANTS
  Order,          \* the managers, in the order load_state lets them bind
  SessionBound,   \* those bound by bind_session_mcp_tools of the ACP server
  Servers,        \* names of servers and of their tools
  Config,         \* the servers each manager is configured with
  OwnNames,       \* names of tools the agent has of its own
  Turns,          \* turns that run on the agent
  Own, None,      \* the agent's own tool, no tool
  Hosted          \* do plugins and the ACP server run the managers, or does an
                  \* embedding application, in any order it likes?

Managers == Range(Order)
Tools == Managers \cup {Own, None}

\* A manager binds at one place of the order, that of a session at the last (trylast).
McpManagerConstants ==
  /\ Order \in Seq(Managers)
  /\ \A i, j \in DOMAIN Order : Order[i] = Order[j] => i = j
  /\ \A i \in DOMAIN Order : Order[i] \in SessionBound => i = Len(Order)
  /\ Config \in [Managers -> SUBSET Servers]
  /\ SessionBound \subseteq Managers /\ OwnNames \subseteq Servers
  /\ {Own, None} \cap Managers = {} /\ Own # None
  /\ Hosted \in BOOLEAN

VARIABLES
  boot,       \* the bootstrap task of a manager
  link,       \* the client of a server: see TypeOK
  serving,    \* the servers of self._servers that are connected
  life,       \* has stop been called, has it released the servers?
  toClose,    \* the clients stop has yet to close
  bindings,   \* self._bindings: by tool name, what the binding replaced
  tools,      \* agent.tools
  turn,       \* 0, or the place in Order of the manager to bind next
  waits       \* the turns that wait for a bootstrap (asyncio.shield)

vars == <<boot, link, serving, life, toClose, bindings, tools, turn, waits>>

OwnTools == [n \in Servers |-> IF n \in OwnNames THEN Own ELSE None]
Unbound == [n \in {} |-> None]
RunningTurn == Len(Order) + 1

Init ==
  /\ boot = [m \in Managers |-> "none"]
  /\ link = [m \in Managers |-> [s \in Servers |-> "none"]]
  /\ serving = [m \in Managers |-> {}]
  /\ life = [m \in Managers |-> "up"]
  /\ toClose = [m \in Managers |-> {}]
  /\ bindings = [m \in Managers |-> Unbound]
  /\ tools = OwnTools
  /\ turn = [t \in Turns |-> 0]
  /\ waits = {}

-----------------------------------------------------------------------------
(* Connecting *)

\* The links of m, those in state a now in state b.
Relinked(m, a, b) == [s \in Servers |-> IF link[m][s] = a THEN b ELSE link[m][s]]

\* start returns early while servers are connected or a bootstrap runs; a
\* bootstrap that connected nothing may be repeated.  The hosts call it once.
Start(m) ==
  /\ life[m] = "up" /\ serving[m] = {} /\ boot[m] \in {"none", "done"}
  /\ Hosted => boot[m] = "none"
  /\ boot' = [boot EXCEPT ![m] = "connecting"]
  /\ link' = [link EXCEPT ![m] =
                [s \in Servers |-> IF s \in Config[m] THEN "opening" ELSE "none"]]
  /\ UNCHANGED <<serving, life, toClose, bindings, tools, turn, waits>>

\* _connect_server: the server answered list_tools.
Connected(m, s) ==
  /\ boot[m] = "connecting" /\ link[m][s] = "opening"
  /\ link' = [link EXCEPT ![m][s] = "up"]
  /\ UNCHANGED <<boot, serving, life, toClose, bindings, tools, turn, waits>>

\* _connect_server: it did not, and the client is closed.
ConnectFails(m, s) ==
  /\ boot[m] = "connecting" /\ link[m][s] = "opening"
  /\ link' = [link EXCEPT ![m][s] = "closing"]
  /\ UNCHANGED <<boot, serving, life, toClose, bindings, tools, turn, waits>>

ClientCloses(m, s) ==
  /\ link[m][s] = "closing"
  /\ link' = [link EXCEPT ![m][s] = "down"]
  /\ UNCHANGED <<boot, serving, life, toClose, bindings, tools, turn, waits>>

Settled(m) == \A s \in Servers : link[m][s] \notin {"opening", "closing"}

\* The gather of _bootstrap returns; self._servers is replaced.
Bootstrapped(m) ==
  /\ boot[m] = "connecting" /\ Settled(m)
  /\ boot' = [boot EXCEPT ![m] = "done"]
  /\ serving' = [serving EXCEPT ![m] = {s \in Servers : link[m][s] = "up"}]
  /\ UNCHANGED <<link, life, toClose, bindings, tools, turn, waits>>

\* Cancelling the bootstrap cancels the connections still opening.
CancelsBootstrap(m) ==
  /\ boot' = [boot EXCEPT ![m] = "cancelling"]
  /\ link' = [link EXCEPT ![m] = Relinked(m, "opening", "closing")]

\* The session/new that awaits connect is cancelled.
ConnectCancelled(m) ==
  /\ m \in SessionBound /\ boot[m] = "connecting" /\ life[m] = "up"
  /\ CancelsBootstrap(m)
  /\ UNCHANGED <<serving, life, toClose, bindings, tools, turn, waits>>

\* The cancelled gather has gathered the rest and closes what had connected,
\* one client after the other.
ClosesResult(m, s) ==
  /\ boot[m] = "cancelling" /\ Settled(m) /\ link[m][s] = "up"
  /\ link' = [link EXCEPT ![m][s] = "closing"]
  /\ UNCHANGED <<boot, serving, life, toClose, bindings, tools, turn, waits>>

\* mutant: without the handler of the cancelled gather.
NothingLeftToClose(m) == Settled(m)

ResultsClosed(m) == \A s \in Servers : link[m][s] \in {"none", "down"}

BootstrapCancelled(m) ==
  /\ boot[m] = "cancelling" /\ ResultsClosed(m)
  /\ boot' = [boot EXCEPT ![m] = "cancelled"]
  /\ UNCHANGED <<link, serving, life, toClose, bindings, tools, turn, waits>>

-----------------------------------------------------------------------------
(* Binding *)

\* mutant: the bindings are dropped, the tools stay.
NothingRestored(m, names) == tools

\* _restore_tools: what the agent has once the bindings of m to names are
\* undone.  A tool that is not the installed one stays.
Restored(m, names) ==
  [n \in Servers |-> IF n \in names /\ tools[n] = m THEN bindings[m][n] ELSE tools[n]]

\* mutant: the binding saves whatever tool it finds.
OriginalsFound(m) == [n \in serving[m] |-> tools[n]]

\* bind_agent: a name bound before keeps the tool its first binding replaced.
Originals(m) ==
  [n \in serving[m] |->
     IF n \in DOMAIN bindings[m] THEN bindings[m][n] ELSE tools[n]]

\* bind_agent: the tools of the agent once m is bound.
Installed(m) ==
  LET restored == Restored(m, DOMAIN bindings[m] \ serving[m])
  IN  [n \in Servers |-> IF n \in serving[m] THEN m ELSE restored[n]]

BindAgent(m) ==
  /\ bindings' = [bindings EXCEPT ![m] = Originals(m)]
  /\ tools' = Installed(m)

\* The lifespans have started their managers before the first turn.
TurnStarts(t) ==
  /\ turn[t] = 0
  /\ Hosted => \A m \in Managers \ SessionBound : boot[m] # "none"
  /\ turn' = [turn EXCEPT ![t] = 1]
  /\ UNCHANGED <<boot, link, serving, life, toClose, bindings, tools, waits>>

\* bind_session_mcp_tools finds a channel only in a session whose servers
\* have all connected (connect_session_mcp stops the others).
HasChannel(m) == boot[m] = "done" /\ serving[m] = Config[m]

\* bind_runtime_tools waits for a bootstrap that runs.
TurnWaits(t) ==
  /\ turn[t] \in 1..Len(Order) /\ t \notin waits
  /\ Order[turn[t]] \notin SessionBound /\ boot[Order[turn[t]]] = "connecting"
  /\ waits' = waits \cup {t}
  /\ UNCHANGED <<boot, link, serving, life, toClose, bindings, tools, turn>>

\* stop forgets a bootstrap before it cancels it: a turn that comes then does
\* not wait, and binds nothing.
MayBind(m, waited) ==
  IF m \in SessionBound THEN HasChannel(m)
  ELSE boot[m] # "connecting" /\ (waited => boot[m] = "done")

TurnBinds(t) ==
  /\ turn[t] \in 1..Len(Order)
  /\ LET m == Order[turn[t]]
     IN  \/ MayBind(m, t \in waits) /\ BindAgent(m)
         \/ /\ m \in SessionBound /\ ~HasChannel(m)
            /\ UNCHANGED <<bindings, tools>>
  /\ turn' = [turn EXCEPT ![t] = @ + 1]
  /\ waits' = waits \ {t}
  /\ UNCHANGED <<boot, link, serving, life, toClose>>

\* The bootstrap a turn waits for is cancelled, and so is the turn.
TurnInterrupted(t) ==
  /\ t \in waits /\ boot[Order[turn[t]]] = "cancelled"
  /\ turn' = [turn EXCEPT ![t] = 0]
  /\ waits' = waits \ {t}
  /\ UNCHANGED <<boot, link, serving, life, toClose, bindings, tools>>

TurnEnds(t) ==
  /\ turn[t] = RunningTurn
  /\ turn' = [turn EXCEPT ![t] = 0]
  /\ UNCHANGED <<boot, link, serving, life, toClose, bindings, tools, waits>>

-----------------------------------------------------------------------------
(* Stopping *)

After(m) == {Order[j] : j \in {k \in DOMAIN Order :
                                 \E i \in 1..(k - 1) : Order[i] = m}}

\* The hosts nest the managers they run: lifespans end in the reverse of
\* their order, and a session ends within them.
StopIsNested(m) == \A k \in After(m) : boot[k] = "none" \/ life[k] = "released"

\* stop, under the lock and up to its first close: the clients are taken out
\* of self._servers and the tools given back.
Release(m) ==
  /\ life' = [life EXCEPT ![m] = "released"]
  /\ toClose' = [toClose EXCEPT ![m] = serving[m]]
  /\ serving' = [serving EXCEPT ![m] = {}]
  /\ tools' = Restored(m, DOMAIN bindings[m])
  /\ bindings' = [bindings EXCEPT ![m] = Unbound]

\* stop of a manager: a bootstrap that runs is cancelled and awaited first.
\* An ACP session stops its manager when connect has returned or raised.
StopBegins(m) ==
  /\ life[m] = "up" /\ boot[m] # "none"
  /\ Hosted => StopIsNested(m)
  /\ \/ /\ boot[m] = "connecting" /\ m \notin SessionBound
        /\ CancelsBootstrap(m)
        /\ life' = [life EXCEPT ![m] = "stopping"]
        /\ UNCHANGED <<serving, toClose, bindings, tools>>
     \/ /\ boot[m] \in {"done", "cancelled"}
        /\ Release(m)
        /\ UNCHANGED <<boot, link>>
  /\ UNCHANGED <<turn, waits>>

StopAwaited(m) ==
  /\ life[m] = "stopping" /\ boot[m] = "cancelled"
  /\ Release(m)
  /\ UNCHANGED <<boot, link, turn, waits>>

StopCloses(m, s) ==
  /\ s \in toClose[m]
  /\ toClose' = [toClose EXCEPT ![m] = @ \ {s}]
  /\ link' = [link EXCEPT ![m][s] = "down"]
  /\ UNCHANGED <<boot, serving, life, bindings, tools, turn, waits>>

Bootstraps ==
  \E m \in Managers :
    \/ Start(m) \/ Bootstrapped(m) \/ ConnectCancelled(m)
    \/ BootstrapCancelled(m) \/ StopBegins(m) \/ StopAwaited(m)

Clients ==
  \E m \in Managers, s \in Servers :
    \/ Connected(m, s) \/ ConnectFails(m, s) \/ ClientCloses(m, s)
    \/ ClosesResult(m, s) \/ StopCloses(m, s)

OfTurns ==
  \E t \in Turns :
    \/ TurnStarts(t) \/ TurnWaits(t) \/ TurnBinds(t)
    \/ TurnInterrupted(t) \/ TurnEnds(t)

Next == Bootstraps \/ Clients \/ OfTurns

Spec == Init /\ [][Next]_vars

-----------------------------------------------------------------------------
(* Properties *)

\* Types; a client is open from "opening" to "closing" (_connect_server).
TypeOK ==
  /\ boot \in [Managers -> {"none", "connecting", "done", "cancelling", "cancelled"}]
  /\ link \in [Managers -> [Servers -> {"none", "opening", "up", "closing", "down"}]]
  /\ serving \in [Managers -> SUBSET Servers]
  /\ life \in [Managers -> {"up", "stopping", "released"}]
  /\ toClose \in [Managers -> SUBSET Servers]
  /\ \A m \in Managers : /\ DOMAIN bindings[m] \subseteq serving[m]
                         /\ Range(bindings[m]) \subseteq Tools
  /\ tools \in [Servers -> Tools]
  /\ turn \in [Turns -> 0..RunningTurn]
  /\ waits \subseteq Turns

\* A client that has connected is always somebody's to close: the bootstrap
\* that gathers it, self._servers or the stop under way (_bootstrap, stop).
ClientsAccountedFor ==
  \A m \in Managers, s \in Servers :
    link[m][s] = "up" => \/ boot[m] \in {"connecting", "cancelling"}
                         \/ s \in serving[m] \cup toClose[m]

\* A tool on the agent is backed by an open client, whatever managers come
\* and go between the turns that bind them (bind_agent, stop).
BoundToolsAreLive ==
  \A n \in Servers : tools[n] \in Managers =>
    n \in serving[tools[n]] /\ link[tools[n]][n] = "up"

\* When every manager has given its bindings up the agent has its own tools
\* back (bind_agent keeps the tool the first binding replaced, _restore_tools).
OwnToolsReturn == (\A m \in Managers : DOMAIN bindings[m] = {}) => tools = OwnTools
=============================================================================
