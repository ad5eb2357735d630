--------------------------- MODULE AcpSessionMcp ---------------------------
(***************************************************************************)
(* The MCP channels of ACP sessions (bub-acp-server, agent.py, mcp.py,     *)
(* http.py): session/new, session/load and session/resume connect a        *)
(* channel and install it, turns use the one of their session, close,      *)
(* delete and the shutdown of the agent take it away.  The connections of  *)
(* one HTTP server share the channels, the sessions and the prompt lock.   *)
(*                                                                         *)
(* A channel is named by the request that connected it.                    *)
(***************************************************************************)
EXTENDS Naturals

CONSTANTS
  Ids,            \* ACP session ids
  News,           \* session/new requests
  Loads,          \* session/load and session/resume requests
  Prompts,        \* prompt requests
  Ends,           \* session/close and session/delete requests
  None,           \* no channel, no holder of the prompt lock
  ListedEarly     \* may a client use an id, which session/list shows it,
                  \* before the session/new that creates it has answered?

Channels == News \cup Loads
Requests == Channels \cup Prompts \cup Ends

\* A request is of one kind.
McpConstants ==
  /\ None \notin Requests \cup Ids /\ ListedEarly \in BOOLEAN
  /\ News \cap (Loads \cup Prompts \cup Ends) = {} /\ Loads \cap (Prompts \cup Ends) = {}
  /\ Prompts \cap Ends = {}

VARIABLES
  open,        \* keys of self._sessions
  closing,     \* self._closing_sessions
  used,        \* ids some request has named
  at,          \* where a request stands
  id,          \* the session it named
  lock,        \* the request that holds self._prompt_lock
  live,        \* channels connected and not stopped
  channelOf,   \* self._mcp_channels
  bound,       \* the channel bound to the agent of a turn
  stopping,    \* the channels a request awaits the stop of
  awaited,     \* the turns a close waits for
  shutdown,    \* where BubACPAgent.shutdown stands
  cancelled,   \* the tasks shutdown cancelled
  released     \* the channels shutdown awaits the stop of

vars == <<open, closing, used, at, id, lock, live, channelOf, bound, stopping,
          awaited, shutdown, cancelled, released>>

Init ==
  /\ open = {} /\ closing = {} /\ used = {}
  /\ at = [q \in Requests |-> "idle"]
  /\ id = [q \in Requests |-> None]
  /\ lock = None
  /\ live = {}
  /\ channelOf = [s \in Ids |-> None]
  /\ bound = [p \in Prompts |-> None]
  /\ stopping = [q \in Requests |-> None]
  /\ awaited = [e \in Ends |-> {}]
  /\ shutdown = "no" /\ cancelled = {} /\ released = {}

-----------------------------------------------------------------------------
InCreation(s) == \E n \in News : id[n] = s /\ at[n] # "done"

\* A request arrives for a session a client can know of.
Arrives(q, s, where) ==
  /\ at[q] = "idle" /\ shutdown = "no"
  /\ ListedEarly \/ ~InCreation(s)
  /\ at' = [at EXCEPT ![q] = where]
  /\ id' = [id EXCEPT ![q] = s]
  /\ used' = used \cup {s}
Ends_(q) == at' = [at EXCEPT ![q] = "done"]

Released(q) == IF lock = q THEN None ELSE lock

\* mutant: session/load does not wait for the turns under way.
FreeLockIgnored(q) == UNCHANGED lock

\* self._prompt_lock is free; the request takes it.
TakesPromptLock(q) == lock = None /\ lock' = q

\* session/load and session/resume under the prompt lock: refused for a
\* session being closed, otherwise adopted, and the connecting starts unless
\* the agent is shutting down.
Load(l, s) ==
  \/ Arrives(l, s, "waitLock") /\ UNCHANGED <<open, lock>>
  \/ /\ at[l] = "waitLock" /\ id[l] = s
     /\ \/ /\ s \in closing \/ shutdown # "no"
           /\ lock = None /\ UNCHANGED lock
           /\ open' = IF s \in closing THEN open ELSE open \cup {s}
           /\ Ends_(l)
        \/ /\ s \notin closing /\ shutdown = "no"
           /\ TakesPromptLock(l)
           /\ open' = open \cup {s}
           /\ at' = [at EXCEPT ![l] = "connecting"]
     /\ UNCHANGED <<id, used>>

\* session/new creates the session and starts connecting.
New(n, s) ==
  /\ s \notin used
  /\ Arrives(n, s, "connecting")
  /\ open' = open \cup {s}
  /\ UNCHANGED lock

\* The connecting fails, which undoes a session/new; a channel that did
\* connect is closed by connect_session_mcp itself.
ConnectFails(q) ==
  /\ at[q] = "connecting"
  /\ Ends_(q)
  /\ lock' = Released(q)
  /\ open' = IF q \in News THEN open \ {id[q]} ELSE open
  /\ UNCHANGED <<id, used, live, channelOf, stopping>>

\* mutant: the session is not looked up again after the await.
SessionEndedUnnoticed(q) == FALSE

\* The session ended while its servers were being connected.
SessionEnded(q) == id[q] \notin open

\* mutant: the previous channel is forgotten, not stopped.
Supersede(q, channel) ==
  /\ Ends_(q)
  /\ lock' = Released(q)
  /\ UNCHANGED stopping

\* The request awaits the stop of a channel it took away, if there is one.
StopThenEnd(q, channel) ==
  IF channel = None
    THEN Ends_(q) /\ lock' = Released(q) /\ UNCHANGED stopping
    ELSE /\ at' = [at EXCEPT ![q] = "stopping"]
         /\ stopping' = [stopping EXCEPT ![q] = channel]
         /\ UNCHANGED lock

\* _replace_session_mcp after the connecting: the channel, or none if the
\* request lists no server, replaces the previous one, which is stopped.
Connected(q) ==
  /\ at[q] = "connecting" /\ q \notin cancelled
  /\ \E channel \in {q, None} :
       /\ live' = live \cup ({channel} \ {None})
       /\ \/ /\ SessionEnded(q)
             /\ StopThenEnd(q, channel)
             /\ UNCHANGED channelOf
          \/ /\ ~SessionEnded(q)
             /\ channelOf' = [channelOf EXCEPT ![id[q]] = channel]
             /\ StopThenEnd(q, channelOf[id[q]])
  /\ UNCHANGED <<open, id, used>>

\* The stop has ended; a session/new whose session ended meanwhile fails
\* only now, and undoes itself like any other.
StopEnds(q) ==
  /\ q \in Channels /\ at[q] = "stopping"
  /\ live' = live \ {stopping[q]}
  /\ stopping' = [stopping EXCEPT ![q] = None]
  /\ lock' = Released(q)
  /\ Ends_(q)
  /\ open' = IF q \in News /\ stopping[q] = q THEN open \ {id[q]} ELSE open
  /\ UNCHANGED <<id, used, channelOf>>

Replaces ==
  /\ \/ \E s \in Ids :
          /\ \/ \E l \in Loads : Load(l, s)
             \/ \E n \in News : New(n, s)
          /\ UNCHANGED <<live, channelOf, stopping>>
     \/ \E q \in Channels : ConnectFails(q) \/ Connected(q) \/ StopEnds(q)
  /\ UNCHANGED <<closing, bound, awaited, shutdown, cancelled, released>>

-----------------------------------------------------------------------------
\* A turn: it waits for the prompt lock, binds the channel its session has,
\* runs and ends; a close or the shutdown cancels it.
PromptArrives(p, s) ==
  /\ s \in open \/ s \notin closing
  /\ Arrives(p, s, "queued")
  /\ open' = open \cup {s}
  /\ UNCHANGED <<lock, bound>>

TurnStarts(p) ==
  /\ at[p] = "queued" /\ lock = None
  /\ \/ /\ id[p] \in open
        /\ lock' = p
        /\ at' = [at EXCEPT ![p] = "turn"]
        /\ bound' = [bound EXCEPT ![p] = channelOf[id[p]]]
     \/ /\ id[p] \notin open
        /\ Ends_(p)
        /\ UNCHANGED <<lock, bound>>
  /\ UNCHANGED <<open, id, used>>

TurnEnds(p) ==
  /\ \/ at[p] = "turn"
     \/ at[p] = "queued" /\ (p \in cancelled \/ \E e \in Ends : p \in awaited[e])
  /\ Ends_(p)
  /\ lock' = Released(p)
  /\ bound' = [bound EXCEPT ![p] = None]
  /\ UNCHANGED <<open, id, used>>

Turns ==
  /\ \E p \in Prompts :
       \/ \E s \in Ids : PromptArrives(p, s)
       \/ TurnStarts(p)
       \/ TurnEnds(p)
  /\ UNCHANGED <<closing, live, channelOf, stopping, awaited, shutdown,
                 cancelled, released>>

-----------------------------------------------------------------------------
LiveTurns(s) == {p \in Prompts : id[p] = s /\ at[p] \in {"queued", "turn"}}

EndBegins(e, s) ==
  /\ s \notin closing
  /\ Arrives(e, s, "gather")
  /\ closing' = closing \cup {s}
  /\ open' = open \ {s}
  /\ awaited' = [awaited EXCEPT ![e] = LiveTurns(s)]
  /\ UNCHANGED <<live, channelOf, stopping>>

TurnsEnded(e) == \A p \in awaited[e] : at[p] = "done"

\* The turns have ended; the channel is taken away.
EndGathered(e) ==
  /\ at[e] = "gather" /\ TurnsEnded(e)
  /\ at' = [at EXCEPT ![e] = "stopping"]
  /\ stopping' = [stopping EXCEPT ![e] = channelOf[id[e]]]
  /\ channelOf' = [channelOf EXCEPT ![id[e]] = None]
  /\ UNCHANGED <<open, closing, id, used, live, awaited>>

\* The channel is stopped and the rest torn down; a deletion that fails
\* brings the session back.
EndEnds(e) ==
  /\ at[e] = "stopping"
  /\ Ends_(e)
  /\ live' = live \ {stopping[e]}
  /\ stopping' = [stopping EXCEPT ![e] = None]
  /\ open' \in {open, open \cup {id[e]}}
  /\ closing' = closing \ {id[e]}
  /\ UNCHANGED <<id, used, channelOf, awaited>>

Closes ==
  /\ \E e \in Ends :
       \/ \E s \in Ids : EndBegins(e, s)
       \/ EndGathered(e)
       \/ EndEnds(e)
  /\ UNCHANGED <<lock, bound, shutdown, cancelled, released>>

-----------------------------------------------------------------------------
\* mutant: only the turns are cancelled.
TurnsCancelled == {q \in Requests : at[q] \in {"queued", "turn"}}

\* The turns and the connecting tasks are cancelled.
TasksCancelled == {q \in Requests : at[q] \in {"queued", "turn", "connecting"}}

\* BubACPAgent.shutdown.
ShutdownBegins ==
  /\ shutdown = "no"
  /\ shutdown' = "gather"
  /\ cancelled' = TasksCancelled
  /\ UNCHANGED <<released, live, channelOf>>

\* They have ended; what is installed is taken away.
ShutdownGathers ==
  /\ shutdown = "gather"
  /\ \A q \in cancelled : at[q] \in {"done", "stopping"}
  /\ shutdown' = "stopping"
  /\ released' = {channelOf[s] : s \in Ids} \ {None}
  /\ channelOf' = [s \in Ids |-> None]
  /\ UNCHANGED <<cancelled, live>>

ShutdownEnds ==
  /\ shutdown = "stopping"
  /\ shutdown' = "done"
  /\ live' = live \ released
  /\ released' = {}
  /\ UNCHANGED <<cancelled, channelOf>>

ShutsDown ==
  /\ ShutdownBegins \/ ShutdownGathers \/ ShutdownEnds
  /\ UNCHANGED <<open, closing, used, at, id, lock, bound, stopping, awaited>>

Rest ==
  /\ shutdown = "done" /\ \A q \in Requests : at[q] \in {"idle", "done"}
  /\ UNCHANGED vars

Next == Replaces \/ Turns \/ Closes \/ ShutsDown \/ Rest

Spec == Init /\ [][Next]_vars

-----------------------------------------------------------------------------
\* Every request stands somewhere, and channels are named by the requests
\* that connect them.
TypeOK ==
  /\ open \subseteq Ids /\ closing \subseteq Ids /\ used \subseteq Ids
  /\ at \in [Requests -> {"idle", "waitLock", "connecting", "stopping", "queued",
                          "turn", "gather", "done"}]
  /\ id \in [Requests -> Ids \cup {None}]
  /\ \A q \in Requests : at[q] # "idle" => id[q] \in Ids
  /\ lock \in Loads \cup Prompts \cup {None}
  /\ lock # None => at[lock] \in {"connecting", "stopping", "turn"}
  /\ live \subseteq Channels
  /\ channelOf \in [Ids -> Channels \cup {None}]
  /\ bound \in [Prompts -> Channels \cup {None}]
  /\ stopping \in [Requests -> Channels \cup {None}]
  /\ awaited \in [Ends -> SUBSET Prompts]
  /\ shutdown \in {"no", "gather", "stopping", "done"}
  /\ cancelled \subseteq Requests /\ released \subseteq Channels

BeingStopped == {stopping[q] : q \in Requests} \cup released

\* No connection leaks: a connected channel is installed for a session or
\* some task is about to stop it, and an installed channel is connected and
\* nobody stops it.
ChannelsAccountedFor ==
  /\ \A c \in live : c \in BeingStopped \/ \E s \in Ids : channelOf[s] = c
  /\ \A s \in Ids : channelOf[s] # None =>
       channelOf[s] \in live \ BeingStopped

\* "Active prompts finish before their connections are replaced", closed or
\* shut down.
TurnKeepsChannel ==
  \A p \in Prompts :
    bound[p] # None => bound[p] \in live \ BeingStopped

\* A session that has ended holds no connection.
EndedSessionHoldsNone ==
  \A s \in Ids : s \notin open \cup closing => channelOf[s] = None

\* "Server shutdown also releases all MCP connections", those aside that a
\* request is already stopping.
ShutdownReleasesAll ==
  shutdown = "done" => live \subseteq {stopping[q] : q \in Requests}
=============================================================================
