---------------------------- MODULE AcpSessions ----------------------------
(***************************************************************************)
(* The session metadata of BubACPAgent (bub-acp-server, agent.py) and its  *)
(* store acp-sessions.json: who creates, replaces, changes and forgets an  *)
(* ACPSession, and which requests go on with one they took before an       *)
(* await.  The connections of one HTTP server share the sessions and the   *)
(* closing set (http.py); the set of sessions that already asked for a     *)
(* title belongs to a connection.                                          *)
(*                                                                         *)
(* An ACPSession is a place in the heap, so that a request can hold one    *)
(* the agent has replaced since.  The turn itself is in AcpTurns: here a   *)
(* prompt runs and ends.                                                   *)
(***************************************************************************)
EXTENDS Integers, Sequences

CONSTANTS
  Ids,         \* ACP session ids
  Conns,       \* connections of clients that receive titles
  Values,      \* values of a config option
  Prompts,     \* session/prompt requests
  Options,     \* session/set_config_option requests
  News,        \* session/new requests
  Loads,       \* session/load and session/resume requests
  Lists,       \* session/list requests
  Ends,        \* session/close and session/delete requests
  Default      \* no title yet, no value chosen

ASSUME DefaultAssumption == Default \notin Values \cup Prompts

VARIABLES
  heap,        \* every ACPSession an id ever had: a sequence of [title, config]
  sessions,    \* self._sessions: id -> place in the heap of that id
  disk,        \* acp-sessions.json: id -> [title, config]
  closing,     \* self._closing_sessions
  used,        \* ids some request has named
  request,     \* what a request has got so far: [at, id, object, conn]
  deleting,    \* the close or delete requests that delete
  titled,      \* self._title_sessions of a connection
  gone,        \* history: ids ended and not adopted since
  retained,    \* history: ids whose deletion failed, until they end again
  chosen,      \* history: the value last acknowledged for an id
  asked        \* history: title generations of an id since it last ended

vars == <<heap, sessions, disk, closing, used, request, deleting, titled,
          gone, retained, chosen, asked>>

Requests == Prompts \cup Options \cup News \cup Loads \cup Lists \cup Ends
Fresh == [title |-> Default, config |-> Default]
NotYet == [at |-> "idle", object |-> 0]

Init ==
  /\ heap = [s \in Ids |-> <<>>] /\ sessions = <<>> /\ disk = <<>>
  /\ closing = {} /\ used = {}
  /\ request = [q \in Requests |-> NotYet]
  /\ deleting = {}
  /\ titled = [c \in Conns |-> {}]
  /\ gone = {} /\ retained = {}
  /\ chosen = [s \in Ids |-> Default]
  /\ asked = [s \in Ids |-> 0]

-----------------------------------------------------------------------------
Known == DOMAIN sessions
Without(f, s) == [i \in DOMAIN f \ {s} |-> f[i]]
With(f, s, v) == [i \in DOMAIN f \cup {s} |-> IF i = s THEN v ELSE f[i]]

\* mutant: a save adds to the file and never takes a session out of it.
SaveSessionsMerging ==
  disk' = [s \in DOMAIN sessions' \cup DOMAIN disk |->
             IF s \in DOMAIN sessions' THEN heap'[s][sessions'[s]] ELSE disk[s]]

\* _save_sessions writes what self._sessions holds now, in one rename.
SaveSessions == disk' = [s \in DOMAIN sessions' |-> heap'[s][sessions'[s]]]

Begins(q, at, s, c, object) ==
  /\ request[q] = NotYet
  /\ used' = used \cup {s}
  /\ request' = [request EXCEPT ![q] =
                   [at |-> at, id |-> s, conn |-> c, object |-> object]]
At(q, at) == request[q].at = at
Moves(q, at) == request' = [request EXCEPT ![q].at = at]

\* The session object a request took, whatever the agent has done to it since.
Held(q) == heap[request[q].id][request[q].object]

\* mutant: a session that is being closed is adopted again.
AdoptRefusedNever(s) == FALSE

\* _adopt_session and _load_or_adopt_session refuse a session being closed.
AdoptRefused(s) == s \in closing

\* They take the session there is, or create one, and save.
GetOrAdopt(s, object) ==
  /\ \/ s \in Known /\ object = sessions[s] /\ UNCHANGED <<heap, sessions>>
     \/ /\ s \notin Known /\ ~AdoptRefused(s)
        /\ object = Len(heap[s]) + 1
        /\ heap' = [heap EXCEPT ![s] = Append(@, Fresh)]
        /\ sessions' = With(sessions, s, object)
  /\ SaveSessions
  /\ gone' = gone \ {s}

\* session/prompt up to the registration of its run.
PromptBegins(p, s, c) ==
  /\ \E object \in 1 .. Len(heap[s]) + 1 :
       /\ GetOrAdopt(s, object)
       /\ Begins(p, "running", s, c, object)
  /\ UNCHANGED <<closing, deleting, titled, retained, chosen, asked>>

\* mutant: the connection does not remember that it asked for a title.
TitleWantedAgain(p) ==
  /\ request[p].id \in Known
  /\ Held(p).title = Default

\* _schedule_session_title, in the finally block of a turn: only for a
\* session that is still known and has no title, once per connection, and
\* not for a prompt without text.
TitleWanted(p) ==
  /\ request[p].id \in Known
  /\ Held(p).title = Default
  /\ request[p].id \notin titled[request[p].conn]

PromptEnds(p) ==
  LET s == request[p].id IN
  /\ At(p, "running")
  /\ \/ Moves(p, "done") /\ UNCHANGED <<titled, asked>>
     \/ /\ TitleWanted(p)
        /\ Moves(p, "generating")
        /\ titled' = [titled EXCEPT ![request[p].conn] = @ \cup {s}]
        /\ asked' = [asked EXCEPT ![s] = @ + 1]
  /\ UNCHANGED <<heap, sessions, disk, closing, used, deleting, gone,
                 retained, chosen>>

\* mutant: a generated title puts the session it was generated for back.
StoreTitleOfHeldSession(p) ==
  /\ heap' = [heap EXCEPT ![request[p].id][request[p].object].title = p]
  /\ sessions' = With(sessions, request[p].id, request[p].object)
  /\ SaveSessions

\* The title is written to the session the turn ran for, if that id is
\* still known.
StoreTitle(p) ==
  IF request[p].id \in Known
    THEN /\ heap' = [heap EXCEPT ![request[p].id][request[p].object].title = p]
         /\ UNCHANGED sessions
         /\ SaveSessions
    ELSE UNCHANGED <<heap, sessions, disk>>

\* _publish_session_title: the generation fails or times out, or it yields a
\* title.
TitleEnds(p) ==
  /\ At(p, "generating")
  /\ Moves(p, "done")
  /\ \/ UNCHANGED <<heap, sessions, disk>>
     \/ StoreTitle(p)
  /\ UNCHANGED <<closing, used, deleting, titled, gone, retained, chosen, asked>>

\* session/set_config_option takes the session, then awaits the options the
\* framework offers.
OptionBegins(o, s) ==
  /\ \E object \in 1 .. Len(heap[s]) + 1, c \in Conns :
       /\ GetOrAdopt(s, object)
       /\ Begins(o, "options", s, c, object)
  /\ UNCHANGED <<closing, deleting, titled, retained, chosen, asked>>

SetOption(o, v) ==
  /\ UNCHANGED sessions
  /\ heap' = [heap EXCEPT ![request[o].id][request[o].object].config = v]
  /\ SaveSessions

\* The value is refused, or set on the session taken before and saved.
OptionEnds(o, v) ==
  /\ At(o, "options") /\ Moves(o, "done")
  /\ \/ UNCHANGED <<heap, sessions, disk, chosen>>
     \/ SetOption(o, v) /\ chosen' = [chosen EXCEPT ![request[o].id] = v]
  /\ UNCHANGED <<closing, used, deleting, titled, gone, retained, asked>>

\* session/new: an id nobody knows, then the MCP connections.
NewBegins(n, s) ==
  /\ s \notin used
  /\ \E object \in 1 .. Len(heap[s]) + 1, c \in Conns :
       /\ GetOrAdopt(s, object)
       /\ Begins(n, "connecting", s, c, object)
  /\ UNCHANGED <<closing, deleting, titled, retained, chosen, asked>>

\* A connection that fails takes the session back.
NewEnds(n) ==
  /\ At(n, "connecting") /\ Moves(n, "done")
  /\ heap' = heap
  /\ \/ UNCHANGED <<sessions, disk, gone, retained, chosen>>
     \/ /\ sessions' = Without(sessions, request[n].id)
        /\ SaveSessions
        /\ gone' = gone \cup {request[n].id}
        /\ retained' = retained \ {request[n].id}
        /\ chosen' = [chosen EXCEPT ![request[n].id] = Default]
  /\ UNCHANGED <<closing, used, deleting, titled, asked>>

\* session/load and session/resume, as far as the metadata is concerned.
Load(l, s) ==
  /\ s \notin closing
  /\ \E object \in 1 .. Len(heap[s]) + 1, c \in Conns :
       /\ GetOrAdopt(s, object)
       /\ Begins(l, "done", s, c, object)
  /\ UNCHANGED <<closing, deleting, titled, retained, chosen, asked>>

\* _load_sessions: every session of the file becomes a new object.
Reload ==
  /\ heap' = [s \in Ids |-> IF s \in DOMAIN disk
                            THEN Append(heap[s], disk[s]) ELSE heap[s]]
  /\ sessions' = [s \in DOMAIN disk |-> Len(heap[s]) + 1]

\* session/list drops what memory holds and reads the file.
List(l) ==
  /\ request[l] = NotYet
  /\ request' = [request EXCEPT ![l].at = "done"]
  /\ Reload
  /\ UNCHANGED <<disk, closing, used, deleting, titled, gone, retained, chosen,
                 asked>>

\* _end_session: refused while another request ends the session; otherwise
\* the session is forgotten before its turns are waited for.
EndBegins(e, s, c) ==
  /\ \/ /\ s \in closing
        /\ Begins(e, "done", s, c, 0)
        /\ UNCHANGED <<heap, sessions, disk, closing, deleting, retained,
                       chosen, asked>>
     \/ /\ s \notin closing
        /\ Begins(e, "ending", s, c, IF s \in Known THEN sessions[s] ELSE 0)
        /\ closing' = closing \cup {s}
        /\ sessions' = Without(sessions, s)
        /\ heap' = heap
        /\ SaveSessions
        /\ deleting' \in {deleting, deleting \cup {e}}
        /\ retained' = retained \ {s}
        /\ chosen' = [chosen EXCEPT ![s] = Default]
        /\ asked' = [asked EXCEPT ![s] = 0]
  /\ UNCHANGED <<titled, gone>>

\* mutant: a failed deletion keeps no metadata.
RestoreNothing(e) == UNCHANGED <<heap, sessions, disk>>

\* A deletion keeps the metadata it took, so that it can be retried.
Restore(e) ==
  /\ heap' = heap
  /\ sessions' = With(sessions, request[e].id, request[e].object)
  /\ SaveSessions

\* A deletion of a session the agent knew.
Retains(e) == e \in deleting /\ request[e].object # 0

\* The turns of the session have ended; its resources are released, or that
\* fails.  The connection may ask for a title of the id again.
EndEnds(e) ==
  LET s == request[e].id IN
  /\ At(e, "ending") /\ Moves(e, "done")
  /\ \A p \in Prompts : ~(At(p, "running") /\ request[p].id = s)
  /\ \/ /\ gone' = gone \cup {s}
        /\ UNCHANGED <<heap, sessions, disk, retained>>
     \/ /\ Retains(e) /\ Restore(e)
        /\ retained' = retained \cup {s}
        /\ gone' = gone \ {s}
  /\ closing' = closing \ {s}
  /\ titled' = [titled EXCEPT ![request[e].conn] = @ \ {s}]
  /\ UNCHANGED <<used, deleting, chosen, asked>>

Done ==
  /\ \A q \in Requests : request[q].at \in {"idle", "done"}
  /\ UNCHANGED vars

Turns ==
  \E p \in Prompts :
    \/ \E s \in Ids, c \in Conns : PromptBegins(p, s, c)
    \/ PromptEnds(p) \/ TitleEnds(p)

SetsOption ==
  \E o \in Options :
    (\E s \in Ids : OptionBegins(o, s)) \/ (\E v \in Values : OptionEnds(o, v))

Creates == \E n \in News : (\E s \in Ids : NewBegins(n, s)) \/ NewEnds(n)

Reads == (\E l \in Loads, s \in Ids : Load(l, s)) \/ (\E l \in Lists : List(l))

Closes ==
  \E e \in Ends : (\E s \in Ids, c \in Conns : EndBegins(e, s, c)) \/ EndEnds(e)

Next == Turns \/ SetsOption \/ Creates \/ Reads \/ Closes \/ Done

Spec == Init /\ [][Next]_vars

-----------------------------------------------------------------------------
Metadata == [title : Prompts \cup {Default}, config : Values \cup {Default}]

\* Memory and file map ids to metadata, and a request holds an object of the
\* session it named.
TypeOK ==
  /\ heap \in [Ids -> Seq(Metadata)]
  /\ Known \subseteq Ids /\ \A s \in Known : sessions[s] \in DOMAIN heap[s]
  /\ DOMAIN disk \subseteq Ids /\ \A s \in DOMAIN disk : disk[s] \in Metadata
  /\ closing \subseteq Ids /\ used \subseteq Ids
  /\ \A q \in Requests :
       /\ request[q].at \in {"idle", "running", "generating", "options",
                             "connecting", "ending", "done"}
       /\ request[q].object # 0 => request[q].object \in DOMAIN heap[request[q].id]
  /\ deleting \subseteq Ends
  /\ titled \in [Conns -> SUBSET Ids]
  /\ gone \subseteq Ids /\ retained \subseteq Ids
  /\ chosen \in [Ids -> Values \cup {Default}] /\ asked \in [Ids -> Nat]

\* acp-sessions.json always says what memory says: session/list, which trusts
\* the file over memory, never brings back or drops what an answered request
\* did to the sessions it finds.
ReloadLosesNothing ==
  disk = [s \in Known |-> heap[s][sessions[s]]]

\* A session that was closed or deleted, or whose creation failed, stays out
\* of acp-sessions.json until a request names its id again: titles, options
\* and turns that were still under way do not bring it back.
EndedStaysEnded == gone \cap DOMAIN disk = {}

\* "Store failures are reported and the session metadata is retained for
\* retry": whatever runs meanwhile, a failed deletion leaves the session in
\* acp-sessions.json.
FailedDeletionRetained == retained \subseteq DOMAIN disk

\* "The selected value is persisted with the ACP session": the value a
\* client was last told is the one in acp-sessions.json.
OptionsPersisted ==
  \A s \in DOMAIN disk : chosen[s] # Default => disk[s].config = chosen[s]

\* "Generation happens at most once per session".
TitledOnce == \A s \in Ids : asked[s] <= 1
=============================================================================
