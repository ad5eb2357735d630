--------------------------- MODULE MCAcpSessions ---------------------------
(***************************************************************************)
(* A small instance, for TLC, of what the ACP server keeps for its         *)
(* sessions: their metadata (AcpSessions) and their MCP channels           *)
(* (AcpSessionMcp).  The two share no variable, so a behaviour explores    *)
(* one of them, with requests of its own, while the other rests.  Theorems     *)
(* about both, for all sessions and requests, follow.                      *)
(***************************************************************************)
EXTENDS AcpSessions, SequenceTheorems, TLC, TLAPS

CONSTANTS McpIds, McpNews, McpLoads, McpPrompts, McpEnds, None

VARIABLES part, mcpClosing, mcpUsed, open, at, id, lock, live, channelOf, bound,
          stopping, awaited, shutdown, cancelled, released

Mcp == INSTANCE AcpSessionMcp WITH
  Ids <- McpIds, News <- McpNews, Loads <- McpLoads, Prompts <- McpPrompts,
  Ends <- McpEnds, ListedEarly <- FALSE, closing <- mcpClosing, used <- mcpUsed

ASSUME McpKinds == Mcp!McpConstants

mcpVars == <<mcpClosing, mcpUsed, open, at, id, lock, live, channelOf, bound,
             stopping, awaited, shutdown, cancelled, released>>

PartsInit == part \in {"metadata", "channels"} /\ Init /\ Mcp!Init

OfMetadata(A) == part = "metadata" /\ A /\ UNCHANGED <<part, mcpVars>>
OfChannels(A) == part = "channels" /\ A /\ UNCHANGED <<part, vars>>

PartsNext ==
  \/ OfMetadata(Turns) \/ OfMetadata(SetsOption) \/ OfMetadata(Creates)
  \/ OfMetadata(Reads) \/ OfMetadata(Closes) \/ OfMetadata(Done)
  \/ OfChannels(Mcp!Replaces) \/ OfChannels(Mcp!Turns) \/ OfChannels(Mcp!Closes)
  \/ OfChannels(Mcp!ShutsDown) \/ OfChannels(Mcp!Rest)

PartsSpec == PartsInit /\ [][PartsNext]_<<part, vars, mcpVars>>

-----------------------------------------------------------------------------
\* What was closed or deleted stays so, and what could not be deleted stays for a retry:
\* _end_session, _publish_session_title.
EndsHold == EndedStaysEnded /\ FailedDeletionRetained

\* No channel leaks, a turn under way keeps the channel it was given, a session that was
\* closed or deleted holds none, and neither does the server after its shutdown:
\* _replace_session_mcp, load_session, _end_session, shutdown.
ChannelsAccountedFor ==
  /\ Mcp!ChannelsAccountedFor /\ Mcp!TurnKeepsChannel
  /\ Mcp!EndedSessionHoldsNone /\ Mcp!ShutdownReleasesAll

\* Requests of a kind are interchangeable.
RequestSymmetry ==
  Permutations(Prompts) \cup Permutations(Ends) \cup Permutations(McpLoads)
    \cup Permutations(McpIds)

-----------------------------------------------------------------------------
(***************************************************************************)
(* The metadata of sessions.                                               *)
(***************************************************************************)

\* What a request may have got.
Asked == [at : {"running", "generating", "options", "connecting", "ending", "done"},
          id : Ids, conn : Conns, object : Nat]
Listed == [NotYet EXCEPT !.at = "done"]

\* Types of the heap and of the requests that hold a place in it.
HeapInv ==
  /\ heap \in [Ids -> Seq(Metadata)]
  /\ Known \subseteq Ids
  /\ \A s \in Known : sessions[s] \in DOMAIN heap[s]
  /\ closing \subseteq Ids

RequestInv ==
  /\ request \in [Requests -> Asked \cup {NotYet, Listed}]
  /\ \A q \in Requests : request[q].object # 0 =>
       request[q] \in Asked /\ request[q].object \in DOMAIN heap[request[q].id]
  /\ \A q \in Requests :
       request[q].at \in {"running", "generating", "options", "connecting"} => request[q].object # 0

\* A session that is being ended is not known, and one request ends it.
EndingInv ==
  /\ closing \cap Known = {}
  /\ \A q \in Requests : At(q, "ending") => request[q].id \in closing
  /\ \A q, r \in Requests : At(q, "ending") /\ At(r, "ending") /\ request[q].id = request[r].id => q = r

\* The inductive invariant of the metadata.
Inv ==
  /\ HeapInv /\ RequestInv /\ EndingInv /\ ReloadLosesNothing
  /\ gone \cap Known = {} /\ retained \subseteq Known

\* No object is forgotten.
HeapGrows == \A i \in Ids : DOMAIN heap[i] \subseteq DOMAIN heap'[i]

\* A request under way has named a session, on a connection.
LEMMA RequestTypes ==
  ASSUME RequestInv, NEW q \in Requests, request[q].at \notin {"idle", "done"}
  PROVE  /\ request[q] \in Asked
         /\ request[q].id \in Ids /\ request[q].conn \in Conns /\ request[q].object \in Nat
<1>1. request[q] \notin {NotYet, Listed}
  BY DEF NotYet, Listed
<1> QED
  BY <1>1 DEF RequestInv, Asked

\* The request that begins is recorded, and no other changes.
LEMMA Begun ==
  ASSUME RequestInv, NEW q \in Requests, NEW stage, NEW s \in Ids, NEW c \in Conns, NEW o \in Nat,
         stage \in {"running", "generating", "options", "connecting", "ending", "done"},
         Begins(q, stage, s, c, o)
  PROVE  /\ request' \in [Requests -> Asked \cup {NotYet, Listed}]
         /\ request'[q] = [at |-> stage, id |-> s, conn |-> c, object |-> o]
         /\ request'[q] \in Asked
         /\ \A r \in Requests \ {q} : request'[r] = request[r]
<1>1. [at |-> stage, id |-> s, conn |-> c, object |-> o] \in Asked
  BY DEF Asked
<1> QED
  BY <1>1 DEF RequestInv, Begins

\* A request that moves on keeps its session, its connection and its object.
LEMMA Moved ==
  ASSUME RequestInv, NEW q \in Requests, request[q].at \notin {"idle", "done"}, NEW stage,
         stage \in {"running", "generating", "options", "connecting", "ending", "done"},
         Moves(q, stage)
  PROVE  /\ request' \in [Requests -> Asked \cup {NotYet, Listed}]
         /\ request'[q] \in Asked
         /\ request'[q].at = stage /\ request'[q].id = request[q].id
         /\ request'[q].conn = request[q].conn /\ request'[q].object = request[q].object
         /\ \A r \in Requests \ {q} : request'[r] = request[r]
<1>1. request[q] \in Asked
  BY RequestTypes
<1>2. [request[q] EXCEPT !.at = stage] \in Asked
  BY <1>1 DEF Asked
<1> QED
  BY <1>1, <1>2 DEF RequestInv, Moves, Asked

\* The session a request gets or adopts is known, and its object is in the heap.
LEMMA Adopted ==
  ASSUME Inv, NEW s \in Ids, NEW object \in 1 .. Len(heap[s]) + 1, GetOrAdopt(s, object)
  PROVE  /\ heap' \in [Ids -> Seq(Metadata)]
         /\ \A i \in Ids : DOMAIN heap[i] \subseteq DOMAIN heap'[i]
         /\ object \in DOMAIN heap'[s] /\ object \in Nat \ {0}
         /\ DOMAIN sessions' = Known \cup {s}
         /\ \A i \in Known \cup {s} : sessions'[i] \in DOMAIN heap'[i]
         /\ closing \cap (Known \cup {s}) = {}
         /\ ReloadLosesNothing'
         /\ gone' = gone \ {s}
<1> USE DEF Inv, HeapInv
<1>1. heap[s] \in Seq(Metadata) /\ Len(heap[s]) \in Nat /\ DOMAIN heap[s] = 1 .. Len(heap[s])
  OBVIOUS
<1>2. CASE s \in Known /\ object = sessions[s] /\ UNCHANGED <<heap, sessions>>
  <2>1. ReloadLosesNothing'
    BY DEF GetOrAdopt, SaveSessions, ReloadLosesNothing, Known
  <2>2. sessions[s] \in DOMAIN heap[s] /\ Known \cup {s} = Known
    BY <1>2
  <2>3. object \in DOMAIN heap[s] /\ object \in Nat \ {0}
    BY <1>1, <1>2, <2>2
  <2>4. closing \cap (Known \cup {s}) = {}
    BY <2>2 DEF EndingInv
  <2>5. \A i \in Known \cup {s} : sessions[i] \in DOMAIN heap[i]
    BY <2>2
  <2> QED
    BY <1>2, <2>1, <2>2, <2>3, <2>4, <2>5 DEF GetOrAdopt, Known
<1>3. CASE /\ s \notin Known /\ ~AdoptRefused(s)
           /\ object = Len(heap[s]) + 1
           /\ heap' = [heap EXCEPT ![s] = Append(@, Fresh)]
           /\ sessions' = With(sessions, s, object)
  <2>1. Fresh \in Metadata
    BY DEF Fresh, Metadata
  <2>2. /\ Append(heap[s], Fresh) \in Seq(Metadata)
        /\ Len(Append(heap[s], Fresh)) = Len(heap[s]) + 1
        /\ DOMAIN Append(heap[s], Fresh) = 1 .. Len(heap[s]) + 1
    BY <1>1, <2>1
  <2>3. heap' \in [Ids -> Seq(Metadata)]
    BY <1>3, <2>2
  <2>4. \A i \in Ids : DOMAIN heap[i] \subseteq DOMAIN heap'[i]
    BY <1>1, <1>3, <2>2
  <2>5. DOMAIN sessions' = Known \cup {s} /\ sessions'[s] = object
        /\ \A i \in Known : sessions'[i] = sessions[i]
    BY <1>3 DEF With, Known
  <2>6. ReloadLosesNothing'
    BY DEF GetOrAdopt, SaveSessions, ReloadLosesNothing, Known
  <2>7. object \in DOMAIN heap'[s] /\ object \in Nat \ {0}
    BY <1>1, <1>3, <2>2
  <2>8. closing \cap (Known \cup {s}) = {}
    BY <1>3 DEF EndingInv, AdoptRefused
  <2>9. \A i \in Known \cup {s} : sessions'[i] \in DOMAIN heap'[i]
    BY <2>4, <2>5, <2>7
  <2> QED
    BY <2>3, <2>4, <2>5, <2>6, <2>7, <2>8, <2>9 DEF GetOrAdopt
<1> QED
  BY <1>2, <1>3 DEF GetOrAdopt

\* A request that begins holds a session, or none when it ends one nobody knows.
LEMMA BegunKeepsRequests ==
  ASSUME RequestInv, NEW q \in Requests, NEW stage, NEW s \in Ids, NEW c \in Conns, NEW o \in Nat,
         stage \in {"running", "generating", "options", "connecting", "ending", "done"},
         Begins(q, stage, s, c, o), HeapGrows,
         (o # 0 /\ o \in DOMAIN heap'[s]) \/ (o = 0 /\ stage \in {"ending", "done"})
  PROVE  RequestInv'
<1>1. /\ request' \in [Requests -> Asked \cup {NotYet, Listed}]
      /\ request'[q] = [at |-> stage, id |-> s, conn |-> c, object |-> o]
      /\ request'[q] \in Asked
      /\ \A r \in Requests \ {q} : request'[r] = request[r]
  BY Begun
<1>2. ASSUME NEW r \in Requests, request'[r].object # 0
      PROVE  request'[r] \in Asked /\ request'[r].object \in DOMAIN heap'[request'[r].id]
  <2>1. CASE r = q
    BY <1>1, <1>2, <2>1
  <2>2. CASE r # q
    <3>1. /\ request'[r] = request[r] /\ request[r] \in Asked
          /\ request[r].object \in DOMAIN heap[request[r].id]
      BY <1>1, <1>2, <2>2 DEF RequestInv
    <3>2. request[r].id \in Ids
      BY <3>1 DEF Asked
    <3> QED
      BY <3>1, <3>2 DEF HeapGrows
  <2> QED
    BY <2>1, <2>2
<1>3. ASSUME NEW r \in Requests,
             request'[r].at \in {"running", "generating", "options", "connecting"}
      PROVE  request'[r].object # 0
  <2>1. CASE r = q
    BY <1>1, <1>3, <2>1
  <2>2. CASE r # q
    BY <1>1, <1>3, <2>2 DEF RequestInv
  <2> QED
    BY <2>1, <2>2
<1> QED
  BY <1>1, <1>2, <1>3 DEF RequestInv

\* A request begins with the session it got or adopted.
LEMMA BeginsWithSession ==
  ASSUME Inv, NEW q \in Requests, NEW s \in Ids, NEW c \in Conns, NEW stage,
         stage \in {"running", "options", "connecting", "done"},
         \E object \in 1 .. Len(heap[s]) + 1 : GetOrAdopt(s, object) /\ Begins(q, stage, s, c, object),
         UNCHANGED <<closing, retained>>
  PROVE  Inv'
<1>1. PICK object \in 1 .. Len(heap[s]) + 1 : GetOrAdopt(s, object) /\ Begins(q, stage, s, c, object)
  OBVIOUS
<1>2. /\ heap' \in [Ids -> Seq(Metadata)]
      /\ \A i \in Ids : DOMAIN heap[i] \subseteq DOMAIN heap'[i]
      /\ object \in DOMAIN heap'[s] /\ object \in Nat \ {0}
      /\ DOMAIN sessions' = Known \cup {s}
      /\ \A i \in Known \cup {s} : sessions'[i] \in DOMAIN heap'[i]
      /\ closing \cap (Known \cup {s}) = {}
      /\ ReloadLosesNothing'
      /\ gone' = gone \ {s}
  BY <1>1, Adopted
<1>3. /\ request' \in [Requests -> Asked \cup {NotYet, Listed}]
      /\ request'[q] = [at |-> stage, id |-> s, conn |-> c, object |-> object]
      /\ request'[q] \in Asked
      /\ \A r \in Requests \ {q} : request'[r] = request[r]
  BY <1>1, <1>2, Begun DEF Inv
<1>4. HeapInv'
  BY <1>2 DEF HeapInv, Inv, Known
<1>5. RequestInv'
  BY <1>1, <1>2, BegunKeepsRequests DEF Inv, HeapGrows
<1>6. EndingInv'
  <2>1. \A r \in Requests : At(r, "ending")' => r # q /\ At(r, "ending") /\ request'[r] = request[r]
    BY <1>3 DEF At
  <2> QED
    BY <1>2, <2>1 DEF EndingInv, Inv, Known
<1> QED
  BY <1>2, <1>4, <1>5, <1>6 DEF Inv, Known

\* A request goes on with what it took.
LEMMA MovesOn ==
  ASSUME HeapInv, RequestInv, NEW q \in Requests, request[q].at \notin {"idle", "done"},
         NEW stage, stage = "done" \/ (stage = "generating" /\ At(q, "running")), Moves(q, stage),
         HeapGrows
  PROVE  /\ RequestInv'
         /\ \A r \in Requests : At(r, "ending")' =>
              r # q /\ At(r, "ending") /\ request'[r] = request[r]
<1>1. /\ request' \in [Requests -> Asked \cup {NotYet, Listed}]
      /\ request'[q] \in Asked
      /\ request'[q].at = stage /\ request'[q].id = request[q].id
      /\ request'[q].conn = request[q].conn /\ request'[q].object = request[q].object
      /\ \A r \in Requests \ {q} : request'[r] = request[r]
  BY Moved
<1>2. ASSUME NEW r \in Requests, request'[r].object # 0
      PROVE  request'[r] \in Asked /\ request'[r].object \in DOMAIN heap'[request'[r].id]
  <2>1. /\ request'[r].object = request[r].object /\ request'[r].id = request[r].id
        /\ request[r] \in Asked /\ request[r].object \in DOMAIN heap[request[r].id]
    BY <1>1, <1>2 DEF RequestInv
  <2>2. request[r].id \in Ids
    BY <2>1 DEF Asked
  <2>3. request'[r] \in Asked
    BY <1>1, <2>1
  <2> QED
    BY <2>1, <2>2, <2>3 DEF HeapGrows
<1>3. ASSUME NEW r \in Requests,
             request'[r].at \in {"running", "generating", "options", "connecting"}
      PROVE  request'[r].object # 0
  BY <1>1, <1>3 DEF RequestInv, At
<1>4. ASSUME NEW r \in Requests, At(r, "ending")'
      PROVE  r # q /\ At(r, "ending") /\ request'[r] = request[r]
  BY <1>1, <1>4 DEF At
<1> QED
  BY <1>1, <1>2, <1>3, <1>4 DEF RequestInv

\* A field of a session is written where a request holds it.
LEMMA FieldWritten ==
  ASSUME HeapInv, NEW i \in Ids, NEW o \in DOMAIN heap[i], NEW m \in Metadata,
         heap' = [heap EXCEPT ![i] = [@ EXCEPT ![o] = m]]
  PROVE  /\ heap' \in [Ids -> Seq(Metadata)]
         /\ \A j \in Ids : DOMAIN heap'[j] = DOMAIN heap[j]
<1>1. heap[i] \in Seq(Metadata)
  BY DEF HeapInv
<1>2. /\ [heap[i] EXCEPT ![o] = m] \in Seq(Metadata)
      /\ DOMAIN [heap[i] EXCEPT ![o] = m] = DOMAIN heap[i]
  BY <1>1, ExceptSeq
<1> QED
  BY <1>2 DEF HeapInv

\* A turn that ends asks for a title or not, and keeps nothing but that.
LEMMA PromptEndsKeeps ==
  ASSUME Inv, NEW p \in Prompts, PromptEnds(p) PROVE Inv'
<1>1. p \in Requests /\ At(p, "running")
  BY DEF PromptEnds, Requests
<1>2. \/ Moves(p, "done")
      \/ Moves(p, "generating")
  BY DEF PromptEnds
<1>3. UNCHANGED <<heap, sessions, disk, closing, gone, retained>>
  BY DEF PromptEnds
<1>4. /\ RequestInv'
      /\ \A r \in Requests : At(r, "ending")' => At(r, "ending") /\ request'[r] = request[r]
  BY <1>1, <1>2, <1>3, MovesOn DEF Inv, At, HeapGrows
<1> QED
  BY <1>3, <1>4 DEF Inv, HeapInv, EndingInv, ReloadLosesNothing, Known

\* A write through a request that holds a session, and the save that follows it.
LEMMA WriteKeeps ==
  ASSUME Inv, NEW q \in Requests, request[q].at \in {"generating", "options"}, Moves(q, "done"),
         NEW m \in Metadata,
         heap' = [heap EXCEPT ![request[q].id] = [@ EXCEPT ![request[q].object] = m]],
         SaveSessions, UNCHANGED <<sessions, closing, gone, retained>>
  PROVE  Inv'
<1>1. request[q].id \in Ids /\ request[q].object \in DOMAIN heap[request[q].id]
  BY RequestTypes DEF Inv, RequestInv
<1>2. /\ heap' \in [Ids -> Seq(Metadata)]
      /\ \A j \in Ids : DOMAIN heap'[j] = DOMAIN heap[j]
  BY <1>1, FieldWritten DEF Inv
<1>3. /\ RequestInv'
      /\ \A r \in Requests : At(r, "ending")' =>
           r # q /\ At(r, "ending") /\ request'[r] = request[r]
  <2>1. HeapGrows
    BY <1>2 DEF HeapGrows
  <2>2. HeapInv /\ RequestInv /\ request[q].at \notin {"idle", "done"}
    BY DEF Inv
  <2> QED
    BY <2>1, <2>2, MovesOn
<1>4. ReloadLosesNothing'
  BY DEF SaveSessions, ReloadLosesNothing, Known
<1>5. HeapInv'
  BY <1>2 DEF Inv, HeapInv, Known
<1> QED
  BY <1>3, <1>4, <1>5 DEF Inv, EndingInv, Known

\* A generated title is written to the object the turn holds, and saved with it or not at
\* all.
LEMMA TitleEndsKeeps ==
  ASSUME Inv, NEW p \in Prompts, TitleEnds(p) PROVE Inv'
<1>1. p \in Requests /\ At(p, "generating") /\ Moves(p, "done")
  BY DEF TitleEnds, Requests
<1>2. UNCHANGED <<closing, gone, retained>>
  BY DEF TitleEnds
<1>3. CASE UNCHANGED <<heap, sessions, disk>>
  <2>1. /\ RequestInv'
        /\ \A r \in Requests : At(r, "ending")' => At(r, "ending") /\ request'[r] = request[r]
    <3>1. HeapGrows
      BY <1>3 DEF HeapGrows
    <3>2. HeapInv /\ RequestInv /\ request[p].at \notin {"idle", "done"}
      BY <1>1 DEF Inv, At
    <3> QED
      BY <1>1, <3>1, <3>2, MovesOn
  <2> QED
    BY <1>2, <1>3, <2>1 DEF Inv, HeapInv, EndingInv, ReloadLosesNothing, Known
<1>4. CASE ~UNCHANGED <<heap, sessions, disk>>
  <2>1. /\ heap' = [heap EXCEPT ![request[p].id][request[p].object].title = p]
        /\ UNCHANGED sessions /\ SaveSessions
    BY <1>4 DEF TitleEnds, StoreTitle
  <2> DEFINE m == [heap[request[p].id][request[p].object] EXCEPT !.title = p]
  <2>2. heap[request[p].id][request[p].object] \in Metadata
    <3>1. request[p].id \in Ids /\ request[p].object \in DOMAIN heap[request[p].id]
      BY <1>1, RequestTypes DEF Inv, RequestInv, At
    <3>2. heap[request[p].id] \in Seq(Metadata)
      BY <3>1 DEF Inv, HeapInv
    <3> QED
      BY <3>1, <3>2, ElementOfSeq
  <2>3. m \in Metadata
    BY <2>2 DEF Metadata
  <2>4. heap' = [heap EXCEPT ![request[p].id] = [@ EXCEPT ![request[p].object] = m]]
    BY <2>1
  <2> QED
    BY <1>1, <1>2, <2>1, <2>3, <2>4, WriteKeeps DEF At
<1> QED
  BY <1>3, <1>4

\* So is the value of an option.
LEMMA OptionEndsKeeps ==
  ASSUME Inv, NEW o \in Options, NEW v \in Values, OptionEnds(o, v) PROVE Inv'
<1>1. o \in Requests /\ At(o, "options") /\ Moves(o, "done")
  BY DEF OptionEnds, Requests
<1>2. UNCHANGED <<closing, gone, retained>>
  BY DEF OptionEnds
<1>3. CASE UNCHANGED <<heap, sessions, disk>>
  <2>1. /\ RequestInv'
        /\ \A r \in Requests : At(r, "ending")' => At(r, "ending") /\ request'[r] = request[r]
    <3>1. HeapGrows
      BY <1>3 DEF HeapGrows
    <3>2. HeapInv /\ RequestInv /\ request[o].at \notin {"idle", "done"}
      BY <1>1 DEF Inv, At
    <3> QED
      BY <1>1, <3>1, <3>2, MovesOn
  <2> QED
    BY <1>2, <1>3, <2>1 DEF Inv, HeapInv, EndingInv, ReloadLosesNothing, Known
<1>4. CASE ~UNCHANGED <<heap, sessions, disk>>
  <2>1. /\ heap' = [heap EXCEPT ![request[o].id][request[o].object].config = v]
        /\ UNCHANGED sessions /\ SaveSessions
    BY <1>4 DEF OptionEnds, SetOption
  <2> DEFINE m == [heap[request[o].id][request[o].object] EXCEPT !.config = v]
  <2>2. heap[request[o].id][request[o].object] \in Metadata
    <3>1. request[o].id \in Ids /\ request[o].object \in DOMAIN heap[request[o].id]
      BY <1>1, RequestTypes DEF Inv, RequestInv, At
    <3>2. heap[request[o].id] \in Seq(Metadata)
      BY <3>1 DEF Inv, HeapInv
    <3> QED
      BY <3>1, <3>2, ElementOfSeq
  <2>3. m \in Metadata
    BY <2>2 DEF Metadata
  <2>4. heap' = [heap EXCEPT ![request[o].id] = [@ EXCEPT ![request[o].object] = m]]
    BY <2>1
  <2> QED
    BY <1>1, <1>2, <2>1, <2>3, <2>4, WriteKeeps DEF At
<1> QED
  BY <1>3, <1>4

\* A session/new that fails takes back what it created.
LEMMA NewEndsKeeps ==
  ASSUME Inv, NEW n \in News, NewEnds(n) PROVE Inv'
<1>1. n \in Requests /\ At(n, "connecting") /\ Moves(n, "done") /\ heap' = heap
      /\ UNCHANGED closing
  BY DEF NewEnds, Requests
<1>2. /\ RequestInv'
      /\ \A r \in Requests : At(r, "ending")' => At(r, "ending") /\ request'[r] = request[r]
  <2>1. HeapGrows
    BY <1>1 DEF HeapGrows
  <2>2. HeapInv /\ RequestInv /\ request[n].at \notin {"idle", "done"}
    BY <1>1 DEF Inv, At
  <2> QED
    BY <1>1, <2>1, <2>2, MovesOn
<1>3. CASE UNCHANGED <<sessions, disk, gone, retained, chosen>>
  BY <1>1, <1>2, <1>3 DEF Inv, HeapInv, EndingInv, ReloadLosesNothing, Known
<1>4. CASE /\ sessions' = Without(sessions, request[n].id)
           /\ SaveSessions
           /\ gone' = gone \cup {request[n].id}
           /\ retained' = retained \ {request[n].id}
  <2>1. /\ DOMAIN sessions' = Known \ {request[n].id}
        /\ \A s \in DOMAIN sessions' : sessions'[s] = sessions[s]
    BY <1>4 DEF Without, Known
  <2>2. ReloadLosesNothing'
    BY <1>4 DEF SaveSessions, ReloadLosesNothing, Known
  <2> QED
    BY <1>1, <1>2, <1>4, <2>1, <2>2 DEF Inv, HeapInv, EndingInv, Known
<1> QED
  BY <1>3, <1>4 DEF NewEnds

\* session/list takes over the file, which says what memory says.
LEMMA ListKeeps ==
  ASSUME Inv, NEW l \in Lists, List(l) PROVE Inv'
<1>1. /\ l \in Requests /\ request[l] = NotYet /\ Reload
      /\ request' = [request EXCEPT ![l].at = "done"]
      /\ UNCHANGED <<disk, closing, gone, retained>>
  BY DEF List, Requests
<1>2. disk = [s \in Known |-> heap[s][sessions[s]]] /\ DOMAIN disk = Known
  BY DEF Inv, ReloadLosesNothing
<1>3. \A s \in Known : disk[s] \in Metadata
  BY <1>2, ElementOfSeq DEF Inv, HeapInv
<1>4. \A s \in Ids : /\ heap[s] \in Seq(Metadata) /\ Len(heap[s]) \in Nat
                     /\ DOMAIN heap[s] = 1 .. Len(heap[s])
  BY DEF Inv, HeapInv
<1>5. \A s \in Ids : /\ s \in Known => heap'[s] = Append(heap[s], disk[s])
                     /\ s \notin Known => heap'[s] = heap[s]
  BY <1>1, <1>2 DEF Reload
<1>6. ASSUME NEW s \in Known
      PROVE  /\ heap'[s] \in Seq(Metadata) /\ DOMAIN heap'[s] = 1 .. Len(heap[s]) + 1
             /\ heap'[s][Len(heap[s]) + 1] = disk[s]
  <2>1. s \in Ids
    BY DEF Inv, HeapInv
  <2>2. disk[s] \in Metadata /\ heap[s] \in Seq(Metadata) /\ heap'[s] = Append(heap[s], disk[s])
    BY <1>3, <1>4, <1>5, <2>1
  <2>3. /\ heap'[s] \in Seq(Metadata) /\ Len(heap'[s]) = Len(heap[s]) + 1
        /\ heap'[s][Len(heap[s]) + 1] = disk[s]
    BY <2>2, AppendProperties
  <2>4. DOMAIN heap'[s] = 1 .. Len(heap'[s])
    BY <2>3
  <2> QED
    BY <2>3, <2>4
<1>7. heap' \in [Ids -> Seq(Metadata)]
  BY <1>1, <1>2, <1>4, <1>5, <1>6 DEF Reload
<1>8. \A s \in Ids : DOMAIN heap[s] \subseteq DOMAIN heap'[s]
  BY <1>4, <1>5, <1>6
<1>9. sessions' = [s \in Known |-> Len(heap[s]) + 1]
  BY <1>1, <1>2 DEF Reload
<1>10. HeapInv'
  <2>1. \A s \in Known : Len(heap[s]) + 1 \in DOMAIN heap'[s]
    BY <1>4, <1>6 DEF Inv, HeapInv
  <2> QED
    BY <1>1, <1>7, <1>9, <2>1 DEF Inv, HeapInv, Known
<1>11. ReloadLosesNothing'
  <2>1. \A s \in Known : heap'[s][sessions'[s]] = disk[s]
    BY <1>6, <1>9
  <2> QED
    BY <1>1, <1>2, <1>9, <2>1 DEF ReloadLosesNothing, Known
<1>12. /\ request' \in [Requests -> Asked \cup {NotYet, Listed}]
       /\ request'[l] = Listed
       /\ \A r \in Requests \ {l} : request'[r] = request[r]
  BY <1>1 DEF Inv, RequestInv, Listed
<1>13. RequestInv'
  <2>1. ASSUME NEW r \in Requests, request'[r].object # 0
        PROVE  request'[r] \in Asked /\ request'[r].object \in DOMAIN heap'[request'[r].id]
    <3>1. request'[r] = request[r]
      BY <1>12, <2>1 DEF Listed, NotYet
    <3>2. request[r] \in Asked /\ request[r].object \in DOMAIN heap[request[r].id]
      BY <2>1, <3>1 DEF Inv, RequestInv
    <3>3. request[r].id \in Ids
      BY <3>2 DEF Asked
    <3> QED
      BY <1>8, <3>1, <3>2, <3>3
  <2>2. ASSUME NEW r \in Requests,
               request'[r].at \in {"running", "generating", "options", "connecting"}
        PROVE  request'[r].object # 0
    BY <1>12, <2>2 DEF Inv, RequestInv, Listed, NotYet
  <2> QED
    BY <1>12, <2>1, <2>2 DEF RequestInv
<1>14. \A r \in Requests : At(r, "ending")' => At(r, "ending") /\ request'[r] = request[r]
  BY <1>12 DEF At, Listed, NotYet
<1> QED
  BY <1>1, <1>9, <1>10, <1>11, <1>13, <1>14 DEF Inv, EndingInv, Known

\* A close or deletion forgets the session before it waits.
LEMMA EndBeginsKeeps ==
  ASSUME Inv, NEW e \in Ends, NEW s \in Ids, NEW c \in Conns, EndBegins(e, s, c) PROVE Inv'
<1>1. e \in Requests /\ UNCHANGED gone
  BY DEF EndBegins, Requests
<1>2. CASE /\ s \in closing /\ Begins(e, "done", s, c, 0)
           /\ UNCHANGED <<heap, sessions, disk, closing, retained>>
  <2>1. HeapGrows
    BY <1>2 DEF HeapGrows
  <2>2. RequestInv'
    BY <1>1, <1>2, <2>1, BegunKeepsRequests DEF Inv
  <2>3. \A r \in Requests : At(r, "ending")' => At(r, "ending") /\ request'[r] = request[r]
    <3>1. request'[e] = [at |-> "done", id |-> s, conn |-> c, object |-> 0]
      BY <1>1, <1>2, Begun DEF Inv
    <3>2. \A r \in Requests \ {e} : request'[r] = request[r]
      BY <1>1, <1>2, Begun DEF Inv
    <3> QED
      BY <3>1, <3>2 DEF At
  <2> QED
    BY <1>1, <1>2, <2>2, <2>3 DEF Inv, HeapInv, EndingInv, ReloadLosesNothing, Known
<1>3. CASE /\ s \notin closing
           /\ Begins(e, "ending", s, c, IF s \in Known THEN sessions[s] ELSE 0)
           /\ closing' = closing \cup {s}
           /\ sessions' = Without(sessions, s)
           /\ heap' = heap
           /\ SaveSessions
           /\ retained' = retained \ {s}
  <2> DEFINE o == IF s \in Known THEN sessions[s] ELSE 0
  <2>1. HeapGrows
    BY <1>3 DEF HeapGrows
  <2>2. o \in Nat /\ ((o # 0 /\ o \in DOMAIN heap'[s]) \/ o = 0)
    <3>1. s \in Known => sessions[s] \in DOMAIN heap[s] /\ heap[s] \in Seq(Metadata)
      BY DEF Inv, HeapInv
    <3>2. s \in Known => sessions[s] \in Nat \ {0}
      BY <3>1
    <3> QED
      BY <1>3, <3>1, <3>2
  <2>3. RequestInv'
    <3> HIDE DEF o
    <3>1. Begins(e, "ending", s, c, o)
      BY <1>3 DEF o
    <3> QED
      BY <1>1, <2>1, <2>2, <3>1, BegunKeepsRequests DEF Inv
  <2>4. /\ request'[e].id = s
        /\ \A r \in Requests \ {e} : request'[r] = request[r]
    <3> HIDE DEF o
    <3>1. Begins(e, "ending", s, c, o)
      BY <1>3 DEF o
    <3>2. request'[e] = [at |-> "ending", id |-> s, conn |-> c, object |-> o]
      BY <1>1, <2>2, <3>1, Begun DEF Inv
    <3> QED
      BY <1>1, <2>2, <3>1, <3>2, Begun DEF Inv
  <2>5. /\ DOMAIN sessions' = Known \ {s}
        /\ \A i \in DOMAIN sessions' : sessions'[i] = sessions[i]
    BY <1>3 DEF Without, Known
  <2>6. ReloadLosesNothing'
    BY <1>3 DEF SaveSessions, ReloadLosesNothing, Known
  <2>7. HeapInv'
    BY <1>3, <2>5 DEF Inv, HeapInv, Known
  <2>8. EndingInv'
    BY <1>1, <1>3, <2>4, <2>5 DEF Inv, EndingInv, Known, At
  <2> QED
    BY <1>1, <1>3, <2>3, <2>5, <2>6, <2>7, <2>8 DEF Inv, Known
<1> QED
  BY <1>2, <1>3 DEF EndBegins

\* Its end gives the session back only if it deletes and fails.
LEMMA EndEndsKeeps ==
  ASSUME Inv, NEW e \in Ends, EndEnds(e) PROVE Inv'
<1> DEFINE s == request[e].id
<1>1. e \in Requests /\ At(e, "ending") /\ Moves(e, "done") /\ closing' = closing \ {s}
  BY DEF EndEnds, Requests
<1>2. s \in Ids /\ s \in closing /\ s \notin Known
  BY <1>1, RequestTypes DEF Inv, EndingInv, At
<1>3. heap' = heap
  BY DEF EndEnds, Restore
<1>4. /\ RequestInv'
      /\ \A r \in Requests : At(r, "ending")' =>
           r # e /\ At(r, "ending") /\ request'[r] = request[r]
  <2>1. HeapGrows
    BY <1>3 DEF HeapGrows
  <2>2. HeapInv /\ RequestInv /\ request[e].at \notin {"idle", "done"}
    BY <1>1 DEF Inv, At
  <2> QED
    BY <1>1, <2>1, <2>2, MovesOn
<1>5. CASE /\ gone' = gone \cup {s}
           /\ UNCHANGED <<heap, sessions, disk, retained>>
  BY <1>1, <1>2, <1>4, <1>5, ZenonT(40) DEF Inv, HeapInv, EndingInv, ReloadLosesNothing, Known
<1>6. CASE /\ Retains(e) /\ Restore(e)
           /\ retained' = retained \cup {s}
           /\ gone' = gone \ {s}
  <2>1. request[e].object # 0 /\ sessions' = With(sessions, s, request[e].object)
    BY <1>6 DEF Retains, Restore
  <2>2. /\ DOMAIN sessions' = Known \cup {s} /\ sessions'[s] = request[e].object
        /\ \A i \in Known : sessions'[i] = sessions[i]
    BY <1>2, <2>1 DEF With, Known
  <2>3. request[e].object \in DOMAIN heap[s]
    BY <1>1, <2>1 DEF Inv, RequestInv
  <2>4. ReloadLosesNothing'
    BY <1>6 DEF Restore, SaveSessions, ReloadLosesNothing, Known
  <2>5. HeapInv'
    BY <1>1, <1>2, <1>3, <2>2, <2>3 DEF Inv, HeapInv, Known
  <2>6. EndingInv'
    BY <1>1, <1>4, <2>2 DEF Inv, EndingInv, Known
  <2> QED
    BY <1>2, <1>4, <1>6, <2>2, <2>4, <2>5, <2>6 DEF Inv, Known
<1> QED
  BY <1>5, <1>6 DEF EndEnds

\* The initial states are consistent,
LEMMA InitKeeps == ASSUME Init PROVE Inv
<1>1. HeapInv /\ EndingInv /\ ReloadLosesNothing
  BY DEF Init, HeapInv, EndingInv, ReloadLosesNothing, Known, NotYet, At
<1>2. RequestInv
  BY DEF Init, RequestInv, NotYet
<1> QED
  BY <1>1, <1>2 DEF Init, Inv

\* and every step keeps them so.
LEMMA NextKeeps == ASSUME Inv, [Next]_vars PROVE Inv'
<1>1. CASE Turns
  <2>1. ASSUME NEW p \in Prompts, NEW s \in Ids, NEW c \in Conns, PromptBegins(p, s, c) PROVE Inv'
    BY <2>1, BeginsWithSession DEF PromptBegins, Requests
  <2> QED
    BY <1>1, <2>1, PromptEndsKeeps, TitleEndsKeeps DEF Turns
<1>2. CASE SetsOption
  <2>1. ASSUME NEW o \in Options, NEW s \in Ids, OptionBegins(o, s) PROVE Inv'
    <3>1. PICK c \in Conns : \E object \in 1 .. Len(heap[s]) + 1 :
            GetOrAdopt(s, object) /\ Begins(o, "options", s, c, object)
      BY <2>1 DEF OptionBegins
    <3> QED
      BY <2>1, <3>1, BeginsWithSession DEF OptionBegins, Requests
  <2> QED
    BY <1>2, <2>1, OptionEndsKeeps DEF SetsOption
<1>3. CASE Creates
  <2>1. ASSUME NEW n \in News, NEW s \in Ids, NewBegins(n, s) PROVE Inv'
    <3>1. PICK c \in Conns : \E object \in 1 .. Len(heap[s]) + 1 :
            GetOrAdopt(s, object) /\ Begins(n, "connecting", s, c, object)
      BY <2>1 DEF NewBegins
    <3> QED
      BY <2>1, <3>1, BeginsWithSession DEF NewBegins, Requests
  <2> QED
    BY <1>3, <2>1, NewEndsKeeps DEF Creates
<1>4. CASE Reads
  <2>1. ASSUME NEW l \in Loads, NEW s \in Ids, Load(l, s) PROVE Inv'
    <3>1. PICK c \in Conns : \E object \in 1 .. Len(heap[s]) + 1 :
            GetOrAdopt(s, object) /\ Begins(l, "done", s, c, object)
      BY <2>1 DEF Load
    <3> QED
      BY <2>1, <3>1, BeginsWithSession DEF Load, Requests
  <2> QED
    BY <1>4, <2>1, ListKeeps DEF Reads
<1>5. CASE Closes
  BY <1>5, EndBeginsKeeps, EndEndsKeeps DEF Closes
<1>6. CASE UNCHANGED vars
  BY <1>6 DEF vars, Inv, HeapInv, RequestInv, EndingInv, ReloadLosesNothing, Known, At
<1> QED
  BY <1>1, <1>2, <1>3, <1>4, <1>5, <1>6 DEF Next, Done

\* The types of what the invariant does not speak of.
HistoryTypes ==
  /\ used \subseteq Ids /\ deleting \subseteq Ends /\ gone \subseteq Ids
  /\ titled \in [Conns -> SUBSET Ids]
  /\ chosen \in [Ids -> Values \cup {Default}] /\ asked \in [Ids -> Nat]

\* Every step keeps these types.
LEMMA HistoryTypesKept ==
  ASSUME Inv, HistoryTypes, [Next]_vars PROVE HistoryTypes'
<1> USE DEF HistoryTypes
<1>1. ASSUME NEW q, NEW stage, NEW s \in Ids, NEW c \in Conns,
             \E o : GetOrAdopt(s, o) /\ Begins(q, stage, s, c, o),
             UNCHANGED <<deleting, titled, chosen, asked>>
      PROVE  HistoryTypes'
  BY <1>1 DEF GetOrAdopt, Begins
<1>2. CASE Turns
  <2>1. ASSUME NEW p \in Prompts, NEW s \in Ids, NEW c \in Conns, PromptBegins(p, s, c)
        PROVE  HistoryTypes'
    BY <1>1, <2>1 DEF PromptBegins
  <2>2. ASSUME NEW p \in Prompts, PromptEnds(p) PROVE HistoryTypes'
    <3>1. request[p].id \in Ids /\ request[p].conn \in Conns
      BY <2>2, RequestTypes DEF PromptEnds, At, Inv, Requests
    <3> QED
      BY <2>2, <3>1 DEF PromptEnds
  <2>3. ASSUME NEW p \in Prompts, TitleEnds(p) PROVE HistoryTypes'
    BY <2>3 DEF TitleEnds
  <2> QED
    BY <1>2, <2>1, <2>2, <2>3 DEF Turns
<1>3. CASE SetsOption
  <2>1. ASSUME NEW o \in Options, NEW s \in Ids, OptionBegins(o, s) PROVE HistoryTypes'
    BY <1>1, <2>1 DEF OptionBegins
  <2>2. ASSUME NEW o \in Options, NEW v \in Values, OptionEnds(o, v) PROVE HistoryTypes'
    BY <2>2 DEF OptionEnds
  <2> QED
    BY <1>3, <2>1, <2>2 DEF SetsOption
<1>4. CASE Creates
  <2>1. ASSUME NEW n \in News, NEW s \in Ids, NewBegins(n, s) PROVE HistoryTypes'
    BY <1>1, <2>1 DEF NewBegins
  <2>2. ASSUME NEW n \in News, NewEnds(n) PROVE HistoryTypes'
    <3>1. request[n].id \in Ids
      BY <2>2, RequestTypes DEF NewEnds, At, Inv, Requests
    <3> QED
      BY <2>2, <3>1 DEF NewEnds
  <2> QED
    BY <1>4, <2>1, <2>2 DEF Creates
<1>5. CASE Reads
  <2>1. ASSUME NEW l \in Loads, NEW s \in Ids, Load(l, s) PROVE HistoryTypes'
    BY <1>1, <2>1 DEF Load
  <2> QED
    BY <1>5, <2>1 DEF Reads, List
<1>6. CASE Closes
  <2>1. ASSUME NEW e \in Ends, NEW s \in Ids, NEW c \in Conns, EndBegins(e, s, c)
        PROVE  HistoryTypes'
    BY <2>1 DEF EndBegins, Begins
  <2>2. ASSUME NEW e \in Ends, EndEnds(e) PROVE HistoryTypes'
    <3>1. request[e].id \in Ids /\ request[e].conn \in Conns
      BY <2>2, RequestTypes DEF EndEnds, At, Inv, Requests
    <3> QED
      BY <2>2, <3>1 DEF EndEnds
  <2> QED
    BY <1>6, <2>1, <2>2 DEF Closes
<1>7. CASE UNCHANGED vars
  BY <1>7 DEF vars
<1> QED
  BY <1>2, <1>3, <1>4, <1>5, <1>6, <1>7 DEF Next, Done

\* What a session's title was asked for is remembered until it ends.
TitleInv ==
  \A s \in Ids : /\ asked[s] <= 1
                 /\ asked[s] = 1 => \A c \in Conns : s \in titled[c]
                 /\ s \in closing => asked[s] = 0

\* On one connection, every step keeps that.
LEMMA TitleKept ==
  ASSUME \A c, d \in Conns : c = d, Inv, HistoryTypes, TitleInv, [Next]_vars
  PROVE  TitleInv'
<1> USE DEF TitleInv
<1>1. CASE UNCHANGED <<closing, titled, asked>>
  BY <1>1
<1>2. ASSUME NEW p \in Prompts, PromptEnds(p), ~UNCHANGED <<titled, asked>> PROVE TitleInv'
  <2> DEFINE s == request[p].id
             c == request[p].conn
  <2>1. s \in Ids /\ c \in Conns
    BY <1>2, RequestTypes DEF PromptEnds, At, Inv, Requests
  <2>2. /\ s \in Known /\ s \notin titled[c] /\ UNCHANGED closing
        /\ titled' = [titled EXCEPT ![c] = @ \cup {s}]
        /\ asked' = [asked EXCEPT ![s] = @ + 1]
    BY <1>2 DEF PromptEnds, TitleWanted
  <2>3. asked[s] = 0 /\ s \notin closing
    BY <2>1, <2>2 DEF HistoryTypes, Inv, EndingInv
  <2> QED
    BY <2>1, <2>2, <2>3 DEF HistoryTypes
<1>3. ASSUME NEW e \in Ends, NEW s \in Ids, NEW c \in Conns, EndBegins(e, s, c) PROVE TitleInv'
  BY <1>3 DEF EndBegins, HistoryTypes
<1>4. ASSUME NEW e \in Ends, EndEnds(e) PROVE TitleInv'
  <2> DEFINE s == request[e].id
             c == request[e].conn
  <2>1. s \in closing /\ s \in Ids /\ c \in Conns
    BY <1>4, RequestTypes DEF EndEnds, At, Inv, EndingInv, Requests
  <2>2. /\ closing' = closing \ {s}
        /\ titled' = [titled EXCEPT ![c] = @ \ {s}]
        /\ UNCHANGED asked
    BY <1>4 DEF EndEnds
  <2> QED
    BY <2>1, <2>2 DEF HistoryTypes
<1>5. CASE Turns
  BY <1>1, <1>2, <1>5 DEF Turns, PromptBegins, PromptEnds, TitleEnds
<1>6. CASE Closes
  BY <1>3, <1>4, <1>6 DEF Closes
<1>7. CASE SetsOption \/ Creates \/ Reads \/ Done \/ UNCHANGED vars
  BY <1>1, <1>7 DEF SetsOption, OptionBegins, OptionEnds, Creates, NewBegins, NewEnds,
                    Reads, Load, List, Done, vars
<1> QED
  BY <1>5, <1>6, <1>7 DEF Next

\* The invariant of the metadata: what requests hold, what is being ended, and the file.
THEOREM MetadataIsConsistent == Spec => []Inv
<1>1. Init => Inv
  BY InitKeeps
<1>2. Inv /\ [Next]_vars => Inv'
  BY NextKeeps
<1> QED
  BY <1>1, <1>2, PTL DEF Spec

\* Memory and file map ids to metadata, whichever requests are under way:
\* SessionMetadataStore and the requests of agent.py.
THEOREM MetadataTypes == Spec => []TypeOK
<1>1. Init => HistoryTypes
  BY DEF Init, HistoryTypes
<1>2. Inv /\ HistoryTypes /\ [Next]_vars => HistoryTypes'
  BY HistoryTypesKept
<1>3. Inv /\ HistoryTypes => TypeOK
  BY DEF TypeOK, Inv, HeapInv, RequestInv, HistoryTypes, ReloadLosesNothing, Asked, NotYet, Listed
<1> QED
  BY <1>1, <1>2, <1>3, MetadataIsConsistent, PTL DEF Spec

\* session/list never drops or brings back what a request has done: acp-sessions.json is what
\* memory is, after every step of every request (_save_session_metadata, list_sessions).
THEOREM ReloadsLoseNothing == Spec => []ReloadLosesNothing
<1>1. Inv => ReloadLosesNothing
  BY DEF Inv
<1> QED
  BY <1>1, MetadataIsConsistent, PTL

\* What was closed or deleted, or could not be created, is not brought back by whatever was
\* still under way, and what could not be deleted is there for the retry: _end_session,
\* new_session and the writers they race with.
THEOREM WhatEndsStaysEnded == Spec => []EndsHold
<1>1. Inv => EndsHold
  BY DEF Inv, ReloadLosesNothing, EndsHold, EndedStaysEnded, FailedDeletionRetained
<1> QED
  BY <1>1, MetadataIsConsistent, PTL

\* On one connection a session is titled at most once, though its turns overlap with its
\* closing and reloading; each connection remembers its own titles, so two may both ask
\* (_publish_session_title).
THEOREM TitledAtMostOnce ==
  ASSUME \A c, d \in Conns : c = d PROVE Spec => []TitledOnce
<1>1. Init => TitleInv /\ HistoryTypes
  BY DEF Init, TitleInv, HistoryTypes
<1>2. Inv /\ HistoryTypes /\ TitleInv /\ [Next]_vars => TitleInv' /\ HistoryTypes'
  BY HistoryTypesKept, TitleKept
<1>3. TitleInv => TitledOnce
  BY DEF TitleInv, TitledOnce
<1> QED
  BY <1>1, <1>2, <1>3, MetadataIsConsistent, PTL DEF Spec

-----------------------------------------------------------------------------
(***************************************************************************)
(* The MCP channels of sessions.                                           *)
(***************************************************************************)

\* Every variable has the values its use gives it.
ChannelTypes ==
  /\ open \subseteq McpIds /\ mcpClosing \subseteq mcpUsed /\ mcpUsed \subseteq McpIds
  /\ at \in [Mcp!Requests -> {"idle", "waitLock", "connecting", "stopping", "queued",
                          "turn", "gather", "done"}]
  /\ id \in [Mcp!Requests -> McpIds \cup {None}]
  /\ lock \in McpLoads \cup McpPrompts \cup {None}
  /\ live \subseteq Mcp!Channels
  /\ channelOf \in [McpIds -> Mcp!Channels \cup {None}]
  /\ bound \in [McpPrompts -> Mcp!Channels \cup {None}]
  /\ stopping \in [Mcp!Requests -> Mcp!Channels \cup {None}]
  /\ awaited \in [McpEnds -> SUBSET McpPrompts]
  /\ shutdown \in {"no", "gather", "stopping", "done"}
  /\ cancelled \subseteq Mcp!Requests /\ released \subseteq Mcp!Channels

\* Where a request of each kind may stand, and what it holds there.
RequestStages ==
  /\ \A n \in McpNews : at[n] \in {"idle", "connecting", "stopping", "done"}
  /\ \A l \in McpLoads : at[l] \in {"idle", "waitLock", "connecting", "stopping", "done"}
  /\ \A p \in McpPrompts : at[p] \in {"idle", "queued", "turn", "done"}
  /\ \A e \in McpEnds : at[e] \in {"idle", "gather", "stopping", "done"}
  /\ \A q \in Mcp!Requests : at[q] = "idle" <=> id[q] = None
  /\ \A q \in Mcp!Requests : id[q] # None => id[q] \in mcpUsed
  /\ \A q \in Mcp!Requests : at[q] # "stopping" => stopping[q] = None

\* The prompt lock is held by the load that connects or stops, or by the turn that runs.
LockHolders ==
  /\ lock # None => at[lock] \in {"connecting", "stopping", "turn"}
  /\ \A l \in McpLoads : at[l] \in {"connecting", "stopping"} => lock = l
  /\ \A p \in McpPrompts : at[p] = "turn" => lock = p

\* Whoever creates a session is alone with it.
NewsAlone ==
  \A n \in McpNews, q \in Mcp!Requests :
    at[n] \in {"connecting", "stopping"} /\ id[q] = id[n] => q = n

\* A session that is being ended is not open, one request ends it, and awaits its turns.
EndsApart ==
  /\ open \cap mcpClosing = {}
  /\ \A e \in McpEnds : at[e] \in {"gather", "stopping"} => id[e] \in mcpClosing
  /\ \A e, f \in McpEnds : at[e] \in {"gather", "stopping"} /\ at[f] \in {"gather", "stopping"}
                          /\ id[e] = id[f] => e = f
  /\ \A e \in McpEnds : at[e] = "gather" =>
       \A p \in McpPrompts : id[p] = id[e] /\ at[p] \in {"queued", "turn"} => p \in awaited[e]
  /\ \A e \in McpEnds : at[e] = "stopping" => channelOf[id[e]] = None

\* A channel that anybody knows of has been connected by the request it is named by, and is
\* installed for no other session.
ChannelNames ==
  /\ \A c \in Mcp!Channels : c \in live \cup Mcp!BeingStopped => at[c] \in {"stopping", "done"}
  /\ \A s \in McpIds : channelOf[s] # None => id[channelOf[s]] = s

\* What shutdown has cancelled.
ShutdownStages ==
  /\ shutdown # "no" =>
       \A q \in Mcp!Requests : at[q] \in {"queued", "turn", "connecting"} => q \in cancelled
  /\ shutdown \in {"stopping", "done"} =>
       /\ \A s \in McpIds : channelOf[s] = None
       /\ \A q \in Mcp!Requests : at[q] \notin {"queued", "turn", "connecting"}
  /\ shutdown # "stopping" => released = {}

\* A turn under way has the channel of its session.
BoundIsInstalled ==
  \A p \in McpPrompts : bound[p] # None => at[p] = "turn" /\ bound[p] = channelOf[id[p]]

\* The inductive invariant of the channels.
ChannelsInv ==
  /\ ChannelTypes /\ RequestStages /\ LockHolders /\ NewsAlone /\ EndsApart
  /\ ChannelNames /\ ShutdownStages /\ BoundIsInstalled
  /\ Mcp!ChannelsAccountedFor /\ Mcp!EndedSessionHoldsNone

\* The kinds of requests are known everywhere below.
USE DEF Mcp!Requests, Mcp!Channels

\* session/load arrives, and is granted the prompt lock or refused.
LEMMA LoadKeeps ==
  ASSUME Mcp!McpConstants, ChannelsInv, NEW s \in McpIds, NEW l \in McpLoads, Mcp!Load(l, s),
         UNCHANGED <<live, channelOf, stopping, mcpClosing, bound, awaited, shutdown,
                     cancelled, released>>
  PROVE  ChannelsInv'
<1>1. ChannelTypes'
  BY DEF ChannelsInv, ChannelTypes, Mcp!Load, Mcp!Arrives, Mcp!Ends_, Mcp!TakesPromptLock
<1>2. RequestStages'
  BY DEF Mcp!McpConstants, ChannelsInv, ChannelTypes, RequestStages, Mcp!Load, Mcp!Arrives,
     Mcp!Ends_
<1>3. LockHolders'
  BY DEF Mcp!McpConstants, ChannelsInv, ChannelTypes, LockHolders, Mcp!Load, Mcp!Arrives,
     Mcp!Ends_, Mcp!TakesPromptLock
<1>4. NewsAlone'
  BY DEF ChannelsInv, ChannelTypes, RequestStages, NewsAlone, Mcp!Load, Mcp!Arrives, Mcp!Ends_,
     Mcp!InCreation
<1>5. EndsApart'
  BY DEF ChannelsInv, ChannelTypes, EndsApart, Mcp!Load, Mcp!Arrives, Mcp!Ends_
<1>6. ChannelNames'
  BY DEF ChannelsInv, ChannelTypes, ChannelNames, Mcp!ChannelsAccountedFor, Mcp!BeingStopped,
     Mcp!Load, Mcp!Arrives, Mcp!Ends_
<1>7. ShutdownStages'
  BY DEF ChannelsInv, ChannelTypes, ShutdownStages, Mcp!Load, Mcp!Arrives, Mcp!Ends_
<1>8. BoundIsInstalled'
  BY DEF ChannelsInv, ChannelTypes, BoundIsInstalled, Mcp!Load, Mcp!Arrives, Mcp!Ends_
<1>9. Mcp!ChannelsAccountedFor'
  BY DEF ChannelsInv, Mcp!ChannelsAccountedFor, Mcp!BeingStopped
<1>10. Mcp!EndedSessionHoldsNone'
  BY DEF ChannelsInv, Mcp!EndedSessionHoldsNone, Mcp!Load
<1> QED
  BY <1>1, <1>2, <1>3, <1>4, <1>5, <1>6, <1>7, <1>8, <1>9, <1>10 DEF ChannelsInv

\* session/new names an id nobody has used.
LEMMA NewKeeps ==
  ASSUME Mcp!McpConstants, ChannelsInv, NEW s \in McpIds, NEW n \in McpNews, Mcp!New(n, s),
         UNCHANGED <<live, channelOf, stopping, mcpClosing, bound, awaited, shutdown,
                     cancelled, released>>
  PROVE  ChannelsInv'
<1>1. ChannelTypes'
  BY DEF ChannelsInv, ChannelTypes, Mcp!New, Mcp!Arrives
<1>2. RequestStages'
  BY DEF Mcp!McpConstants, ChannelsInv, ChannelTypes, RequestStages, Mcp!New, Mcp!Arrives
<1>3. LockHolders'
  BY DEF Mcp!McpConstants, ChannelsInv, LockHolders, Mcp!New, Mcp!Arrives
<1>4. NewsAlone'
  BY DEF ChannelsInv, ChannelTypes, RequestStages, NewsAlone, Mcp!New, Mcp!Arrives,
     Mcp!InCreation
<1>5. EndsApart'
  BY DEF ChannelsInv, ChannelTypes, EndsApart, Mcp!New, Mcp!Arrives
<1>6. ChannelNames'
  BY DEF ChannelsInv, ChannelNames, Mcp!ChannelsAccountedFor, Mcp!BeingStopped, Mcp!New,
     Mcp!Arrives
<1>7. ShutdownStages'
  BY DEF ChannelsInv, ShutdownStages, Mcp!New, Mcp!Arrives
<1>8. BoundIsInstalled'
  BY DEF ChannelsInv, BoundIsInstalled, Mcp!New, Mcp!Arrives
<1>9. Mcp!ChannelsAccountedFor'
  BY DEF ChannelsInv, Mcp!ChannelsAccountedFor, Mcp!BeingStopped
<1>10. Mcp!EndedSessionHoldsNone'
  BY DEF ChannelsInv, Mcp!EndedSessionHoldsNone, Mcp!New
<1> QED
  BY <1>1, <1>2, <1>3, <1>4, <1>5, <1>6, <1>7, <1>8, <1>9, <1>10 DEF ChannelsInv

\* A failed connecting installs nothing; a session/new takes its session back.
LEMMA ConnectFailsKeeps ==
  ASSUME Mcp!McpConstants, ChannelsInv, NEW q \in Mcp!Channels, Mcp!ConnectFails(q),
         UNCHANGED <<mcpClosing, bound, awaited, shutdown, cancelled, released>>
  PROVE  ChannelsInv'
<1>1. ChannelTypes'
  BY DEF ChannelsInv, ChannelTypes, Mcp!ConnectFails, Mcp!Ends_, Mcp!Released
<1>2. RequestStages'
  BY DEF ChannelsInv, RequestStages, Mcp!ConnectFails, Mcp!Ends_
<1>3. LockHolders'
  BY DEF ChannelsInv, ChannelTypes, LockHolders, Mcp!ConnectFails, Mcp!Ends_, Mcp!Released
<1>4. NewsAlone'
  BY DEF ChannelsInv, NewsAlone, Mcp!ConnectFails, Mcp!Ends_
<1>5. EndsApart'
  BY DEF ChannelsInv, EndsApart, Mcp!ConnectFails, Mcp!Ends_
<1>6. ChannelNames'
  BY DEF ChannelsInv, ChannelNames, Mcp!BeingStopped, Mcp!ConnectFails, Mcp!Ends_
<1>7. ShutdownStages'
  BY DEF ChannelsInv, ShutdownStages, Mcp!ConnectFails, Mcp!Ends_
<1>8. BoundIsInstalled'
  BY DEF ChannelsInv, BoundIsInstalled, Mcp!ConnectFails, Mcp!Ends_
<1>9. Mcp!ChannelsAccountedFor'
  BY DEF ChannelsInv, Mcp!ChannelsAccountedFor, Mcp!BeingStopped, Mcp!ConnectFails
<1>10. Mcp!EndedSessionHoldsNone'
  BY DEF ChannelsInv, ChannelTypes, NewsAlone, ChannelNames, Mcp!ChannelsAccountedFor,
     Mcp!EndedSessionHoldsNone, Mcp!ConnectFails
<1> QED
  BY <1>1, <1>2, <1>3, <1>4, <1>5, <1>6, <1>7, <1>8, <1>9, <1>10 DEF ChannelsInv

\* A channel is installed, or stopped at once when its session or the server has ended; the
\* one it replaces is used by no turn.
LEMMA ConnectedKeeps ==
  ASSUME Mcp!McpConstants, ChannelsInv, NEW q \in Mcp!Channels, Mcp!Connected(q),
         UNCHANGED <<mcpClosing, bound, awaited, shutdown, cancelled, released>>
  PROVE  ChannelsInv'
<1>1. ChannelTypes'
  BY DEF ChannelsInv, ChannelTypes, Mcp!Connected, Mcp!Ends_, Mcp!Released, Mcp!StopThenEnd,
     Mcp!SessionEnded
<1>2. RequestStages'
  BY DEF ChannelsInv, ChannelTypes, RequestStages, Mcp!Connected, Mcp!Ends_, Mcp!StopThenEnd
<1>3. LockHolders'
  BY DEF ChannelsInv, ChannelTypes, LockHolders, Mcp!Connected, Mcp!Ends_, Mcp!Released,
     Mcp!StopThenEnd
<1>4. NewsAlone'
  BY DEF ChannelsInv, ChannelTypes, NewsAlone, Mcp!Connected, Mcp!Ends_, Mcp!StopThenEnd
<1>5. EndsApart'
  BY DEF ChannelsInv, ChannelTypes, RequestStages, EndsApart, Mcp!Connected, Mcp!Ends_,
     Mcp!StopThenEnd, Mcp!SessionEnded
<1>6. ChannelNames'
  BY DEF ChannelsInv, ChannelTypes, ChannelNames, Mcp!ChannelsAccountedFor, Mcp!BeingStopped,
     Mcp!Connected, Mcp!Ends_, Mcp!StopThenEnd, Mcp!SessionEnded
<1>7. ShutdownStages'
  BY DEF ChannelsInv, ShutdownStages, Mcp!Connected
<1>8. BoundIsInstalled'
  BY DEF ChannelsInv, ChannelTypes, RequestStages, LockHolders, NewsAlone, BoundIsInstalled,
     Mcp!Connected, Mcp!Ends_, Mcp!StopThenEnd
<1>9. Mcp!ChannelsAccountedFor'
  BY DEF ChannelsInv, ChannelTypes, RequestStages, LockHolders, NewsAlone, ChannelNames,
     Mcp!ChannelsAccountedFor, Mcp!BeingStopped, Mcp!Connected, Mcp!StopThenEnd
<1>10. Mcp!EndedSessionHoldsNone'
  BY DEF ChannelsInv, ChannelTypes, Mcp!EndedSessionHoldsNone, Mcp!Connected, Mcp!SessionEnded
<1> QED
  BY <1>1, <1>2, <1>3, <1>4, <1>5, <1>6, <1>7, <1>8, <1>9, <1>10 DEF ChannelsInv

\* The stop of a replaced channel ends.
LEMMA StopEndsKeeps ==
  ASSUME Mcp!McpConstants, ChannelsInv, NEW q \in Mcp!Channels, Mcp!StopEnds(q),
         UNCHANGED <<mcpClosing, bound, awaited, shutdown, cancelled, released>>
  PROVE  ChannelsInv'
<1>1. ChannelTypes'
  BY DEF ChannelsInv, ChannelTypes, Mcp!StopEnds, Mcp!Ends_, Mcp!Released
<1>2. RequestStages'
  BY DEF ChannelsInv, ChannelTypes, RequestStages, Mcp!StopEnds, Mcp!Ends_
<1>3. LockHolders'
  BY DEF ChannelsInv, ChannelTypes, LockHolders, Mcp!StopEnds, Mcp!Ends_, Mcp!Released
<1>4. NewsAlone'
  BY DEF ChannelsInv, NewsAlone, Mcp!StopEnds, Mcp!Ends_
<1>5. EndsApart'
  BY DEF ChannelsInv, EndsApart, Mcp!StopEnds, Mcp!Ends_
<1>6. ChannelNames'
  BY DEF ChannelsInv, RequestStages, ChannelNames, Mcp!BeingStopped, Mcp!StopEnds, Mcp!Ends_
<1>7. ShutdownStages'
  BY DEF ChannelsInv, ShutdownStages, Mcp!StopEnds, Mcp!Ends_
<1>8. BoundIsInstalled'
  BY DEF ChannelsInv, BoundIsInstalled, Mcp!StopEnds, Mcp!Ends_
<1>9. Mcp!ChannelsAccountedFor'
  BY DEF ChannelsInv, Mcp!ChannelsAccountedFor, Mcp!BeingStopped, Mcp!StopEnds
<1>10. Mcp!EndedSessionHoldsNone'
  BY DEF ChannelsInv, ChannelTypes, NewsAlone, ChannelNames, Mcp!ChannelsAccountedFor,
     Mcp!EndedSessionHoldsNone, Mcp!BeingStopped, Mcp!StopEnds
<1> QED
  BY <1>1, <1>2, <1>3, <1>4, <1>5, <1>6, <1>7, <1>8, <1>9, <1>10 DEF ChannelsInv

\* A turn queues for the prompt lock.
LEMMA PromptArrivesKeeps ==
  ASSUME Mcp!McpConstants, ChannelsInv, NEW p \in McpPrompts, NEW s \in McpIds, Mcp!PromptArrives(p, s),
         UNCHANGED <<mcpClosing, live, channelOf, stopping, awaited, shutdown, cancelled,
                     released>>
  PROVE  ChannelsInv'
<1>1. ChannelTypes'
  BY DEF ChannelsInv, ChannelTypes, Mcp!PromptArrives, Mcp!Arrives
<1>2. RequestStages'
  BY DEF Mcp!McpConstants, ChannelsInv, ChannelTypes, RequestStages, Mcp!PromptArrives,
     Mcp!Arrives
<1>3. LockHolders'
  BY DEF ChannelsInv, LockHolders, Mcp!PromptArrives, Mcp!Arrives
<1>4. NewsAlone'
  BY DEF ChannelsInv, NewsAlone, Mcp!PromptArrives, Mcp!Arrives, Mcp!InCreation
<1>5. EndsApart'
  BY DEF ChannelsInv, RequestStages, EndsApart, Mcp!PromptArrives, Mcp!Arrives
<1>6. ChannelNames'
  BY DEF ChannelsInv, ChannelTypes, ChannelNames, Mcp!ChannelsAccountedFor, Mcp!BeingStopped,
     Mcp!PromptArrives, Mcp!Arrives
<1>7. ShutdownStages'
  BY DEF ChannelsInv, ShutdownStages, Mcp!PromptArrives, Mcp!Arrives
<1>8. BoundIsInstalled'
  BY DEF ChannelsInv, BoundIsInstalled, Mcp!PromptArrives, Mcp!Arrives
<1>9. Mcp!ChannelsAccountedFor'
  BY DEF ChannelsInv, Mcp!ChannelsAccountedFor, Mcp!BeingStopped
<1>10. Mcp!EndedSessionHoldsNone'
  BY DEF ChannelsInv, Mcp!EndedSessionHoldsNone, Mcp!PromptArrives
<1> QED
  BY <1>1, <1>2, <1>3, <1>4, <1>5, <1>6, <1>7, <1>8, <1>9, <1>10 DEF ChannelsInv

\* A turn starts with the channel its session has then.
LEMMA TurnStartsKeeps ==
  ASSUME Mcp!McpConstants, ChannelsInv, NEW p \in McpPrompts, Mcp!TurnStarts(p),
         UNCHANGED <<mcpClosing, live, channelOf, stopping, awaited, shutdown, cancelled,
                     released>>
  PROVE  ChannelsInv'
<1>1. ChannelTypes'
  BY DEF ChannelsInv, ChannelTypes, Mcp!TurnStarts, Mcp!Ends_
<1>2. RequestStages'
  BY DEF ChannelsInv, ChannelTypes, RequestStages, Mcp!TurnStarts, Mcp!Ends_
<1>3. LockHolders'
  BY DEF Mcp!McpConstants, ChannelsInv, ChannelTypes, LockHolders, Mcp!TurnStarts, Mcp!Ends_
<1>4. NewsAlone'
  BY DEF ChannelsInv, ChannelTypes, NewsAlone, Mcp!TurnStarts, Mcp!Ends_
<1>5. EndsApart'
  BY DEF ChannelsInv, ChannelTypes, EndsApart, Mcp!TurnStarts, Mcp!Ends_
<1>6. ChannelNames'
  BY DEF ChannelsInv, ChannelTypes, ChannelNames, Mcp!BeingStopped, Mcp!TurnStarts, Mcp!Ends_
<1>7. ShutdownStages'
  BY DEF ChannelsInv, ChannelTypes, ShutdownStages, Mcp!TurnStarts, Mcp!Ends_
<1>8. BoundIsInstalled'
  BY DEF ChannelsInv, ChannelTypes, BoundIsInstalled, Mcp!TurnStarts, Mcp!Ends_
<1>9. Mcp!ChannelsAccountedFor'
  BY DEF ChannelsInv, Mcp!ChannelsAccountedFor, Mcp!BeingStopped
<1>10. Mcp!EndedSessionHoldsNone'
  BY DEF ChannelsInv, Mcp!EndedSessionHoldsNone, Mcp!TurnStarts
<1> QED
  BY <1>1, <1>2, <1>3, <1>4, <1>5, <1>6, <1>7, <1>8, <1>9, <1>10 DEF ChannelsInv

\* A turn ends or is cancelled.
LEMMA TurnEndsKeeps ==
  ASSUME Mcp!McpConstants, ChannelsInv, NEW p \in McpPrompts, Mcp!TurnEnds(p),
         UNCHANGED <<mcpClosing, live, channelOf, stopping, awaited, shutdown, cancelled,
                     released>>
  PROVE  ChannelsInv'
<1>1. ChannelTypes'
  BY DEF ChannelsInv, ChannelTypes, Mcp!TurnEnds, Mcp!Ends_, Mcp!Released
<1>2. RequestStages'
  BY DEF ChannelsInv, RequestStages, Mcp!TurnEnds, Mcp!Ends_
<1>3. LockHolders'
  BY DEF ChannelsInv, ChannelTypes, LockHolders, Mcp!TurnEnds, Mcp!Ends_, Mcp!Released
<1>4. NewsAlone'
  BY DEF ChannelsInv, NewsAlone, Mcp!TurnEnds, Mcp!Ends_
<1>5. EndsApart'
  BY DEF ChannelsInv, EndsApart, Mcp!TurnEnds, Mcp!Ends_
<1>6. ChannelNames'
  BY DEF ChannelsInv, ChannelNames, Mcp!BeingStopped, Mcp!TurnEnds, Mcp!Ends_
<1>7. ShutdownStages'
  BY DEF ChannelsInv, ShutdownStages, Mcp!TurnEnds, Mcp!Ends_
<1>8. BoundIsInstalled'
  BY DEF ChannelsInv, ChannelTypes, BoundIsInstalled, Mcp!TurnEnds, Mcp!Ends_
<1>9. Mcp!ChannelsAccountedFor'
  BY DEF ChannelsInv, Mcp!ChannelsAccountedFor, Mcp!BeingStopped
<1>10. Mcp!EndedSessionHoldsNone'
  BY DEF ChannelsInv, Mcp!EndedSessionHoldsNone, Mcp!TurnEnds
<1> QED
  BY <1>1, <1>2, <1>3, <1>4, <1>5, <1>6, <1>7, <1>8, <1>9, <1>10 DEF ChannelsInv

\* A close or deletion forgets the session and collects its turns.
LEMMA EndBeginsKeepsChannels ==
  ASSUME Mcp!McpConstants, ChannelsInv, NEW e \in McpEnds, NEW s \in McpIds, Mcp!EndBegins(e, s),
         UNCHANGED <<lock, bound, shutdown, cancelled, released>>
  PROVE  ChannelsInv'
<1>1. ChannelTypes'
  BY DEF ChannelsInv, ChannelTypes, Mcp!EndBegins, Mcp!LiveTurns, Mcp!Arrives
<1>2. RequestStages'
  BY DEF Mcp!McpConstants, ChannelsInv, ChannelTypes, RequestStages, Mcp!EndBegins, Mcp!Arrives
<1>3. LockHolders'
  BY DEF ChannelsInv, LockHolders, Mcp!EndBegins, Mcp!Arrives
<1>4. NewsAlone'
  BY DEF ChannelsInv, NewsAlone, Mcp!EndBegins, Mcp!Arrives, Mcp!InCreation
<1>5. EndsApart'
  BY DEF ChannelsInv, ChannelTypes, EndsApart, Mcp!EndBegins, Mcp!LiveTurns, Mcp!Arrives
<1>6. ChannelNames'
  BY DEF ChannelsInv, ChannelTypes, ChannelNames, Mcp!ChannelsAccountedFor, Mcp!BeingStopped,
     Mcp!EndBegins, Mcp!Arrives
<1>7. ShutdownStages'
  BY DEF ChannelsInv, ShutdownStages, Mcp!EndBegins, Mcp!Arrives
<1>8. BoundIsInstalled'
  BY DEF ChannelsInv, BoundIsInstalled, Mcp!EndBegins, Mcp!Arrives
<1>9. Mcp!ChannelsAccountedFor'
  BY DEF ChannelsInv, Mcp!ChannelsAccountedFor, Mcp!BeingStopped, Mcp!EndBegins
<1>10. Mcp!EndedSessionHoldsNone'
  BY DEF ChannelsInv, Mcp!EndedSessionHoldsNone, Mcp!EndBegins
<1> QED
  BY <1>1, <1>2, <1>3, <1>4, <1>5, <1>6, <1>7, <1>8, <1>9, <1>10 DEF ChannelsInv

\* It takes the channel away when they have ended.
LEMMA EndGatheredKeeps ==
  ASSUME Mcp!McpConstants, ChannelsInv, NEW e \in McpEnds, Mcp!EndGathered(e),
         UNCHANGED <<lock, bound, shutdown, cancelled, released>>
  PROVE  ChannelsInv'
<1>1. ChannelTypes'
  BY DEF ChannelsInv, ChannelTypes, EndsApart, Mcp!EndGathered
<1>2. RequestStages'
  BY DEF ChannelsInv, ChannelTypes, RequestStages, Mcp!EndGathered
<1>3. LockHolders'
  BY DEF ChannelsInv, RequestStages, LockHolders, Mcp!EndGathered
<1>4. NewsAlone'
  BY DEF ChannelsInv, RequestStages, NewsAlone, Mcp!EndGathered
<1>5. EndsApart'
  BY DEF ChannelsInv, ChannelTypes, EndsApart, Mcp!EndGathered
<1>6. ChannelNames'
  BY DEF ChannelsInv, ChannelTypes, RequestStages, ChannelNames, Mcp!ChannelsAccountedFor,
     Mcp!BeingStopped, Mcp!EndGathered
<1>7. ShutdownStages'
  BY DEF ChannelsInv, ShutdownStages, Mcp!EndGathered
<1>8. BoundIsInstalled'
  BY DEF ChannelsInv, EndsApart, BoundIsInstalled, Mcp!EndGathered, Mcp!TurnsEnded
<1>9. Mcp!ChannelsAccountedFor'
  BY DEF ChannelsInv, ChannelTypes, RequestStages, ChannelNames, Mcp!ChannelsAccountedFor,
     Mcp!BeingStopped, Mcp!EndGathered
<1>10. Mcp!EndedSessionHoldsNone'
  BY DEF ChannelsInv, Mcp!EndedSessionHoldsNone, Mcp!EndGathered
<1> QED
  BY <1>1, <1>2, <1>3, <1>4, <1>5, <1>6, <1>7, <1>8, <1>9, <1>10 DEF ChannelsInv

\* It ends; a deletion that fails gives the session back, without a channel.
LEMMA EndEndsKeepsChannels ==
  ASSUME Mcp!McpConstants, ChannelsInv, NEW e \in McpEnds, Mcp!EndEnds(e),
         UNCHANGED <<lock, bound, shutdown, cancelled, released>>
  PROVE  ChannelsInv'
<1>1. ChannelTypes'
  BY DEF ChannelsInv, ChannelTypes, EndsApart, Mcp!EndEnds, Mcp!Ends_
<1>2. RequestStages'
  BY DEF ChannelsInv, ChannelTypes, RequestStages, Mcp!EndEnds, Mcp!Ends_
<1>3. LockHolders'
  BY DEF Mcp!McpConstants, ChannelsInv, ChannelTypes, LockHolders, Mcp!EndEnds, Mcp!Ends_
<1>4. NewsAlone'
  BY DEF ChannelsInv, NewsAlone, Mcp!EndEnds, Mcp!Ends_
<1>5. EndsApart'
  BY DEF ChannelsInv, ChannelTypes, EndsApart, Mcp!EndEnds, Mcp!Ends_
<1>6. ChannelNames'
  BY DEF ChannelsInv, RequestStages, ChannelNames, Mcp!BeingStopped, Mcp!EndEnds, Mcp!Ends_
<1>7. ShutdownStages'
  BY DEF ChannelsInv, ShutdownStages, Mcp!EndEnds, Mcp!Ends_
<1>8. BoundIsInstalled'
  BY DEF ChannelsInv, BoundIsInstalled, Mcp!EndEnds, Mcp!Ends_
<1>9. Mcp!ChannelsAccountedFor'
  BY DEF ChannelsInv, Mcp!ChannelsAccountedFor, Mcp!BeingStopped, Mcp!EndEnds
<1>10. Mcp!EndedSessionHoldsNone'
  BY DEF ChannelsInv, EndsApart, Mcp!EndedSessionHoldsNone, Mcp!EndEnds
<1> QED
  BY <1>1, <1>2, <1>3, <1>4, <1>5, <1>6, <1>7, <1>8, <1>9, <1>10 DEF ChannelsInv

\* The shutdown cancels turns and connecting tasks,
LEMMA ShutdownBeginsKeeps ==
  ASSUME Mcp!McpConstants, ChannelsInv, Mcp!ShutdownBegins,
         UNCHANGED <<open, mcpClosing, mcpUsed, at, id, lock, bound, stopping, awaited>>
  PROVE  ChannelsInv'
<1>1. ChannelTypes'
  BY DEF ChannelsInv, ChannelTypes, Mcp!ShutdownBegins, Mcp!TasksCancelled
<1>2. RequestStages'
  BY DEF ChannelsInv, RequestStages
<1>3. LockHolders'
  BY DEF ChannelsInv, LockHolders
<1>4. NewsAlone'
  BY DEF ChannelsInv, NewsAlone
<1>5. EndsApart'
  BY DEF ChannelsInv, EndsApart, Mcp!ShutdownBegins
<1>6. ChannelNames'
  BY DEF ChannelsInv, ChannelNames, Mcp!BeingStopped, Mcp!ShutdownBegins
<1>7. ShutdownStages'
  BY DEF ChannelsInv, ShutdownStages, Mcp!ShutdownBegins, Mcp!TasksCancelled
<1>8. BoundIsInstalled'
  BY DEF ChannelsInv, BoundIsInstalled, Mcp!ShutdownBegins
<1>9. Mcp!ChannelsAccountedFor'
  BY DEF ChannelsInv, Mcp!ChannelsAccountedFor, Mcp!BeingStopped, Mcp!ShutdownBegins
<1>10. Mcp!EndedSessionHoldsNone'
  BY DEF ChannelsInv, Mcp!EndedSessionHoldsNone, Mcp!ShutdownBegins
<1> QED
  BY <1>1, <1>2, <1>3, <1>4, <1>5, <1>6, <1>7, <1>8, <1>9, <1>10 DEF ChannelsInv

\* takes away what is installed once they have ended,
LEMMA ShutdownGathersKeeps ==
  ASSUME Mcp!McpConstants, ChannelsInv, Mcp!ShutdownGathers,
         UNCHANGED <<open, mcpClosing, mcpUsed, at, id, lock, bound, stopping, awaited>>
  PROVE  ChannelsInv'
<1>1. ChannelTypes'
  BY DEF ChannelsInv, ChannelTypes, Mcp!ShutdownGathers
<1>2. RequestStages'
  BY DEF ChannelsInv, RequestStages
<1>3. LockHolders'
  BY DEF ChannelsInv, LockHolders
<1>4. NewsAlone'
  BY DEF ChannelsInv, NewsAlone
<1>5. EndsApart'
  BY DEF ChannelsInv, ChannelTypes, EndsApart, Mcp!ShutdownGathers
<1>6. ChannelNames'
  BY DEF ChannelsInv, ChannelNames, Mcp!ChannelsAccountedFor, Mcp!BeingStopped,
     Mcp!ShutdownGathers
<1>7. ShutdownStages'
  BY DEF ChannelsInv, ShutdownStages, Mcp!ShutdownGathers
<1>8. BoundIsInstalled'
  BY DEF ChannelsInv, ShutdownStages, BoundIsInstalled, Mcp!ShutdownGathers
<1>9. Mcp!ChannelsAccountedFor'
  BY DEF ChannelsInv, ShutdownStages, Mcp!ChannelsAccountedFor, Mcp!BeingStopped,
     Mcp!ShutdownGathers
<1>10. Mcp!EndedSessionHoldsNone'
  BY DEF Mcp!EndedSessionHoldsNone, Mcp!ShutdownGathers
<1> QED
  BY <1>1, <1>2, <1>3, <1>4, <1>5, <1>6, <1>7, <1>8, <1>9, <1>10 DEF ChannelsInv

\* and stops it.
LEMMA ShutdownEndsKeeps ==
  ASSUME Mcp!McpConstants, ChannelsInv, Mcp!ShutdownEnds,
         UNCHANGED <<open, mcpClosing, mcpUsed, at, id, lock, bound, stopping, awaited>>
  PROVE  ChannelsInv'
<1>1. ChannelTypes'
  BY DEF ChannelsInv, ChannelTypes, Mcp!ShutdownEnds
<1>2. RequestStages'
  BY DEF ChannelsInv, RequestStages
<1>3. LockHolders'
  BY DEF ChannelsInv, LockHolders
<1>4. NewsAlone'
  BY DEF ChannelsInv, NewsAlone
<1>5. EndsApart'
  BY DEF ChannelsInv, EndsApart, Mcp!ShutdownEnds
<1>6. ChannelNames'
  BY DEF ChannelsInv, ChannelNames, Mcp!BeingStopped, Mcp!ShutdownEnds
<1>7. ShutdownStages'
  BY DEF ChannelsInv, ShutdownStages, Mcp!ShutdownEnds
<1>8. BoundIsInstalled'
  BY DEF ChannelsInv, BoundIsInstalled, Mcp!ShutdownEnds
<1>9. Mcp!ChannelsAccountedFor'
  BY DEF ChannelsInv, Mcp!ChannelsAccountedFor, Mcp!BeingStopped, Mcp!ShutdownEnds
<1>10. Mcp!EndedSessionHoldsNone'
  BY DEF ChannelsInv, Mcp!EndedSessionHoldsNone, Mcp!ShutdownEnds
<1> QED
  BY <1>1, <1>2, <1>3, <1>4, <1>5, <1>6, <1>7, <1>8, <1>9, <1>10 DEF ChannelsInv

\* Every step of the requests and of the shutdown keeps the invariant.
LEMMA ChannelsKept ==
  ASSUME Mcp!McpConstants, ChannelsInv, [Mcp!Next]_mcpVars PROVE ChannelsInv'
<1>1. CASE Mcp!Replaces
  BY <1>1, LoadKeeps, NewKeeps, ConnectFailsKeeps, ConnectedKeeps, StopEndsKeeps
  DEF Mcp!Replaces
<1>2. CASE Mcp!Turns
  BY <1>2, PromptArrivesKeeps, TurnStartsKeeps, TurnEndsKeeps DEF Mcp!Turns
<1>3. CASE Mcp!Closes
  BY <1>3, EndBeginsKeepsChannels, EndGatheredKeeps, EndEndsKeepsChannels DEF Mcp!Closes
<1>4. CASE Mcp!ShutsDown
  BY <1>4, ShutdownBeginsKeeps, ShutdownGathersKeeps, ShutdownEndsKeeps DEF Mcp!ShutsDown
<1>5. CASE UNCHANGED mcpVars
  BY <1>5
  DEF mcpVars, ChannelsInv, ChannelTypes, RequestStages, LockHolders, NewsAlone, EndsApart,
      ChannelNames, ShutdownStages, BoundIsInstalled, Mcp!ChannelsAccountedFor,
      Mcp!EndedSessionHoldsNone, Mcp!BeingStopped
<1> QED
  BY <1>1, <1>2, <1>3, <1>4, <1>5 DEF Mcp!Next, Mcp!Rest, Mcp!vars, mcpVars

\* What it says of the channels.
LEMMA ChannelsAreAccountedFor ==
  ASSUME ChannelsInv PROVE ChannelsAccountedFor
<1>1. Mcp!TurnKeepsChannel
  BY DEF ChannelsInv, ChannelTypes, RequestStages, BoundIsInstalled, Mcp!ChannelsAccountedFor,
         Mcp!TurnKeepsChannel
<1>2. Mcp!ShutdownReleasesAll
  BY McpKinds
  DEF ChannelsInv, ChannelTypes, ShutdownStages, Mcp!ChannelsAccountedFor, Mcp!McpConstants,
      Mcp!ShutdownReleasesAll, Mcp!BeingStopped
<1> QED
  BY <1>1, <1>2 DEF ChannelsInv, ChannelsAccountedFor

\* No MCP connection leaks, and none is stopped under a turn that uses it, whichever of
\* session/new, session/load, prompts, closes, deletions and the shutdown race:
\* _replace_session_mcp, _execute_prompt, _end_session and shutdown of agent.py.
THEOREM ChannelsDoNotLeak == Mcp!Spec => []ChannelsAccountedFor
<1>1. Mcp!Init => ChannelsInv
  BY McpKinds
  DEF Mcp!Init, Mcp!McpConstants, ChannelsInv, ChannelTypes, RequestStages, LockHolders,
      NewsAlone, EndsApart, ChannelNames, ShutdownStages, BoundIsInstalled,
      Mcp!ChannelsAccountedFor, Mcp!EndedSessionHoldsNone, Mcp!BeingStopped
<1>2. ChannelsInv /\ [Mcp!Next]_Mcp!vars => ChannelsInv'
  BY ChannelsKept, McpKinds DEF Mcp!vars, mcpVars
<1> QED
  BY <1>1, <1>2, ChannelsAreAccountedFor, PTL DEF Mcp!Spec
=============================================================================
