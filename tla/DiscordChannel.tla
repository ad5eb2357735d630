--------------------------- MODULE DiscordChannel ---------------------------
(***************************************************************************)
(* DiscordChannel (bub-discord, channel.py).  discord.py runs a handler    *)
(* per message; a reply refers to the latest message of its session and    *)
(* goes out in chunks.                                                     *)
(*                                                                         *)
(* A message is its channel, whether it is admitted (no bot, not blank, an *)
(* allowed channel and user), and whether the bot is meant.  A text is a   *)
(* sequence of "x", " " and "\n".                                          *)
(***************************************************************************)
EXTENDS Naturals, Sequences

CONSTANTS
  Messages,   \* numbers, in the order the handlers run
  Sends,
  Chats,
  Limit,      \* of a chunk
  MaxLength   \* of a text that is sent

\* No message is 0, which stands for none.
DiscordConstants ==
  Limit \in Nat \ {0} /\ MaxLength \in Nat /\ Messages \subseteq Nat \ {0}

VARIABLES
  up,        \* is there a bot?
  stopped,
  chat, taken,  \* of a message: its channel, and what became of it
  latest,    \* _latest_message_by_session
  send       \* of a reply: where it stands, its channel, reference and chunks

vars == <<up, stopped, chat, taken, latest, send>>

-----------------------------------------------------------------------------
(* _chunk_message *)

Blank == {" ", "\n"}

\* Is what remains of a text, from a place on, one chunk?
Fits(t, b) == Len(t) - b < Limit

\* rfind: how much goes into the chunk that begins there: up to the last line break in
\* the limit, unless it begins with that.
SplitAt(t, b) ==
  LET breaks == {i \in 1 .. Limit - 1 : t[b + i] = "\n"}
  IN IF breaks = {} THEN Limit ELSE CHOOSE i \in breaks : \A k \in breaks : k <= i

\* rstrip: where that chunk ends.
RStrip(t, b) ==
  CHOOSE e \in b - 1 .. b + SplitAt(t, b) - 1 :
    /\ e >= b => t[e] \notin Blank
    /\ \A k \in e + 1 .. b + SplitAt(t, b) - 1 : t[k] \in Blank

\* lstrip("\n"): where the next one begins.
LStripLines(t, p) ==
  CHOOSE q \in p .. Len(t) + 1 :
    /\ q <= Len(t) => t[q] # "\n"
    /\ \A k \in p .. q - 1 : t[k] = "\n"

\* Where the chunk after that begins, if there is one,
NextBegin(t, b) == IF Fits(t, b) THEN b ELSE LStripLines(t, b + SplitAt(t, b))

\* and where all of them do, one after another.
Begins(t) ==
  LET begins[n \in Nat] == IF n = 0 THEN 1 ELSE NextBegin(t, begins[n - 1])
  IN begins

\* The chunks, each by the places it goes from and up to.
Chunks(t) ==
  LET last == CHOOSE n \in 0 .. Len(t) :
                Fits(t, Begins(t)[n]) /\ \A k \in 0 .. n - 1 : ~Fits(t, Begins(t)[k])
  IN [i \in 1 .. last + 1 |->
        [from |-> Begins(t)[i - 1],
         upto |-> IF i = last + 1 THEN Len(t) ELSE RStrip(t, Begins(t)[i - 1])]]

\* Those that are sent: a text that fits is, another's chunks unless they are empty.
Kept(cs) == {i \in DOMAIN cs : Len(cs) = 1 \/ cs[i].from <= cs[i].upto}

Texts == UNION {[1..n -> {"x"} \cup Blank] : n \in 0..MaxLength}

-----------------------------------------------------------------------------
Init ==
  /\ up = FALSE /\ stopped = FALSE
  /\ chat = [m \in Messages |-> "none"] /\ taken = [m \in Messages |-> "due"]
  /\ latest = [c \in Chats |-> 0]
  /\ send = [r \in Sends |-> [at |-> "idle", chat |-> "none", to |-> 0, text |-> <<>>,
                           chunks |-> <<>>, left |-> {}, sent |-> <<>>]]

\* _main_loop, once there is a bot; stop cancels it, and there is none.
Connects == ~up /\ ~stopped /\ up' = TRUE /\ UNCHANGED <<stopped, chat, taken, latest, send>>
Stops == ~stopped /\ stopped' = TRUE /\ up' = FALSE /\ UNCHANGED <<chat, taken, latest, send>>

\* _on_message and _build_message: a command is always for the bot, another message
\* if it is_mentioned; either is handed over, and is the one to refer to.
Takes(m) ==
  /\ up /\ taken[m] = "due" /\ \A n \in Messages : n < m => taken[n] # "due"
  /\ \E c \in Chats, how \in {"command", "active", "passive", "refused"} :
       /\ chat' = [chat EXCEPT ![m] = c] /\ taken' = [taken EXCEPT ![m] = how]
       /\ latest' = IF how = "refused" THEN latest ELSE [latest EXCEPT ![c] = m]
  /\ UNCHANGED <<up, stopped, send>>

\* send, up to the channel: _resolve_channel asks Discord for one it does not know.
Resolves(r) ==
  /\ send[r].at = "idle"
  /\ \E c \in {d \in Chats : latest[d] # 0} :
       send' = [send EXCEPT ![r].chat = c, ![r].at = IF up THEN "resolve" ELSE "dropped"]
  /\ UNCHANGED <<up, stopped, chat, taken, latest>>

\* The channel is there, or not: the reference and the chunks.
Splits(r) ==
  /\ send[r].at = "resolve"
  /\ \/ \E t \in Texts :
          send' = [send EXCEPT ![r].at = "send", ![r].to = latest[send[r].chat],
                               ![r].text = t, ![r].chunks = Chunks(t),
                               ![r].left = Kept(Chunks(t))]
     \/ send' = [send EXCEPT ![r].at = "dropped"]
  /\ UNCHANGED <<up, stopped, chat, taken, latest>>

\* mutant: the latest message, chunk by chunk.
ReferenceNow(r) == latest[send[r].chat]

Reference(r) == send[r].to

\* The next chunk; one that Discord refuses ends the reply.
SendsChunk(r) ==
  /\ send[r].at = "send"
  /\ \E i \in send[r].left :
       /\ \A k \in send[r].left : i <= k
       /\ \/ send' = [send EXCEPT ![r].left = @ \ {i},
                       ![r].sent = Append(@, [to |-> Reference(r), chunk |-> i])]
          \/ send' = [send EXCEPT ![r].at = "failed"]
  /\ UNCHANGED <<up, stopped, chat, taken, latest>>

Next ==
  \/ Connects \/ Stops
  \/ \E m \in Messages : Takes(m)
  \/ \E r \in Sends : Resolves(r) \/ Splits(r) \/ SendsChunk(r)

Spec == Init /\ [][Next]_vars

-----------------------------------------------------------------------------
(* Properties *)

\* The chunks of a text overlap nowhere, go on in its order and leave out nothing but
\* blanks, and none is too long.
ChunksCover(t, cs) ==
  /\ \A i, j \in DOMAIN cs : i < j => cs[i].upto < cs[j].from
  /\ \A p \in DOMAIN t : t[p] \notin Blank => \E i \in Kept(cs) : p \in cs[i].from .. cs[i].upto
  /\ \A i \in DOMAIN cs :
       cs[i].upto - cs[i].from < Limit /\ {cs[i].from - 1, cs[i].upto} \subseteq 0 .. Len(t)

\* The chunks of a reply go out once each and in order, whatever arrives meanwhile, and
\* refer to one message, of its own channel and one the bot has taken; and they are the
\* whole text: send, _chunk_message.
RepliesStayTogether ==
  \A r \in Sends :
    LET s == send[r]
        gone == {s.sent[i].chunk : i \in DOMAIN s.sent}
    IN
    /\ s.at \in {"send", "failed"} => ChunksCover(s.text, s.chunks)
    /\ gone \cup s.left = Kept(s.chunks) /\ \A i \in gone, k \in s.left : i < k
    /\ \A i, j \in DOMAIN s.sent :
         /\ i < j => s.sent[i].chunk < s.sent[j].chunk
         /\ s.sent[i].to = s.sent[j].to
         /\ chat[s.sent[i].to] = s.chat /\ taken[s.sent[i].to] # "refused"
=============================================================================
