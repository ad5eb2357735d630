--------------------------- MODULE FeishuChannel ---------------------------
(***************************************************************************)
(* FeishuChannel (bub-feishu, channel.py): the thread of the Lark client   *)
(* receives events and waits, one by one, until the event loop has handed  *)
(* the message over; sends of the framework and stop run on that loop.     *)
(*                                                                         *)
(* Of an event counts its chat, whether it is a command, who sent it and   *)
(* what medium it carries.  An id of a sender is one of three types.       *)
(***************************************************************************)
EXTENDS Naturals, Sequences, FiniteSets

CONSTANTS
  Messages,  \* numbers, in the order of the events
  Sends,
  Chats,
  Senders,
  Media      \* of "none", "image", "sticker", "audio", "video", "media", "file"

FeishuConstants == Messages \subseteq Nat \ {0}

VARIABLES
  loop,      \* off, starting, on, stopping (_shutdown_ws), stopped
  thread,    \* none, waiting (for an event), blocked (on the message it has given)
  overran,   \* history: the thread has outlived the second stop waits for it
  event, pc, \* of a message
  names,     \* _sender_name_cache
  answered,  \* history: how often a lookup of an id was answered
  ids,       \* _pending_command_message_ids
  handed,    \* history: the messages, as handed to on_receive
  send       \* of a reply: where it stands, its chat, the message it replies to

lifeVars == <<loop, thread, overran>>
vars == <<lifeVars, event, pc, names, answered, ids, handed, send>>

IdTypes == 1..3  \* _iter_sender_ids: open_id, user_id, union_id
Events == [chat : Chats, command : BOOLEAN, sender : Senders, medium : Media]
NoEvent == [chat |-> "none", command |-> FALSE, sender |-> "none", medium |-> "none"]

Init ==
  /\ loop = "off" /\ thread = "none" /\ overran = FALSE
  /\ event = [m \in Messages |-> NoEvent] /\ pc = [m \in Messages |-> "due"]
  /\ names = [s \in Senders |-> [t \in IdTypes |-> "unknown"]]
  /\ answered = [s \in Senders |-> [t \in IdTypes |-> 0]]
  /\ ids = [c \in Chats |-> <<>>] /\ handed = <<>>
  /\ send = [r \in Sends |-> [at |-> "idle", chat |-> "none", to |-> 0]]

-----------------------------------------------------------------------------
(* _main_loop_task, _run_ws_client, _shutdown_ws, stop *)

Starts ==
  /\ loop = "off" /\ loop' = "on" /\ thread' = "waiting"
  /\ UNCHANGED <<overran, event, pc, names, answered, ids, handed, send>>

\* The client is told to stop, which its thread may not notice.
Stops ==
  /\ loop = "on" /\ loop' = "stopping"
  /\ UNCHANGED <<thread, overran, event, pc, names, answered, ids, handed, send>>

ThreadEnds ==
  /\ thread = "waiting" /\ loop \in {"stopping", "stopped"} /\ thread' = "none"
  /\ UNCHANGED <<loop, overran, event, pc, names, answered, ids, handed, send>>

\* join, for a second.
Joins ==
  /\ loop = "stopping" /\ loop' = "stopped" /\ overran' = (thread # "none")
  /\ UNCHANGED <<thread, event, pc, names, answered, ids, handed, send>>

-----------------------------------------------------------------------------
(* Incoming messages *)

\* mutant: the thread does not wait for the coroutine.
GivesAndGoesOn == thread' = thread

Gives == thread' = "blocked"

\* _on_message_event, _normalize_event, _is_allowed: a message that is no message,
\* is not allowed or has no text is dropped.
Receives(m) ==
  /\ thread = "waiting" /\ pc[m] = "due" /\ \A n \in Messages : n < m => pc[n] # "due"
  /\ \/ /\ \E e \in Events : event' = [event EXCEPT ![m] = e]
        /\ pc' = [pc EXCEPT ![m] = "name"] /\ Gives
     \/ pc' = [pc EXCEPT ![m] = "dropped"] /\ UNCHANGED <<thread, event>>
  /\ UNCHANGED <<loop, overran, names, answered, ids, handed, send>>

\* Lookups of the unknown ids up to last were answered, only the last of them with a name, if found.
LookedUp(s, last, found) ==
  /\ \A t \in 1 .. last : names[s][t] = "unknown"
  /\ names' = [names EXCEPT ![s] = [t \in IdTypes |->
       IF t > last THEN @[t] ELSE IF t = last /\ found THEN "name" ELSE "nameless"]]
  /\ answered' = [answered EXCEPT ![s] = [t \in IdTypes |-> IF t > last THEN @[t] ELSE @[t] + 1]]

\* _enrich_sender_name, _get_sender_name: ids are asked for in order until one is known, be it
\* as nameless, or found; none is if the event gives the name.
Names(m) ==
  /\ pc[m] = "name" /\ pc' = [pc EXCEPT ![m] = "build"]
  /\ \E last \in {0} \cup IdTypes, found \in BOOLEAN :
       /\ LookedUp(event[m].sender, last, found)
       /\ found => last # 0
       /\ found \/ last = 0 \/ \A t \in IdTypes : t = last + 1 => names[event[m].sender][t] # "unknown"
  /\ UNCHANGED <<lifeVars, event, ids, handed, send>>

\* _media_item_type.
MediaItem(medium) ==
  CASE medium \in {"image", "sticker"} -> "image"
    [] medium \in {"video", "media"} -> "video"
    [] medium \in {"none", "audio"} -> medium
    [] OTHER -> "document"

\* _get_media: a command carries none.
Item(e) == IF e.command THEN "none" ELSE MediaItem(e.medium)

\* _build_message: a command leaves its id for its reply.
IdLeftBy(m) ==
  LET e == event[m] IN IF e.command THEN [ids EXCEPT ![e.chat] = Append(@, m)] ELSE ids

\* _enrich_reply_to_message, _build_message, on_receive: a command carries no medium, and a
\* message is answered by tools, not by send.
Builds(m) ==
  /\ pc[m] = "build" /\ pc' = [pc EXCEPT ![m] = "handed"]
  /\ ids' = IdLeftBy(m)
  /\ handed' = Append(handed, [message |-> m, late |-> loop = "stopped", overran |-> overran,
                               item |-> Item(event[m])])
  /\ thread' = IF thread = "blocked" THEN "waiting" ELSE thread
  /\ UNCHANGED <<loop, overran, event, names, answered, send>>

\* An exception on the way is swallowed, and with it the message.
Swallows(m) ==
  /\ pc' = [pc EXCEPT ![m] = "failed"]
  /\ thread' = IF thread = "blocked" THEN "waiting" ELSE thread

\* The lookup of an id raises, and will be made again; the ids before it were nameless.
NamesFail(m) ==
  /\ pc[m] = "name" /\ Swallows(m)
  /\ \E t \in IdTypes :
       names[event[m].sender][t] = "unknown" /\ LookedUp(event[m].sender, t - 1, FALSE)
  /\ UNCHANGED <<loop, overran, event, ids, handed, send>>

\* The message it replies to cannot be fetched, its medium not built, or on_receive raises: a
\* command has left its id by then.
BuildFails(m) ==
  /\ pc[m] = "build" /\ Swallows(m)
  /\ ids' \in {ids, IdLeftBy(m)}
  /\ UNCHANGED <<loop, overran, event, names, answered, handed, send>>

-----------------------------------------------------------------------------
(* Replies *)

\* mutant: the id is left.
IdLeft(c) == ids

\* _pop_command_message_id.
IdPopped(c) == [ids EXCEPT ![c] = IF @ = <<>> THEN @ ELSE Tail(@)]

\* send: the oldest command that waits, if any, is the one this replies to.
Replies(r) ==
  /\ send[r].at = "idle"
  /\ \E c \in Chats :
       /\ \E m \in Messages : pc[m] = "handed" /\ event[m].chat = c
       /\ send' = [send EXCEPT ![r] = [at |-> IF ids[c] = <<>> THEN "create" ELSE "reply", chat |-> c,
                                       to |-> IF ids[c] = <<>> THEN 0 ELSE Head(ids[c])]]
       /\ ids' = IdPopped(c)
  /\ UNCHANGED <<lifeVars, event, pc, names, answered, handed>>

\* _send_text: a reply that is refused is sent as a message of its own.
Answers(r) ==
  /\ send[r].at \in {"reply", "create"}
  /\ \E at \in {"replied", "created", "failed"} :
       /\ at = "replied" => send[r].at = "reply"
       /\ send' = [send EXCEPT ![r].at = at]
  /\ UNCHANGED <<lifeVars, event, pc, names, answered, ids, handed>>

Next ==
  \/ Starts \/ Stops \/ ThreadEnds \/ Joins
  \/ \E m \in Messages : Receives(m) \/ Names(m) \/ NamesFail(m) \/ Builds(m) \/ BuildFails(m)
  \/ \E r \in Sends : Replies(r) \/ Answers(r)

Spec == Init /\ [][Next]_vars

-----------------------------------------------------------------------------
(* Properties *)

\* Messages are handed over in the order of their events; after stop, only if the
\* thread has outlived its join; and an id that a lookup was answered for, be it without a
\* name, is not looked up again, however many lookups raised before: _on_message_event,
\* _shutdown_ws, _get_sender_name.
MessagesInOrder ==
  /\ \A i, j \in DOMAIN handed : i < j => handed[i].message < handed[j].message
  /\ \A i \in DOMAIN handed : handed[i].late => handed[i].overran
  /\ \A s \in Senders, t \in IdTypes : answered[s][t] <= 1

\* A command is replied to once, in its own chat and before the commands after it:
\* _pending_command_message_ids.
CommandRepliesInOrder ==
  \A r \in Sends : send[r].to # 0 =>
    /\ event[send[r].to].command /\ event[send[r].to].chat = send[r].chat
    /\ \A q \in Sends : q # r => send[q].to # send[r].to
    /\ \A c \in Chats : \A i \in DOMAIN ids[c] : c = send[r].chat => send[r].to < ids[c][i]
=============================================================================
