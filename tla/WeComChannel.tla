---------------------------- MODULE WeComChannel ----------------------------
(***************************************************************************)
(* WeComChannel (bub-wecom, channel.py).  A frame becomes a message whose  *)
(* lifespan the framework enters when a turn begins with it: this opens a  *)
(* stream that shows "Thinking...", which the next reply of the session    *)
(* ends.  Replies without a stream are sent on a connection of their own.  *)
(***************************************************************************)
EXTENDS Naturals, FiniteSets

CONSTANTS
  Frames,       \* numbers, in the order of their arrival
  Sends,
  Chats, Groups,
  DmPolicy, GroupPolicy  \* "open", "disabled" or "allowlist"

WeComConstants == 0 \notin Frames

VARIABLES
  client,    \* is there one?
  chat, at,  \* of a frame: the chat, once it was handed over
  sessions,  \* _stream_sessions: the frame whose stream a reply would end
  ended,     \* history: how often a stream was ended
  overtaken, \* history: frames whose stream another frame has replaced
  send       \* of a reply

vars == <<client, chat, at, sessions, ended, overtaken, send>>

Init ==
  /\ client = FALSE
  /\ chat = [f \in Frames |-> "none"] /\ at = [f \in Frames |-> "due"]
  /\ sessions = [c \in Chats |-> 0] /\ ended = [f \in Frames |-> 0] /\ overtaken = {}
  /\ send = [r \in Sends |-> [at |-> "idle", chat |-> "none", stream |-> 0]]

\* start and stop; a client that does not connect is not started.
Connects ==
  /\ ~client /\ \A f \in Frames : at[f] = "due" /\ client' = TRUE
  /\ UNCHANGED <<chat, at, sessions, ended, overtaken, send>>
Disconnects ==
  /\ client /\ client' = FALSE
  /\ UNCHANGED <<chat, at, sessions, ended, overtaken, send>>

\* _is_allowed.
Allowed(policy, listed) == policy # "disabled" /\ (policy = "allowlist" => listed)

\* frame_to_message: a frame without a chat is no message.
Normalized == Chats \cup {"none"}

\* _handle_frame.
Handles(f) ==
  /\ client /\ at[f] = "due" /\ \A g \in Frames : g < f => at[g] # "due"
  /\ \E c \in Normalized, listed \in BOOLEAN :
       IF c # "none" /\ Allowed(IF c \in Groups THEN GroupPolicy ELSE DmPolicy, listed)
       THEN chat' = [chat EXCEPT ![f] = c] /\ at' = [at EXCEPT ![f] = "handed"]
       ELSE chat' = [chat EXCEPT ![f] = "none"] /\ at' = [at EXCEPT ![f] = "refused"]
  /\ UNCHANGED <<client, sessions, ended, overtaken, send>>

\* _message_lifespan is entered: the stream is known before it is shown.  Without a
\* client there is none.
Enters(f) ==
  LET c == chat[f] IN
  /\ at[f] = "handed"
  /\ \/ /\ client /\ at' = [at EXCEPT ![f] = "opening"]
        /\ sessions' = [sessions EXCEPT ![c] = f]
        /\ overtaken' = overtaken \cup ({sessions[c]} \ {0})
     \/ /\ ~client /\ at' = [at EXCEPT ![f] = "plain"] /\ UNCHANGED <<sessions, overtaken>>
  /\ UNCHANGED <<client, chat, ended, send>>

\* "Thinking...": shown, or refused, which takes the session's stream away.
Opens(f) ==
  /\ at[f] = "opening"
  /\ \/ at' = [at EXCEPT ![f] = "open"] /\ UNCHANGED <<sessions, overtaken>>
     \/ /\ at' = [at EXCEPT ![f] = "failed"]
        /\ overtaken' = overtaken \cup ({sessions[chat[f]]} \ {0})
        /\ sessions' = [sessions EXCEPT ![chat[f]] = 0]
  /\ UNCHANGED <<client, chat, ended, send>>

\* The lifespan is left; one that has opened no stream takes the session's away.
Leaves(f) ==
  /\ at[f] \in {"open", "plain"} /\ at' = [at EXCEPT ![f] = "left"]
  /\ IF at[f] = "open" THEN UNCHANGED <<sessions, overtaken>>
     ELSE /\ overtaken' = overtaken \cup ({sessions[chat[f]]} \ {0})
          /\ sessions' = [sessions EXCEPT ![chat[f]] = 0]
  /\ UNCHANGED <<client, chat, ended, send>>

\* mutant: the stream is looked up.
Looked(c) == sessions

Popped(c) == [sessions EXCEPT ![c] = 0]

\* send: with the stream of the session, or without.
Replies(r) ==
  /\ send[r].at = "idle"
  /\ \E c \in Chats :
       /\ \E f \in Frames : chat[f] = c /\ at[f] \notin {"due", "refused", "handed"}
       /\ sessions' = Popped(c)
       /\ send' = [send EXCEPT ![r] =
            [at |-> IF sessions[c] = 0 THEN "proactive" ELSE IF client THEN "stream" ELSE "failed",
             chat |-> c, stream |-> sessions[c]]]
  /\ UNCHANGED <<client, chat, at, ended, overtaken>>

\* reply_stream with finish, or send_proactive_message; a failure is raised.
Answers(r) ==
  /\ send[r].at \in {"stream", "proactive"}
  /\ \/ /\ send' = [send EXCEPT ![r].at = "sent"]
        /\ ended' = IF send[r].at = "stream" THEN [ended EXCEPT ![send[r].stream] = @ + 1] ELSE ended
     \/ send' = [send EXCEPT ![r].at = "failed"] /\ UNCHANGED ended
  /\ UNCHANGED <<client, chat, at, sessions, overtaken>>

Next ==
  \/ Connects \/ Disconnects
  \/ \E f \in Frames : Handles(f) \/ Enters(f) \/ Opens(f) \/ Leaves(f)
  \/ \E r \in Sends : Replies(r) \/ Answers(r)

Spec == Init /\ [][Next]_vars

-----------------------------------------------------------------------------
(* Properties *)

\* A stream is ended once, by a reply of its own chat; and one that was opened is
\* ended, still to be ended, in a reply's hands, or lost to another frame of its
\* chat: _message_lifespan, send.
StreamsEndOnce ==
  /\ \A f \in Frames : ended[f] <= 1
  /\ \A r \in Sends : send[r].stream # 0 => chat[send[r].stream] = send[r].chat
  /\ \A f \in Frames : at[f] = "open" =>
       \/ sessions[chat[f]] = f \/ f \in overtaken
       \/ \E r \in Sends : send[r].stream = f
=============================================================================
