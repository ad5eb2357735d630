---------------------------- MODULE SlackChannel ----------------------------
(***************************************************************************)
(* SlackChannel (bub-slack, channel.py).  The Socket Mode client hands its *)
(* listener one event at a time; sends of the framework run beside it.  An *)
(* accepted message is marked :hourglass:, and the first reply of its      *)
(* session swaps the mark.                                                 *)
(*                                                                         *)
(* Of an event counts where it was written and whether it mentions the     *)
(* bot.  One with a subtype, of a bot, blank or not allowed is ignored.    *)
(***************************************************************************)
EXTENDS Naturals, FiniteSets

CONSTANTS
  Messages,  \* numbers, in the order of their events
  Sends,     \* replies of the framework
  Channels, DMs

SlackConstants == Messages \subseteq Nat \ {0} /\ Channels \cap DMs = {}

VARIABLES
  event, pc,    \* of a message
  ackPending,   \* _ACK_PENDING: the message a session's first reply is to mark
  active,       \* _active_threads
  marks,        \* the reactions a message carries
  send          \* of a reply: where it stands, its session, the message to mark

vars == <<event, pc, ackPending, active, marks, send>>

Events ==
  [channel : Channels \cup DMs, thread : {0} \cup Messages, mentions : BOOLEAN]

\* _session_id: a direct chat, or the thread a message is in or opens.
Session(e, m) ==
  [channel |-> e.channel,
   root |-> IF e.channel \in DMs THEN 0 ELSE IF e.thread # 0 THEN e.thread ELSE m]
Sessions == [channel : Channels \cup DMs, root : {0} \cup Messages]
NoSession == [channel |-> "none", root |-> 0]

Init ==
  /\ event = [m \in Messages |-> NoSession] /\ pc = [m \in Messages |-> "due"]
  /\ ackPending = [s \in Sessions |-> 0] /\ active = {}
  /\ marks = [m \in Messages |-> {}]
  /\ send = [r \in Sends |-> [at |-> "idle", session |-> NoSession, ack |-> 0]]

\* _handle_message: a direct chat, a mention, or a thread the bot takes part in.
Addressed(e) == e.channel \in DMs \/ e.mentions \/ (e.thread # 0 /\ e.thread \in active)

\* _on_slack_event, up to the reaction: the message is to be marked by the next reply.
Accepts(m) ==
  /\ pc[m] = "due" /\ \A n \in Messages : n < m => pc[n] \notin {"due", "react"}
  /\ \E e \in Events :
       /\ e.thread # 0 => e.thread < m /\ event[e.thread].channel = e.channel
       /\ event' = [event EXCEPT ![m] = e]
       /\ \/ /\ Addressed(e) /\ pc' = [pc EXCEPT ![m] = "react"]
             /\ ackPending' = [ackPending EXCEPT ![Session(e, m)] = m]
          \/ pc' = [pc EXCEPT ![m] = "ignored"] /\ ~e.mentions /\ UNCHANGED ackPending
  /\ UNCHANGED <<active, marks, send>>

\* _react, whose failure is swallowed, and the message is handed over.
Reacts(m) ==
  /\ pc[m] = "react" /\ pc' = [pc EXCEPT ![m] = "handed"]
  /\ \/ marks' = [marks EXCEPT ![m] = @ \cup {"hourglass"}]
     \/ UNCHANGED marks
  /\ UNCHANGED <<event, ackPending, active, send>>

\* send, up to the first post: the thread counts as the bot's from here on.
Starts(r) ==
  /\ send[r].at = "idle"
  /\ \E s \in {Session(event[m], m) : m \in {n \in Messages : pc[n] = "handed"}} :
       /\ send' = [send EXCEPT ![r].at = "post", ![r].session = s]
       /\ active' = IF s.root = 0 THEN active ELSE active \cup {s.root}
  /\ UNCHANGED <<event, pc, ackPending, marks>>

\* chat_postMessage, of the last chunk; a chunk that fails raises.
Posts(r) ==
  /\ send[r].at = "post"
  /\ \E at \in {"posted", "failed"} : send' = [send EXCEPT ![r].at = at]
  /\ UNCHANGED <<event, pc, ackPending, active, marks>>

\* mutant: the ack is read and left.
AckRead(s) == ackPending

AckPopped(s) == [ackPending EXCEPT ![s] = 0]

\* The response: the ack of the session, once.
Pops(r) ==
  LET s == send[r].session IN
  /\ send[r].at = "posted"
  /\ ackPending' = AckPopped(s)
  /\ send' = [send EXCEPT ![r].ack = ackPending[s],
                          ![r].at = IF ackPending[s] = 0 THEN "done" ELSE "unreact"]
  /\ UNCHANGED <<event, pc, active, marks>>

\* _unreact and _react, each of which may fail unseen.
Swaps(r) ==
  LET m == send[r].ack IN
  \/ /\ send[r].at = "unreact" /\ send' = [send EXCEPT ![r].at = "react"]
     /\ \/ marks' = [marks EXCEPT ![m] = @ \ {"hourglass"}]
        \/ UNCHANGED marks
     /\ UNCHANGED <<event, pc, ackPending, active>>
  \/ /\ send[r].at = "react" /\ send' = [send EXCEPT ![r].at = "done"]
     /\ \/ marks' = [marks EXCEPT ![m] = @ \cup {"done"}]
        \/ UNCHANGED marks
     /\ UNCHANGED <<event, pc, ackPending, active>>

Next ==
  \/ \E m \in Messages : Accepts(m) \/ Reacts(m)
  \/ \E r \in Sends : Starts(r) \/ Posts(r) \/ Pops(r) \/ Swaps(r)

Spec == Init /\ [][Next]_vars

-----------------------------------------------------------------------------
(* Properties *)

\* A message is marked by one reply only, one of its own session; what is marked
\* as done was so marked; the next to be marked is the session's latest message; and
\* a message nobody addressed is taken only where the bot has replied: _ACK_PENDING,
\* _active_threads.
MarksFollowReplies ==
  /\ \A r \in Sends : send[r].ack # 0 =>
       /\ send[r].session = Session(event[send[r].ack], send[r].ack)
       /\ \A q \in Sends : q # r => send[q].ack # send[r].ack
  /\ \A m \in Messages : "done" \in marks[m] => \E r \in Sends : send[r].ack = m
  /\ \A s \in Sessions : ackPending[s] # 0 =>
       \A m \in Messages :
         pc[m] \in {"react", "handed"} /\ Session(event[m], m) = s => m <= ackPending[s]
  /\ \A m \in Messages :
       pc[m] \in {"react", "handed"} /\ event[m].channel \in Channels /\ ~event[m].mentions =>
         \E r \in Sends : send[r].at # "idle" /\ send[r].session.root = event[m].thread
=============================================================================
