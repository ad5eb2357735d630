------------------------------ MODULE QQInbound ------------------------------
(***************************************************************************)
(* The inbound side of bub-qq in webhook mode: a thread per HTTP request   *)
(* checks the callback and schedules a coroutine on the event loop         *)
(* (gateway/webhook.py); the coroutine dedupes, admits, remembers and      *)
(* hands over (channel.py, inbound/, session.py), and keeps what the       *)
(* platform lets users switch (store.py).                                  *)
(*                                                                         *)
(* QQ sends an event again until it has been answered with 200.  Of an     *)
(* event counts what it is and in which chat; its timestamp, if it has one,*)
(* is the event's own.                                                     *)
(***************************************************************************)
EXTENDS Naturals, BoundedDict

CONSTANTS
  Events,      \* numbers
  Deliveries,  \* numbers, in the order of the requests that are scheduled
  Chats,
  DedupeSize,  \* inbound_dedupe_size
  StateSize,   \* session_state_size
  MaxRestarts

VARIABLES
  server,    \* does the webhook server run?
  event,     \* of an event: what it is
  answered,  \* the events QQ has had its 200 for
  of, at,    \* of a delivery: its event and where its coroutine stands
  seen,      \* QQInboundDeduper: message ids
  latest, stamp,  \* latest_message_id_by_session, latest_timestamp_by_session
  byId,      \* message_by_id: the session
  given,     \* history: how often an event was given to on_receive
  forgotten, \* history: the ids that the deduper has dropped
  setting, file,  \* the platform store, in memory and on disk
  saved,     \* history: every save since the start has gone well
  restarts

flow  == <<server, event, answered, of, at, restarts>>
state == <<seen, latest, stamp, byId, given, forgotten>>
store == <<setting, file, saved>>
vars  == <<flow, state, store>>

Kinds == {"message", "blocked", "invalid", "admin", "click", "query", "toggle"}
NoEvent == [kind |-> "none", chat |-> "none", stamped |-> FALSE]

Init ==
  /\ server = TRUE /\ answered = {} /\ restarts = 0
  /\ event = [e \in Events |-> NoEvent]
  /\ of = [d \in Deliveries |-> 0] /\ at = [d \in Deliveries |-> "idle"]
  /\ seen = EmptyDict /\ latest = EmptyDict /\ stamp = EmptyDict /\ byId = EmptyDict
  /\ given = [e \in Events |-> 0] /\ forgotten = {}
  /\ setting = [c \in Chats |-> [active |-> 0, mention |-> 0]] /\ file = setting /\ saved = TRUE

-----------------------------------------------------------------------------
(* QQWebhookServer *)

\* _handle_post, for a payload that is signed (_is_signature_valid) and is an event; any other
\* request is answered and changes nothing.  The payload is scheduled before the request is
\* answered, and the answer may not arrive.
Posts(e) ==
  /\ server /\ e \notin answered
  /\ \A f \in Events : f < e => event[f] # NoEvent
  /\ \E d \in Deliveries :
       /\ at[d] = "idle" /\ \A c \in Deliveries : c < d => at[c] # "idle"
       /\ at' = [at EXCEPT ![d] = "due"] /\ of' = [of EXCEPT ![d] = e]
  /\ \/ event[e] # NoEvent /\ UNCHANGED event
     \/ /\ event[e] = NoEvent
        /\ \E k \in Kinds, c \in Chats, s \in BOOLEAN :
             /\ s => k = "message"
             /\ event' = [event EXCEPT ![e] = [kind |-> k, chat |-> c, stamped |-> s]]
  /\ answered' \in {answered, answered \cup {e}}
  /\ UNCHANGED <<server, restarts, state, store>>

\* stop: what was scheduled still runs.
Stops == server /\ server' = FALSE /\ UNCHANGED <<event, answered, of, at, restarts, state, store>>

\* The process ends and starts again: only the file is kept.
Restarts ==
  /\ restarts < MaxRestarts /\ restarts' = restarts + 1 /\ server' = TRUE
  /\ at' = [d \in Deliveries |-> IF at[d] = "idle" THEN "idle" ELSE "over"]
  /\ seen' = EmptyDict /\ latest' = EmptyDict /\ stamp' = EmptyDict /\ byId' = EmptyDict
  /\ forgotten' = Events /\ setting' = file /\ saved' = TRUE
  /\ UNCHANGED <<event, answered, of, given, file>>

-----------------------------------------------------------------------------
(* QQSessionState *)

\* mutant: an unknown timestamp is not written.
RememberedIfStamped(e) ==
  IF event[e].stamped THEN Put(stamp, event[e].chat, e, StateSize) ELSE stamp

\* latest_timestamp_by_session, where "" (here 0) stands for unknown.
Stamped(e) == Put(stamp, event[e].chat, IF event[e].stamped THEN e ELSE 0, StateSize)

\* remember_session.
Remembers(e) ==
  /\ latest' = Put(latest, event[e].chat, e, StateSize)
  /\ stamp' = Stamped(e)
  /\ byId' = Put(byId, e, event[e].chat, StateSize)

\* mutant: the event is noted when it has been handled.
SeenLater(e) == seen

\* QQInboundDeduper.seen, of an id it does not know.
Seen(e) == Put(seen, e, TRUE, DedupeSize)

-----------------------------------------------------------------------------
(* _handle_transport_payload *)

\* parse_inbound: a message that is known, or may not come in, ends here.
Admits(d, next) ==
  LET e == of[d] IN
  /\ seen' = Seen(e) /\ forgotten' = forgotten \cup Evicted(seen, e, DedupeSize)
  /\ IF event[e].kind = "blocked"
     THEN at' = [at EXCEPT ![d] = "over"] /\ UNCHANGED <<latest, stamp, byId, given>>
     ELSE /\ Remembers(e) /\ at' = [at EXCEPT ![d] = next]
          /\ given' = IF next = "hand" THEN [given EXCEPT ![e] = @ + 1] ELSE given

\* from_event: a payload without an id, a sender or a chat is no message.
IsMessage(e) == event[e].kind # "invalid"

\* _handle_c2c_message, _handle_group_message, up to their first wait: an admin command
\* is answered here, anything else is handed over.
RunsMessage(d) ==
  LET e == of[d] IN
  /\ at[d] = "due" /\ event[e].kind \in {"message", "blocked", "invalid", "admin"}
  /\ IF ~IsMessage(e) \/ Has(seen, e) THEN at' = [at EXCEPT ![d] = "over"] /\ UNCHANGED state
     ELSE Admits(d, IF event[e].kind = "admin" THEN "notice" ELSE "hand")
  /\ UNCHANGED <<server, event, answered, of, restarts, store>>

\* send_notice returns or raises; on_receive returns or raises.
Ends(d) ==
  /\ at[d] \in {"notice", "hand"} /\ at' = [at EXCEPT ![d] = "over"]
  /\ UNCHANGED <<server, event, answered, of, restarts, state, store>>

\* _save: a temporary file takes the place of the old one, or nothing changes.
Saves ==
  \/ file' = setting' /\ UNCHANGED saved
  \/ file' = file /\ saved' = FALSE

\* _handle_msg_toggle: the setting is that of the toggle handled last (0: unknown).
RunsToggle(d) ==
  LET e == event[of[d]] IN
  /\ at[d] = "due" /\ e.kind = "toggle" /\ at' = [at EXCEPT ![d] = "over"]
  /\ setting' = [setting EXCEPT ![e.chat].active = of[d]] /\ Saves
  /\ UNCHANGED <<server, event, answered, of, restarts, state>>

\* _handle_interaction: a query is answered with the settings, which an update changes
\* first (extract_claw_cfg_update), and a click before it is handed over;
\* put_interaction may fail, which is logged.
RunsInteraction(d) ==
  LET e == event[of[d]] IN
  /\ at[d] = "due" /\ e.kind \in {"click", "query"}
  /\ at' = [at EXCEPT ![d] = "ack"]
  /\ \/ UNCHANGED store
     \/ /\ e.kind = "query" /\ setting' = [setting EXCEPT ![e.chat].mention = of[d]]
        /\ Saves
  /\ UNCHANGED <<server, event, answered, of, restarts, state>>

Acks(d) ==
  LET e == of[d] IN
  /\ at[d] = "ack"
  /\ IF event[e].kind = "click"
     THEN /\ at' = [at EXCEPT ![d] = "hand"] /\ Remembers(e)
          /\ given' = [given EXCEPT ![e] = @ + 1]
     ELSE at' = [at EXCEPT ![d] = "over"] /\ UNCHANGED <<latest, stamp, byId, given>>
  /\ UNCHANGED <<server, event, answered, of, restarts, seen, forgotten, store>>

Next ==
  \/ \E e \in Events : Posts(e)
  \/ Stops \/ Restarts
  \/ \E d \in Deliveries :
       RunsMessage(d) \/ Ends(d) \/ RunsToggle(d) \/ RunsInteraction(d) \/ Acks(d)

Spec == Init /\ [][Next]_vars

-----------------------------------------------------------------------------
(* Properties *)

\* A message is handed over once, however often QQ sends it and whatever runs beside
\* it, unless the deduper has forgotten it; one that is known was handed over, is not
\* for the bot or was answered by it: seen, parse_inbound.
HandedOnce ==
  /\ \A e \in Events :
       event[e].kind = "message" /\ e \notin forgotten => given[e] <= 1
  /\ \A e \in Events :
       Has(seen, e) => given[e] > 0 \/ event[e].kind \in {"blocked", "admin"}
  /\ \A e \in Events : event[e].kind \in {"blocked", "invalid", "admin"} => given[e] = 0

\* What a reply goes by fits together: the latest message of a chat is one of that
\* chat, its timestamp is its own, the two are dropped together, and an id leads to
\* its chat; and the file holds the settings, as long as every save goes well:
\* remember_session, QQPlatformStore.
ContextIsKept ==
  /\ DOMAIN latest.value = DOMAIN stamp.value
  /\ \A c \in DOMAIN latest.value :
       LET e == latest.value[c] IN
       /\ event[e].chat = c
       /\ stamp.value[c] = IF event[e].stamped THEN e ELSE 0
  /\ \A e \in DOMAIN byId.value : byId.value[e] = event[e].chat
  /\ saved => file = setting
=============================================================================
