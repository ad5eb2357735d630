------------------------------- MODULE QQSend -------------------------------
(***************************************************************************)
(* The outbound send flow of bub-qq (outbound/send_flow.py, session.py):   *)
(* passive replies with the msg_seq the plugin counts, active messages as  *)
(* a fallback, deduplication of retries, and the bounded dicts they rest   *)
(* on, against a QQ platform that accepts a (msg_id, msg_seq) once.        *)
(*                                                                         *)
(* A send runs without an await up to its request to the platform, and     *)
(* from the answer to its end; in between the others run.                  *)
(***************************************************************************)
EXTENDS BoundedDict, FiniteSets, TLC

CONSTANTS
  Sessions,      \* chats
  Msgs,          \* inbound messages, by msg_id
  Stamped,       \* those that carry a timestamp
  Sends,         \* calls of the send flow
  Contents,      \* what is sent, up to the hash of its content
  ActiveMsgId,   \* ACTIVE_MSG_ID
  None,          \* no message to reply to
  ActiveMessages,\* does the scope have active messages?
  RepliesPerMsg, \* passive_replies_per_msg_id
  MaxEntries     \* session_state_size

ASSUME RepliesAssumption == RepliesPerMsg \in Nat /\ ActiveMessages \in BOOLEAN
ASSUME MaxEntriesAssumption == MaxEntries \in Nat \ {0}
ASSUME StampedAssumption == Stamped \subseteq Msgs
ASSUME NamesAssumption ==
  /\ {ActiveMsgId, None} \cap Msgs = {} /\ ActiveMsgId # None
  /\ None \notin Sessions

VARIABLES
  chat,        \* the chat of a message that arrived
  expired,     \* messages whose passive reply window has passed
  latest,      \* latest_message_id_by_session
  known,       \* message_by_id
  counter,     \* latest_sequence_by_session_and_msg_id
  records,     \* send_records: which keys have one
  at,          \* where a send stands
  order,       \* what a send sends: [chat, content], and by which [msg, seq]
  outcome,     \* what a send returned
  accepted,    \* platform: the sends whose request it accepted
  forgot,      \* history: messages whose counter was evicted
  unrecorded   \* history: keys whose send record was evicted

callVars == <<at, order, outcome>>
vars == <<chat, expired, latest, known, counter, records, at, order, outcome,
          accepted, forgot, unrecorded>>

Targets == Msgs \cup {ActiveMsgId}
NoOrder == [chat |-> None, content |-> None, msg |-> None, seq |-> 0]

Init ==
  /\ chat = [m \in Msgs |-> None]
  /\ expired = {}
  /\ latest = EmptyDict /\ known = EmptyDict
  /\ counter = EmptyDict /\ records = EmptyDict
  /\ at = [q \in Sends |-> "idle"]
  /\ order = [q \in Sends |-> NoOrder]
  /\ outcome = [q \in Sends |-> "none"]
  /\ accepted = {} /\ forgot = {} /\ unrecorded = {}

-----------------------------------------------------------------------------
\* remember_session: a message of a chat arrived and was let in.
RememberSession(m, s) ==
  /\ chat[m] = None
  /\ chat' = [chat EXCEPT ![m] = s]
  /\ latest' = Put(latest, s, m, MaxEntries)
  /\ known' = Put(known, m, s, MaxEntries)
  /\ UNCHANGED <<expired, counter, records, callVars, accepted, forgot, unrecorded>>

\* is_passive_reply_window_open: the reply window of a message passes, unless
\* it has no timestamp.
WindowExpires(m) ==
  /\ m \in Stamped \ expired /\ chat[m] # None
  /\ expired' = expired \cup {m}
  /\ UNCHANGED <<chat, latest, known, counter, records, callVars, accepted,
                 forgot, unrecorded>>

-----------------------------------------------------------------------------
\* reply_target
ReplyTarget(s, replyTo) ==
  IF Get(known, replyTo, None) = s THEN replyTo ELSE Get(latest, s, None)

Used(m) == Get(counter, m, 0)

\* mutant: one reply too many.
PassiveBlockedLate(m) == m = None \/ m \in expired \/ Used(m) > RepliesPerMsg

\* _passive_blocked_reason
PassiveBlocked(m) == m = None \/ m \in expired \/ Used(m) >= RepliesPerMsg

RecordKey(o) == <<o.chat, o.msg, o.content>>

PutRecord(o) ==
  /\ records' = Put(records, RecordKey(o), TRUE, MaxEntries)
  /\ unrecorded' = unrecorded \cup Evicted(records, RecordKey(o), MaxEntries)
PutCounter(m, n) ==
  /\ counter' = Put(counter, m, n, MaxEntries)
  /\ forgot' = forgot \cup Evicted(counter, m, MaxEntries)

Ends(q, result) ==
  /\ at' = [at EXCEPT ![q] = "done"]
  /\ outcome' = [outcome EXCEPT ![q] = result]

\* mutant: the msg_seq is the next one only once its send has succeeded.
NextMsgSeqUnclaimed(m) == UNCHANGED <<counter, forgot>>

\* next_msg_seq
NextMsgSeq(m) == PutCounter(m, Used(m) + 1)

\* _run_passive_send up to the request.
RunPassiveSend(q, s, c, m) ==
  LET o == [chat |-> s, content |-> c, msg |-> m, seq |-> Used(m) + 1] IN
  /\ order' = [order EXCEPT ![q] = o]
  /\ \/ /\ Has(records, RecordKey(o))
        /\ Ends(q, "already_sent")
        /\ UNCHANGED <<counter, forgot>>
     \/ /\ ~Has(records, RecordKey(o))
        /\ at' = [at EXCEPT ![q] = "posting"]
        /\ NextMsgSeq(m)
        /\ UNCHANGED outcome

\* _run_active_send up to the request: a message without msg_id or msg_seq.
RunActiveSend(q, s, c) ==
  LET o == [chat |-> s, content |-> c, msg |-> ActiveMsgId, seq |-> 0] IN
  /\ order' = [order EXCEPT ![q] = o]
  /\ \/ Has(records, RecordKey(o)) /\ Ends(q, "already_sent")
     \/ /\ ~Has(records, RecordKey(o))
        /\ at' = [at EXCEPT ![q] = "posting"]
        /\ UNCHANGED outcome
  /\ UNCHANGED <<counter, forgot>>

\* run_send_flow; an active message may be unavailable, rejected by the
\* admin, or impossible for media and keyboards.
RunSendFlow(q, s, c, replyTo) ==
  LET m == ReplyTarget(s, replyTo) IN
  /\ at[q] = "idle"
  /\ \/ ~PassiveBlocked(m) /\ RunPassiveSend(q, s, c, m)
     \/ PassiveBlocked(m) /\ ActiveMessages /\ RunActiveSend(q, s, c)
     \/ /\ PassiveBlocked(m)
        /\ Ends(q, "skipped")
        /\ UNCHANGED <<order, counter, forgot>>
  /\ UNCHANGED <<chat, expired, latest, known, records, accepted, unrecorded>>

-----------------------------------------------------------------------------
\* The platform: it accepts a request, now or after a review, unless it has
\* accepted the msg_id and msg_seq before, or refuses it.
SameSeq(p, q) == order[p].msg = order[q].msg /\ order[p].seq = order[q].seq
IsDuplicate(q) ==
  order[q].msg # ActiveMsgId /\ \E p \in accepted : SameSeq(p, q)

PlatformAnswers(q) ==
  /\ at[q] = "posting"
  /\ \/ /\ ~IsDuplicate(q)
        /\ accepted' = accepted \cup {q}
        /\ \E answer \in {"ok", "pending_audit"} : at' = [at EXCEPT ![q] = answer]
     \/ IsDuplicate(q) /\ at' = [at EXCEPT ![q] = "duplicate"] /\ UNCHANGED accepted
     \/ at' = [at EXCEPT ![q] = "refused"] /\ UNCHANGED accepted
  /\ UNCHANGED <<chat, expired, latest, known, counter, records, order, outcome,
                 forgot, unrecorded>>

-----------------------------------------------------------------------------

\* release_unused_msg_seq
ReleaseUnusedMsgSeq(o) ==
  IF Has(counter, o.msg) /\ Used(o.msg) = o.seq
    THEN PutCounter(o.msg, o.seq - 1)
    ELSE UNCHANGED <<counter, forgot>>

\* mutant: a refused content is recorded, too.
RecordedWhateverAnswered(q) == at[q] # "posting"

\* mutant: a message awaiting review is not recorded as sent.
RecordedUnlessAudited(q) == at[q] \in {"ok", "duplicate"}

\* Answers that record the content as sent.
Recorded(q) == at[q] \in {"ok", "pending_audit", "duplicate"}

\* The answer of the platform reaches the send.
SendEnds(q) ==
  /\ \/ at[q] = "ok" /\ Ends(q, "sent")
     \/ at[q] = "pending_audit" /\ Ends(q, "pending_audit")
     \/ at[q] = "duplicate" /\ Ends(q, "already_sent")
     \/ at[q] = "refused" /\ Ends(q, "failed")
  /\ IF Recorded(q)
       THEN PutRecord(order[q]) ELSE UNCHANGED <<records, unrecorded>>
  /\ IF at[q] = "refused" /\ order[q].msg # ActiveMsgId
       THEN ReleaseUnusedMsgSeq(order[q]) ELSE UNCHANGED <<counter, forgot>>
  /\ UNCHANGED <<chat, expired, latest, known, order, accepted>>

\* No answer reaches the send: the connection fails, or the turn is
\* cancelled, after the platform handled the request or before.
SendRaises(q) ==
  /\ at[q] \in {"posting", "ok", "pending_audit", "duplicate", "refused"}
  /\ at' = [at EXCEPT ![q] = IF @ = "posting" THEN "lost" ELSE "done"]
  /\ outcome' = [outcome EXCEPT ![q] = "raised"]
  /\ UNCHANGED <<chat, expired, latest, known, counter, records, order,
                 accepted, forgot, unrecorded>>

\* A request whose send has ended reaches the platform all the same.
PlatformHandlesLost(q) ==
  /\ at[q] = "lost"
  /\ at' = [at EXCEPT ![q] = "done"]
  /\ \/ ~IsDuplicate(q) /\ accepted' = accepted \cup {q}
     \/ UNCHANGED accepted
  /\ UNCHANGED <<chat, expired, latest, known, counter, records, order, outcome,
                 forgot, unrecorded>>

Rest == (\A q \in Sends : at[q] = "done") /\ UNCHANGED vars

Next ==
  \/ \E m \in Msgs :
       \/ \E s \in Sessions : RememberSession(m, s)
       \/ WindowExpires(m)
  \/ \E q \in Sends :
       \/ \E s \in Sessions, c \in Contents, replyTo \in Msgs \cup {None} :
            RunSendFlow(q, s, c, replyTo)
       \/ PlatformAnswers(q)
       \/ SendEnds(q)
       \/ SendRaises(q)
       \/ PlatformHandlesLost(q)
  \/ Rest

Spec == Init /\ [][Next]_vars

-----------------------------------------------------------------------------
InFlight == {"posting", "ok", "pending_audit", "duplicate", "refused", "lost"}
Orders == [chat : Sessions, content : Contents, msg : Targets, seq : Nat]
            \cup {NoOrder}

\* Chats, messages and sends are what their names say, and the dicts are
\* bounded.
TypeOK ==
  /\ chat \in [Msgs -> Sessions \cup {None}] /\ expired \subseteq Msgs
  /\ \A d \in {latest, known, counter, records} : IsBoundedDict(d, MaxEntries)
  /\ at \in [Sends -> {"idle", "done"} \cup InFlight]
  /\ order \in [Sends -> Orders]
  /\ outcome \in [Sends -> {"none", "sent", "pending_audit", "already_sent",
                            "failed", "raised", "skipped"}]
  /\ accepted \subseteq Sends /\ forgot \subseteq Msgs

\* The requests that hold their msg_seq for good: the platform has accepted
\* it or may still do so.
Holds(q) == at[q] \in {"posting", "lost"} \/ q \in accepted
IsPassive(q) == order[q].msg \in Msgs

\* As long as the counter of a message is remembered, no msg_seq the
\* platform accepted, or may yet accept, is used again, whatever fails and is
\* given back meanwhile.
SeqNeverReused ==
  \A p, q \in Sends :
    /\ Holds(p) /\ Holds(q) /\ IsPassive(p) /\ order[p].msg \notin forgot
    /\ SameSeq(p, q)
    => p = q

Accepted(q, msg, content) ==
  /\ q \in accepted
  /\ order[q].msg = msg /\ order[q].content = content

\* What is reported sent, now or earlier, the platform has accepted, as long
\* as the counter of the message is remembered.
ReportedWasSent ==
  \A q \in Sends :
    /\ outcome[q] \in {"sent", "pending_audit", "already_sent"}
    /\ order[q].msg \notin forgot
    => \E p \in Sends : Accepted(p, order[q].msg, order[q].content)
                          /\ order[p].chat = order[q].chat

\* The platform is not asked to accept more replies than a message may have.
PassiveCapKept ==
  \A m \in Msgs \ forgot :
    Cardinality({q \in Sends : Holds(q) /\ order[q].msg = m}) <= RepliesPerMsg

\* "A retried delivery of identical content for the same inbound message is
\* recognized locally": once a send has returned that its content is out, no
\* send asks the platform again, as long as the record is remembered.
RetryIsRecognised ==
  [][\A p, q \in Sends :
       (at[q] = "idle" /\ at'[q] = "posting"
          /\ outcome[p] \in {"sent", "pending_audit", "already_sent"}
          /\ RecordKey(order[p]) = RecordKey(order'[q]))
         => RecordKey(order[p]) \in unrecorded]_vars

\* "Losing an old entry only means an old session can no longer receive a
\* passive reply": it never makes the plugin report what was not sent.
EvictionIsHarmless ==
  \A q \in Sends :
    outcome[q] = "already_sent" =>
      \E p \in Sends : Accepted(p, order[q].msg, order[q].content)

\* Sends, contents, chats and messages of a kind are interchangeable, for TLC.
SendSymmetry == Permutations(Sends) \cup Permutations(Contents)
                  \cup Permutations(Sessions) \cup Permutations(Msgs \ Stamped)
=============================================================================
