---------------------------- MODULE QQSendProofs ----------------------------
(* Theorems about QQSend for every number of chats, messages, sends and    *)
(* contents and every limit, checked by TLAPS.                             *)
EXTENDS QQSend, FiniteSetTheorems, TLAPS

\* What a written dict holds, up to what the write evicts.
LEMMA GetAfterPut ==
  ASSUME NEW d, NEW k, NEW v, NEW max, NEW j, NEW default,
         j \notin Evicted(d, k, max)
  PROVE  Get(Put(d, k, v, max), j, default) = IF j = k THEN v ELSE Get(d, j, default)
  BY DEF Get, Has, Put

-----------------------------------------------------------------------------
(***************************************************************************)
(* The inductive invariant.                                                *)
(***************************************************************************)

States == {"idle", "done"} \cup InFlight
Delivered == {"sent", "pending_audit", "already_sent"}

\* The types the proofs need.
SendTypes ==
  /\ at \in [Sends -> States]
  /\ order \in [Sends -> Orders]
  /\ \A q \in Sends : order[q].msg \in Msgs => order[q].seq > 0
  /\ outcome \in [Sends -> Delivered \cup {"none", "failed", "raised", "skipped"}]
  /\ accepted \subseteq Sends

DictTypes ==
  /\ \A s \in DOMAIN latest.value : latest.value[s] \in Msgs
  /\ DOMAIN known.value \subseteq Msgs
  /\ \A m \in DOMAIN counter.value : m \in Msgs /\ counter.value[m] \in Nat

\* A send that may still give its msg_seq back keeps it, like those whose
\* msg_seq the platform has accepted or may accept.
Keeps(q) == at[q] \in InFlight \/ q \in accepted
KeepsCounted(q) == Keeps(q) /\ IsPassive(q) /\ order[q].msg \notin forgot

KeptSeqsDiffer ==
  \A p, q \in Sends : KeepsCounted(p) /\ Keeps(q) /\ SameSeq(p, q) => p = q

\* The counter has reached every msg_seq that is kept, and never passes the
\* cap.
KeptSeqsCounted ==
  \A q \in Sends : KeepsCounted(q) => order[q].seq \in 1 .. Used(order[q].msg)
CounterCapped == \A m \in Msgs : Used(m) <= RepliesPerMsg

\* What the answers on their way say.
AnswersTrue ==
  \A q \in Sends :
    /\ at[q] \in {"ok", "pending_audit"} => q \in accepted
    /\ at[q] = "duplicate" => order[q].msg \in forgot
    /\ at[q] \in {"idle", "posting", "lost", "duplicate", "refused"} => q \notin accepted
    /\ at[q] \notin {"lost", "done"} => outcome[q] = "none"
    /\ outcome[q] \in Delivered => at[q] = "done"
    /\ at[q] \in InFlight => order[q] \in Orders \ {NoOrder}

\* The platform has accepted what a record stands for.
Vouched(key) ==
  key[2] \in forgot \/ \E p \in accepted : RecordKey(order[p]) = key
RecordsTrue == \A key \in DOMAIN records.value : Vouched(key)
ReportsTrue ==
  \A q \in Sends :
    outcome[q] \in Delivered =>
      /\ Vouched(RecordKey(order[q]))
      /\ RecordKey(order[q]) \in DOMAIN records.value \cup unrecorded

IInv == SendTypes /\ DictTypes /\ KeptSeqsDiffer /\ KeptSeqsCounted
          /\ CounterCapped /\ AnswersTrue /\ RecordsTrue /\ ReportsTrue

-----------------------------------------------------------------------------
(***************************************************************************)
(* The counters and the records.                                           *)
(***************************************************************************)

\* A counter is a number.
LEMMA UsedType == ASSUME DictTypes, NEW m PROVE Used(m) \in Nat
  BY DEF DictTypes, Used, Get, Has

\* Writing a counter changes that counter, forgets another one or none, and
\* keeps the types.
LEMMA CounterWritten ==
  ASSUME DictTypes, NEW m \in Msgs, NEW n \in Nat, PutCounter(m, n),
         UNCHANGED <<latest, known>>
  PROVE  /\ DictTypes'
         /\ forgot \subseteq forgot'
         /\ \A j : j \notin forgot' =>
                   Used(j)' = IF j = m THEN n ELSE Used(j)
         /\ \A j : Used(j)' \in {0, IF j = m THEN n ELSE Used(j)}
<1>1. counter' = Put(counter, m, n, MaxEntries)
      /\ forgot' = forgot \cup Evicted(counter, m, MaxEntries)
  BY DEF PutCounter
<1>2. ASSUME NEW j, j \notin Evicted(counter, m, MaxEntries)
      PROVE  Used(j)' = IF j = m THEN n ELSE Used(j)
  BY <1>1, <1>2, GetAfterPut DEF Used
<1>3. ASSUME NEW j, j \in Evicted(counter, m, MaxEntries)
      PROVE  Used(j)' = 0
  BY <1>1, <1>3 DEF Used, Get, Has, Put
<1>4. DictTypes'
  BY <1>1 DEF DictTypes, Put
<1> QED
  BY <1>1, <1>2, <1>3, <1>4

\* Recording a content adds its key; what another record loses is forgotten.
LEMMA RecordWritten ==
  ASSUME NEW o, PutRecord(o)
  PROVE  /\ DOMAIN records.value \cup {RecordKey(o)}
              \subseteq DOMAIN records'.value \cup unrecorded'
         /\ unrecorded \subseteq unrecorded'
         /\ DOMAIN records'.value \subseteq DOMAIN records.value \cup {RecordKey(o)}
  BY DEF PutRecord, Put

\* What is vouched for stays so.
LEMMA VouchedKept ==
  ASSUME NEW key, Vouched(key), forgot \subseteq forgot', accepted \subseteq accepted',
         \A p \in accepted : RecordKey(order[p])' = RecordKey(order[p])
  PROVE  Vouched(key)'
  BY DEF Vouched

\* The message a reply targets exists.
LEMMA TargetType ==
  ASSUME DictTypes, NEW s \in Sessions, NEW replyTo
  PROVE  ReplyTarget(s, replyTo) \in Msgs \cup {None}
  BY NamesAssumption DEF DictTypes, ReplyTarget, Get, Has

-----------------------------------------------------------------------------
(***************************************************************************)
(* Every step keeps the invariant.                                         *)
(***************************************************************************)

\* The invariant holds when nothing has been sent.
LEMMA InitIInv == Init => IInv
<1> SUFFICES ASSUME Init PROVE IInv
  OBVIOUS
<1>1. DOMAIN EmptyDict.value = {}
  BY DEF EmptyDict
<1>2. SendTypes /\ DictTypes
  BY <1>1, NamesAssumption DEF Init, SendTypes, DictTypes, States, Orders, NoOrder
<1>3. \A q \in Sends : ~Keeps(q)
  BY DEF Init, Keeps, InFlight
<1>4. KeptSeqsDiffer /\ KeptSeqsCounted
  BY <1>3 DEF KeptSeqsDiffer, KeptSeqsCounted, KeepsCounted
<1>5. CounterCapped
  BY <1>1, RepliesAssumption DEF Init, CounterCapped, Used, Get, Has
<1>6. AnswersTrue /\ ReportsTrue /\ RecordsTrue
  BY <1>1 DEF Init, AnswersTrue, ReportsTrue, RecordsTrue, Delivered, InFlight
<1> QED
  BY <1>2, <1>4, <1>5, <1>6 DEF IInv

\* What a step that starts, answers or loses one request may do to the parts
\* about msg_seqs: the counters grow or lose what is forgotten, and whoever
\* keeps a msg_seq kept the same one before.
LEMMA SeqsKept ==
  ASSUME IInv, forgot \subseteq forgot',
         \A q \in Sends : Keeps(q)' => Keeps(q) /\ order'[q] = order[q],
         \A j \in Msgs : j \notin forgot' => Used(j)' = Used(j)
  PROVE  KeptSeqsDiffer' /\ KeptSeqsCounted'
<1>1. \A q \in Sends : KeepsCounted(q)' =>
        KeepsCounted(q) /\ order'[q] = order[q] /\ order[q].msg \in Msgs \ forgot'
  BY DEF KeepsCounted, IsPassive
<1>2. KeptSeqsDiffer'
  BY <1>1 DEF IInv, KeptSeqsDiffer, SameSeq
<1>3. KeptSeqsCounted'
  BY <1>1 DEF IInv, KeptSeqsCounted
<1> QED
  BY <1>2, <1>3

\* The parts about answers and reports when one send moves without a report.
LEMMA UnreportedKept ==
  ASSUME IInv, NEW q \in Sends, at[q] # "done",
         forgot \subseteq forgot', accepted \subseteq accepted',
         UNCHANGED <<records, unrecorded>>,
         \A p \in Sends : p # q => outcome'[p] = outcome[p] /\ order'[p] = order[p],
         \A p \in accepted : order'[p] = order[p],
         outcome'[q] \notin Delivered
  PROVE  RecordsTrue' /\ ReportsTrue'
<1>1. \A key : Vouched(key) => Vouched(key)'
  BY VouchedKept DEF RecordKey
<1>2. RecordsTrue'
  BY <1>1 DEF IInv, RecordsTrue
<1>3. ReportsTrue'
  BY <1>1 DEF IInv, ReportsTrue, RecordKey
<1> QED
  BY <1>2, <1>3

\* Messages arrive and reply windows pass.
LEMMA InboundStep ==
  ASSUME IInv, NEW m \in Msgs,
         (\E s \in Sessions : RememberSession(m, s)) \/ WindowExpires(m)
  PROVE  IInv'
<1>1. UNCHANGED <<callVars, counter, records, accepted, forgot, unrecorded>>
  BY DEF RememberSession, WindowExpires
<1>2. DictTypes'
  <2>1. CASE WindowExpires(m)
    BY <2>1 DEF WindowExpires, IInv, DictTypes
  <2>2. ASSUME NEW s \in Sessions, RememberSession(m, s) PROVE DictTypes'
    BY <2>2, <1>1 DEF RememberSession, IInv, DictTypes, Put
  <2> QED
    BY <2>1, <2>2
<1>3. SendTypes' /\ AnswersTrue'
  BY <1>1 DEF IInv, SendTypes, AnswersTrue, callVars
<1>4. CounterCapped' /\ (\A j : Used(j)' = Used(j))
  BY <1>1 DEF IInv, CounterCapped, Used
<1>5. KeptSeqsDiffer' /\ KeptSeqsCounted'
  BY <1>1, <1>4, SeqsKept DEF Keeps, callVars
<1>6. RecordsTrue' /\ ReportsTrue'
  BY <1>1 DEF IInv, RecordsTrue, ReportsTrue, Vouched, RecordKey, callVars
<1> QED
  BY <1>2, <1>3, <1>4, <1>5, <1>6 DEF IInv

\* A send that asks the platform for a passive reply takes a msg_seq nobody
\* keeps.
LEMMA PassiveStep ==
  ASSUME IInv, NEW q \in Sends, NEW s \in Sessions, NEW c \in Contents,
         NEW m \in Msgs, at[q] = "idle", ~PassiveBlocked(m),
         RunPassiveSend(q, s, c, m),
         UNCHANGED <<chat, expired, latest, known, records, accepted, unrecorded>>
  PROVE  IInv'
<1> DEFINE o == [chat |-> s, content |-> c, msg |-> m, seq |-> Used(m) + 1]
<1>1. /\ Used(m) \in Nat /\ Used(m) < RepliesPerMsg
      /\ o \in Orders \ {NoOrder} /\ order' = [order EXCEPT ![q] = o]
  <2>1. Used(m) \in Nat
    BY UsedType DEF IInv
  <2>2. Used(m) < RepliesPerMsg
    BY <2>1, RepliesAssumption DEF PassiveBlocked
  <2> QED
    BY <2>1, <2>2, NamesAssumption DEF RunPassiveSend, Orders, NoOrder, Targets
<1>2. q \notin accepted /\ outcome[q] = "none"
  BY DEF IInv, AnswersTrue
<1>3. CASE Has(records, RecordKey(o)) /\ Ends(q, "already_sent")
           /\ UNCHANGED <<counter, forgot>>
  <2>1. SendTypes' /\ DictTypes'
    BY <1>1, <1>3 DEF IInv, SendTypes, DictTypes, Ends, States, Delivered
  <2>2. KeptSeqsDiffer' /\ KeptSeqsCounted'
    BY <1>1, <1>2, <1>3, SeqsKept
    DEF IInv, SendTypes, Ends, Keeps, InFlight, Used
  <2>3. CounterCapped'
    BY <1>3 DEF IInv, CounterCapped, Used
  <2>4. AnswersTrue'
    BY <1>1, <1>2, <1>3 DEF IInv, SendTypes, AnswersTrue, Ends, InFlight
  <2>5. \A key : Vouched(key) => Vouched(key)'
    BY <1>1, <1>2, <1>3, VouchedKept DEF IInv, SendTypes, RecordKey
  <2>6. RecordsTrue'
    BY <2>5 DEF IInv, RecordsTrue
  <2>7. order'[q] = o /\ Vouched(RecordKey(o))
    BY <1>1, <1>3 DEF IInv, SendTypes, RecordsTrue, Has
  <2>8. ReportsTrue'
    BY <1>1, <1>3, <2>5, <2>7
    DEF IInv, SendTypes, ReportsTrue, Ends, RecordKey, Has
  <2> QED
    BY <2>1, <2>2, <2>3, <2>4, <2>6, <2>8 DEF IInv
<1>4. CASE at' = [at EXCEPT ![q] = "posting"] /\ NextMsgSeq(m) /\ UNCHANGED outcome
  <2>1. /\ DictTypes'
        /\ forgot \subseteq forgot'
        /\ \A j : j \notin forgot' =>
                   Used(j)' = IF j = m THEN Used(m) + 1 ELSE Used(j)
        /\ \A j : Used(j)' \in {0, IF j = m THEN Used(m) + 1 ELSE Used(j)}
    BY <1>1, <1>4, CounterWritten DEF IInv, NextMsgSeq
  <2>2. SendTypes'
    BY <1>1, <1>4 DEF IInv, SendTypes, States, InFlight
  <2>3. CounterCapped'
    BY <1>1, <2>1, RepliesAssumption DEF IInv, CounterCapped
  <2>4. /\ Keeps(q)' /\ order'[q] = o
        /\ \A p \in Sends : p # q => (Keeps(p)' <=> Keeps(p)) /\ order'[p] = order[p]
    BY <1>1, <1>4 DEF IInv, SendTypes, Keeps, InFlight
  <2>5. KeptSeqsCounted'
    <3> SUFFICES ASSUME NEW p \in Sends, KeepsCounted(p)'
                 PROVE  (order[p].seq \in 1 .. Used(order[p].msg))'
      BY DEF KeptSeqsCounted
    <3>1. CASE p = q
      <4>1. order'[p].msg = m /\ order'[p].seq = Used(m) + 1 /\ m \notin forgot'
        BY <2>4, <3>1 DEF KeepsCounted
      <4>2. Used(m)' = Used(m) + 1
        BY <2>1, <4>1
      <4>3. Used(order[p].msg)' = Used(m) + 1
        BY <4>1, <4>2 DEF Used
      <4> QED
        BY <1>1, <4>1, <4>3
    <3>2. CASE p # q
      <4>1. KeepsCounted(p) /\ order'[p] = order[p] /\ order[p].msg \notin forgot'
        BY <2>1, <2>4, <3>2 DEF KeepsCounted, IsPassive
      <4>2. order[p].seq \in 1 .. Used(order[p].msg)
        BY <4>1 DEF IInv, KeptSeqsCounted
      <4>3. Used(order[p].msg) \in Nat
        BY UsedType DEF IInv
      <4> QED
        <5> DEFINE j == order[p].msg
        <5>1. Used(j)' = IF j = m THEN Used(m) + 1 ELSE Used(j)
          BY <2>1, <4>1
        <5>2. Used(order[p].msg)' \in {Used(j), Used(j) + 1}
          BY <4>1, <5>1 DEF Used
        <5> QED
          BY <4>1, <4>2, <4>3, <5>2
    <3> QED
      BY <3>1, <3>2
  <2>6. KeptSeqsDiffer'
    <3> SUFFICES ASSUME NEW p \in Sends, NEW r \in Sends, KeepsCounted(p)',
                        Keeps(r)', SameSeq(p, r)', p # r
                 PROVE  FALSE
      BY DEF KeptSeqsDiffer
    <3>1. order'[p].msg \notin forgot
      BY <2>1 DEF KeepsCounted
    <3>2. ASSUME NEW x \in Sends, x # q, Keeps(x), order[x].msg = m,
                 m \notin forgot, order[x].seq = o.seq
          PROVE  FALSE
      <4>1. KeepsCounted(x)
        BY <3>2 DEF KeepsCounted, IsPassive
      <4> QED
        BY <1>1, <3>2, <4>1 DEF IInv, KeptSeqsCounted
    <3>3. CASE p = q
      BY <2>4, <3>1, <3>2, <3>3 DEF SameSeq
    <3>4. CASE r = q
      BY <2>4, <3>1, <3>2, <3>4 DEF SameSeq, KeepsCounted
    <3>5. CASE p # q /\ r # q
      BY <2>1, <2>4, <3>1, <3>5 DEF IInv, KeptSeqsDiffer, KeepsCounted, IsPassive, SameSeq
    <3> QED
      BY <3>3, <3>4, <3>5
  <2>7. AnswersTrue'
    BY <1>1, <1>2, <1>4, <2>1 DEF IInv, SendTypes, AnswersTrue, InFlight, Delivered
  <2>8. RecordsTrue' /\ ReportsTrue'
    BY <1>1, <1>2, <1>4, <2>1, UnreportedKept DEF IInv, SendTypes, Delivered
  <2> QED
    BY <2>1, <2>2, <2>3, <2>5, <2>6, <2>7, <2>8 DEF IInv
<1> QED
  BY <1>3, <1>4 DEF RunPassiveSend

\* A send that is skipped, sends an active message or finds it sent.
LEMMA ActiveStep ==
  ASSUME IInv, NEW q \in Sends, at[q] = "idle", UNCHANGED <<counter, forgot>>,
         (\E s \in Sessions, c \in Contents : RunActiveSend(q, s, c))
           \/ (Ends(q, "skipped") /\ UNCHANGED order),
         UNCHANGED <<chat, expired, latest, known, records, accepted, unrecorded>>
  PROVE  IInv'
<1>1. q \notin accepted /\ outcome[q] = "none"
  BY DEF IInv, AnswersTrue
<1>2. DictTypes' /\ CounterCapped'
  BY DEF IInv, DictTypes, CounterCapped, Used
<1>3. CASE Ends(q, "skipped") /\ UNCHANGED order
  <2>1. SendTypes'
    BY <1>3 DEF IInv, SendTypes, Ends, States
  <2>2. AnswersTrue'
    BY <1>1, <1>3 DEF IInv, SendTypes, AnswersTrue, Ends, InFlight, Delivered
  <2>3. KeptSeqsDiffer' /\ KeptSeqsCounted'
    BY <1>1, <1>3, SeqsKept DEF IInv, SendTypes, Ends, Keeps, InFlight, Used
  <2>4. RecordsTrue' /\ ReportsTrue'
    BY <1>1, <1>3, UnreportedKept DEF IInv, SendTypes, Ends, Delivered
  <2> QED
    BY <1>2, <2>1, <2>2, <2>3, <2>4 DEF IInv
<1>4. ASSUME NEW s \in Sessions, NEW c \in Contents, RunActiveSend(q, s, c)
      PROVE  IInv'
  <2> DEFINE o == [chat |-> s, content |-> c, msg |-> ActiveMsgId, seq |-> 0]
  <2>1. o \in Orders \ {NoOrder} /\ o.msg \notin Msgs /\ order' = [order EXCEPT ![q] = o]
    BY <1>4, NamesAssumption DEF RunActiveSend, Orders, NoOrder, Targets
  <2>2. \A p \in Sends : Keeps(p)' /\ IsPassive(p)' => Keeps(p) /\ order'[p] = order[p]
    BY <1>1, <1>4, <2>1, NamesAssumption
    DEF IInv, SendTypes, RunActiveSend, Ends, Keeps, InFlight, IsPassive
  <2>3. KeptSeqsDiffer'
    BY <2>2 DEF IInv, KeptSeqsDiffer, KeepsCounted, SameSeq, IsPassive
  <2>4. KeptSeqsCounted'
    BY <2>2 DEF IInv, KeptSeqsCounted, KeepsCounted, Used, IsPassive
  <2>5. CASE Has(records, RecordKey(o)) /\ Ends(q, "already_sent")
    <3>1. SendTypes'
      BY <2>1, <2>5 DEF IInv, SendTypes, Ends, States, Delivered
    <3>2. AnswersTrue'
      BY <1>1, <2>1, <2>5 DEF IInv, SendTypes, AnswersTrue, Ends, InFlight
    <3>3. \A key : Vouched(key) => Vouched(key)'
      BY <1>1, <2>1, VouchedKept DEF IInv, SendTypes, RecordKey
    <3>4. order'[q] = o /\ Vouched(RecordKey(o))
      BY <2>1, <2>5 DEF IInv, SendTypes, RecordsTrue, Has
    <3>5. RecordsTrue' /\ ReportsTrue'
      BY <2>1, <2>5, <3>3, <3>4
      DEF IInv, SendTypes, RecordsTrue, ReportsTrue, Ends, RecordKey, Has
    <3> QED
      BY <1>2, <2>3, <2>4, <3>1, <3>2, <3>5 DEF IInv
  <2>6. CASE at' = [at EXCEPT ![q] = "posting"] /\ UNCHANGED outcome
    <3>1. SendTypes'
      BY <2>1, <2>6 DEF IInv, SendTypes, States, InFlight
    <3>2. AnswersTrue'
      BY <1>1, <2>1, <2>6 DEF IInv, SendTypes, AnswersTrue, InFlight, Delivered
    <3>3. RecordsTrue' /\ ReportsTrue'
      BY <1>1, <2>1, <2>6, UnreportedKept DEF IInv, SendTypes, Delivered
    <3> QED
      BY <1>2, <2>3, <2>4, <3>1, <3>2, <3>3 DEF IInv
  <2> QED
    BY <1>4, <2>5, <2>6 DEF RunActiveSend
<1> QED
  BY <1>3, <1>4

\* The platform handles a request.
LEMMA PlatformStep ==
  ASSUME IInv, NEW q \in Sends, PlatformAnswers(q) \/ PlatformHandlesLost(q)
  PROVE  IInv'
<1>1. /\ UNCHANGED <<chat, expired, latest, known, counter, records, order,
                     outcome, forgot, unrecorded>>
      /\ at[q] \in {"posting", "lost"} /\ accepted' \in {accepted, accepted \cup {q}}
      /\ IsDuplicate(q) => accepted' = accepted
      /\ \E v \in {"ok", "pending_audit", "duplicate", "refused", "done"} :
            /\ at' = [at EXCEPT ![q] = v]
            /\ v = "done" <=> at[q] = "lost"
            /\ v \in {"ok", "pending_audit"} => accepted' = accepted \cup {q}
            /\ v \in {"duplicate", "refused"} => accepted' = accepted
            /\ v = "duplicate" => IsDuplicate(q)
  BY DEF PlatformAnswers, PlatformHandlesLost
<1>2. DictTypes' /\ CounterCapped' /\ SendTypes'
  BY <1>1 DEF IInv, DictTypes, CounterCapped, SendTypes, States, InFlight, Used
<1>3. KeptSeqsDiffer' /\ KeptSeqsCounted'
  BY <1>1, SeqsKept DEF IInv, SendTypes, Keeps, InFlight, Used
<1>4. IsDuplicate(q) => order[q].msg \in forgot
  <2> SUFFICES ASSUME NEW p \in accepted, SameSeq(p, q),
                      order[q].msg # ActiveMsgId, order[q].msg \notin forgot
               PROVE  FALSE
    BY DEF IsDuplicate
  <2>1. p \in Sends /\ q \notin accepted /\ order[q] \in Orders \ {NoOrder}
    BY <1>1 DEF IInv, SendTypes, AnswersTrue, InFlight
  <2>2. Keeps(p) /\ Keeps(q) /\ IsPassive(q) /\ order[p].msg = order[q].msg
    BY <1>1, <2>1 DEF Keeps, InFlight, IsPassive, Orders, Targets, SameSeq
  <2> QED
    BY <2>1, <2>2 DEF IInv, KeptSeqsDiffer, KeepsCounted, IsPassive
<1>5. AnswersTrue'
  BY <1>1, <1>4 DEF IInv, SendTypes, AnswersTrue, InFlight, Delivered
<1>6. RecordsTrue' /\ ReportsTrue'
  <2>1. outcome[q] \notin Delivered
    BY <1>1 DEF IInv, AnswersTrue
  <2> QED
    BY <1>1, <2>1, UnreportedKept
<1> QED
  BY <1>2, <1>3, <1>5, <1>6 DEF IInv

\* A send that raises forgets its request.
LEMMA RaisingStep ==
  ASSUME IInv, NEW q \in Sends, SendRaises(q)
  PROVE  IInv'
<1>1. DictTypes' /\ CounterCapped' /\ SendTypes'
  BY DEF SendRaises, IInv, DictTypes, CounterCapped, SendTypes, States, InFlight, Used
<1>2. KeptSeqsDiffer' /\ KeptSeqsCounted'
  BY SeqsKept DEF SendRaises, IInv, SendTypes, Keeps, InFlight, Used
<1>3. AnswersTrue'
  BY DEF SendRaises, IInv, SendTypes, AnswersTrue, InFlight, Delivered
<1>4. RecordsTrue' /\ ReportsTrue'
  BY UnreportedKept DEF SendRaises, IInv, SendTypes, Delivered
<1> QED
  BY <1>1, <1>2, <1>3, <1>4 DEF IInv

\* The answer reaches the send: a content that is out is recorded, and the
\* msg_seq of a refused one is given back if it is still the latest.
LEMMA AnswerStep ==
  ASSUME IInv, NEW q \in Sends, SendEnds(q)
  PROVE  IInv'
<1> DEFINE o == order[q]
<1>1. /\ UNCHANGED <<chat, expired, latest, known, order, accepted>>
      /\ \E v \in Delivered \cup {"failed"} :
            Ends(q, v) /\ (v = "failed" <=> at[q] = "refused")
      /\ at[q] \in {"ok", "pending_audit", "duplicate", "refused"}
  BY DEF SendEnds, Ends, Delivered
<1>2. SendTypes' /\ AnswersTrue' /\ o \in Orders \ {NoOrder}
  <2>1. PICK v \in Delivered \cup {"failed"} : Ends(q, v)
    BY <1>1
  <2>2. SendTypes'
    BY <1>1, <2>1 DEF IInv, SendTypes, Ends, States
  <2>3. o \in Orders \ {NoOrder}
    BY <1>1 DEF IInv, AnswersTrue, InFlight
  <2>4. /\ at'[q] = "done"
        /\ \A p \in Sends : p # q => at'[p] = at[p] /\ outcome'[p] = outcome[p]
    BY <2>1 DEF IInv, SendTypes, Ends
  <2>5. AnswersTrue'
    <3>1. forgot \subseteq forgot'
      BY DEF SendEnds, ReleaseUnusedMsgSeq, PutCounter
    <3> QED
      BY <1>1, <2>4, <3>1 DEF IInv, AnswersTrue, InFlight
  <2> QED
    BY <2>2, <2>3, <2>5
<1>3. CASE at[q] # "refused"
  <2>1. PutRecord(o) /\ UNCHANGED <<counter, forgot>>
    BY <1>1, <1>3 DEF SendEnds, Recorded
  <2>2. DictTypes' /\ CounterCapped'
    BY <1>1, <2>1 DEF IInv, DictTypes, CounterCapped, Used
  <2>3. KeptSeqsDiffer' /\ KeptSeqsCounted'
    BY <1>1, <2>1, SeqsKept DEF IInv, SendTypes, Ends, Keeps, InFlight, Used
  <2>4. Vouched(RecordKey(o))
    <3>1. CASE at[q] \in {"ok", "pending_audit"}
      BY <3>1 DEF IInv, AnswersTrue, Vouched
    <3>2. CASE at[q] = "duplicate"
      BY <3>2 DEF IInv, AnswersTrue, Vouched, RecordKey
    <3> QED
      BY <1>1, <1>3, <3>1, <3>2
  <2>5. \A key : Vouched(key) => Vouched(key)'
    BY <1>1, <2>1 DEF Vouched, RecordKey
  <2>6. RecordsTrue'
    BY <2>1, <2>4, <2>5, RecordWritten DEF IInv, RecordsTrue
  <2>7. ReportsTrue'
    <3>1. /\ DOMAIN records.value \cup {RecordKey(o)}
                \subseteq DOMAIN records'.value \cup unrecorded'
          /\ unrecorded \subseteq unrecorded'
      BY <2>1, RecordWritten
    <3>2. \A p \in Sends : p # q => outcome'[p] = outcome[p]
      BY <1>1 DEF IInv, SendTypes, Ends
    <3>3. \A p \in Sends : RecordKey(order[p])' = RecordKey(order[p])
      BY <1>1 DEF RecordKey
    <3> QED
      BY <2>4, <2>5, <3>1, <3>2, <3>3 DEF IInv, ReportsTrue
  <2> QED
    BY <1>2, <2>2, <2>3, <2>6, <2>7 DEF IInv
<1>4. CASE at[q] = "refused"
  <2>1. /\ UNCHANGED <<records, unrecorded>> /\ q \notin accepted
        /\ IF o.msg # ActiveMsgId
             THEN ReleaseUnusedMsgSeq(o) ELSE UNCHANGED <<counter, forgot>>
    BY <1>4 DEF SendEnds, Recorded, IInv, AnswersTrue
  <2>2. CASE UNCHANGED <<counter, forgot>>
    <3>1. DictTypes' /\ CounterCapped'
      BY <1>1, <2>2 DEF IInv, DictTypes, CounterCapped, Used
    <3>2. KeptSeqsDiffer' /\ KeptSeqsCounted'
      BY <1>1, <2>2, SeqsKept DEF IInv, SendTypes, Ends, Keeps, InFlight, Used
    <3>3. RecordsTrue' /\ ReportsTrue'
      BY <1>1, <1>4, <2>1, <2>2, UnreportedKept DEF IInv, SendTypes, Ends, Delivered
    <3> QED
      BY <1>2, <3>1, <3>2, <3>3 DEF IInv
  <2>3. CASE o.msg \in Msgs /\ Used(o.msg) = o.seq /\ PutCounter(o.msg, o.seq - 1)
             /\ Has(counter, o.msg)
    <3>1. o.seq \in Nat /\ o.seq > 0 /\ o.seq - 1 \in Nat
      BY <1>2, <2>3 DEF Orders, IInv, SendTypes
    <3>2. /\ DictTypes'
          /\ forgot \subseteq forgot'
          /\ \A j : j \notin forgot' =>
                     Used(j)' = IF j = o.msg THEN o.seq - 1 ELSE Used(j)
          /\ \A j : Used(j)' \in {0, IF j = o.msg THEN o.seq - 1 ELSE Used(j)}
      BY <1>1, <2>3, <3>1, CounterWritten DEF IInv
    <3>3. CounterCapped'
      BY <2>3, <3>1, <3>2, RepliesAssumption DEF IInv, CounterCapped
    <3>4. ASSUME NEW p \in Sends, Keeps(p)'
          PROVE  p # q /\ Keeps(p) /\ order'[p] = order[p]
      BY <1>1, <2>1, <3>4 DEF IInv, SendTypes, Ends, Keeps, InFlight
    <3>5. KeptSeqsDiffer'
      BY <3>2, <3>4 DEF IInv, KeptSeqsDiffer, KeepsCounted, SameSeq, IsPassive
    <3>6. KeptSeqsCounted'
      <4> SUFFICES ASSUME NEW p \in Sends, KeepsCounted(p)'
                   PROVE  (order[p].seq \in 1 .. Used(order[p].msg))'
        BY DEF KeptSeqsCounted
      <4> DEFINE j == order[p].msg
      <4>1. /\ p # q /\ KeepsCounted(p) /\ order'[p] = order[p]
            /\ j \in Msgs \ forgot'
        BY <3>2, <3>4 DEF KeepsCounted, IsPassive
      <4>2. order[p].seq \in 1 .. Used(j) /\ Used(j) \in Nat
        BY <4>1, UsedType DEF IInv, KeptSeqsCounted
      <4>3. j = o.msg => order[p].seq # o.seq
        BY <1>4, <4>1 DEF IInv, KeptSeqsDiffer, SameSeq, Keeps, InFlight
      <4>4. Used(order[p].msg)' = IF j = o.msg THEN o.seq - 1 ELSE Used(j)
        <5>1. Used(j)' = IF j = o.msg THEN o.seq - 1 ELSE Used(j)
          BY <3>2, <4>1
        <5> QED
          BY <4>1, <5>1 DEF Used
      <4>5. CASE j = o.msg
        BY <2>3, <3>1, <4>1, <4>2, <4>3, <4>4, <4>5
      <4>6. CASE j # o.msg
        BY <4>1, <4>2, <4>4, <4>6
      <4> QED
        BY <4>5, <4>6
    <3>7. RecordsTrue' /\ ReportsTrue'
      BY <1>1, <1>4, <2>1, <3>2, UnreportedKept DEF IInv, SendTypes, Ends, Delivered
    <3> QED
      BY <1>2, <3>2, <3>3, <3>5, <3>6, <3>7 DEF IInv
  <2> QED
    BY <1>2, <2>1, <2>2, <2>3 DEF ReleaseUnusedMsgSeq, Orders, Targets
<1> QED
  BY <1>3, <1>4

\* The invariant is inductive.
LEMMA NextIInv == IInv /\ [Next]_vars => IInv'
<1> SUFFICES ASSUME IInv, [Next]_vars PROVE IInv'
  OBVIOUS
<1>1. CASE UNCHANGED vars
  <2>1. SendTypes' /\ DictTypes' /\ AnswersTrue'
    BY <1>1 DEF vars, callVars, IInv, SendTypes, DictTypes, AnswersTrue
  <2>2. KeptSeqsDiffer' /\ KeptSeqsCounted' /\ CounterCapped'
    BY <1>1, SeqsKept DEF vars, callVars, IInv, Keeps, CounterCapped, Used
  <2>3. RecordsTrue' /\ ReportsTrue'
    BY <1>1 DEF vars, callVars, IInv, RecordsTrue, ReportsTrue, Vouched, RecordKey
  <2> QED
    BY <2>1, <2>2, <2>3 DEF IInv
<1>2. ASSUME NEW m \in Msgs,
             (\E s \in Sessions : RememberSession(m, s)) \/ WindowExpires(m)
      PROVE  IInv'
  BY <1>2, InboundStep
<1>3. ASSUME NEW q \in Sends, NEW s \in Sessions, NEW c \in Contents,
             NEW replyTo \in Msgs \cup {None}, RunSendFlow(q, s, c, replyTo)
      PROVE  IInv'
  <2> DEFINE m == ReplyTarget(s, replyTo)
  <2>1. ~PassiveBlocked(m) => m \in Msgs
    BY TargetType DEF IInv, PassiveBlocked
  <2>2. CASE ~PassiveBlocked(m) /\ RunPassiveSend(q, s, c, m)
    BY <1>3, <2>1, <2>2, PassiveStep DEF RunSendFlow
  <2>3. CASE RunActiveSend(q, s, c)
    BY <1>3, <2>3, ActiveStep DEF RunSendFlow, RunActiveSend
  <2>4. CASE Ends(q, "skipped") /\ UNCHANGED <<order, counter, forgot>>
    BY <1>3, <2>4, ActiveStep DEF RunSendFlow
  <2> QED
    BY <1>3, <2>2, <2>3, <2>4 DEF RunSendFlow
<1>4. ASSUME NEW q \in Sends,
             \/ PlatformAnswers(q) \/ PlatformHandlesLost(q)
             \/ SendEnds(q) \/ SendRaises(q)
      PROVE  IInv'
  BY <1>4, PlatformStep, AnswerStep, RaisingStep
<1> QED
  BY <1>1, <1>2, <1>3, <1>4 DEF Next, Rest

-----------------------------------------------------------------------------
(***************************************************************************)
(* What follows for every behaviour.                                       *)
(***************************************************************************)

\* The inductive invariant holds in every behaviour.
LEMMA AlwaysIInv == Spec => []IInv
  BY InitIInv, NextIInv, PTL DEF Spec

\* No msg_seq that the platform has accepted or may accept is used twice,
\* whatever fails, is given back or arrives late, for any number of sends.
THEOREM SeqIsNeverReused == Spec => []SeqNeverReused
<1>1. IInv => SeqNeverReused
  BY DEF IInv, SeqNeverReused, KeptSeqsDiffer, KeepsCounted, Keeps, Holds, InFlight
<1> QED
  BY <1>1, AlwaysIInv, PTL

\* What is reported sent has been accepted by the platform.
THEOREM ReportsAreTrue == Spec => []ReportedWasSent
<1>1. IInv => ReportedWasSent
  <2> SUFFICES ASSUME IInv, NEW q \in Sends, outcome[q] \in Delivered,
                      order[q].msg \notin forgot
               PROVE  \E p \in Sends :
                        /\ Accepted(p, order[q].msg, order[q].content)
                        /\ order[p].chat = order[q].chat
    BY DEF ReportedWasSent, Delivered
  <2>1. PICK p \in accepted : RecordKey(order[p]) = RecordKey(order[q])
    BY DEF IInv, ReportsTrue, Vouched, RecordKey
  <2> QED
    BY <2>1 DEF Accepted, RecordKey, IInv, SendTypes
<1> QED
  BY <1>1, AlwaysIInv, PTL

\* Never more passive replies than the cap are accepted or under way for a
\* message whose counter is remembered.
THEOREM CapIsKept == Spec => []PassiveCapKept
<1>1. IInv => PassiveCapKept
  <2> SUFFICES ASSUME IInv, NEW m \in Msgs \ forgot
               PROVE  Cardinality({q \in Sends : Holds(q) /\ order[q].msg = m})
                        <= RepliesPerMsg
    BY DEF PassiveCapKept
  <2> DEFINE S == {q \in Sends : Holds(q) /\ order[q].msg = m}
             seqOf == [q \in S |-> order[q].seq]
  <2>1. \A q \in S : KeepsCounted(q)
    BY DEF KeepsCounted, Keeps, Holds, IsPassive, InFlight
  <2>2. Used(m) \in Nat /\ Used(m) <= RepliesPerMsg
    BY UsedType DEF IInv, CounterCapped
  <2>3. seqOf \in Injection(S, 1 .. RepliesPerMsg)
    <3>1. \A q \in S : order[q].seq \in 1 .. RepliesPerMsg
      BY <2>1, <2>2, RepliesAssumption DEF IInv, KeptSeqsCounted
    <3>2. \A p, q \in S : order[p].seq = order[q].seq => p = q
      BY <2>1 DEF IInv, KeptSeqsDiffer, KeepsCounted, SameSeq
    <3> QED
      BY <3>1, <3>2 DEF Injection, IsInjective
  <2>4. IsFiniteSet(1 .. RepliesPerMsg) /\ Cardinality(1 .. RepliesPerMsg) = RepliesPerMsg
    BY FS_Interval, RepliesAssumption
  <2> QED
    BY <2>3, <2>4, FS_Injection, RepliesAssumption
<1> QED
  BY <1>1, AlwaysIInv, PTL

\* Once a send has returned that its content is out, no other asks the
\* platform for the same content to the same message, as long as the record
\* is remembered.
THEOREM RetriesAreRecognised == Spec => RetryIsRecognised
<1> DEFINE Recognised ==
      \A p, q \in Sends :
        (at[q] = "idle" /\ at'[q] = "posting"
           /\ outcome[p] \in Delivered
           /\ RecordKey(order[p]) = RecordKey(order'[q]))
          => RecordKey(order[p]) \in unrecorded
<1>1. IInv /\ Next => Recognised
  <2> SUFFICES ASSUME IInv, Next, NEW p \in Sends, NEW q \in Sends,
                      at[q] = "idle", at'[q] = "posting", outcome[p] \in Delivered,
                      RecordKey(order[p]) = RecordKey(order'[q])
               PROVE  RecordKey(order[p]) \in unrecorded
    OBVIOUS
  <2>1. RecordKey(order[p]) \in DOMAIN records.value \cup unrecorded
    BY DEF IInv, ReportsTrue
  <2>2. PICK s \in Sessions, c \in Contents, replyTo \in Msgs \cup {None} :
          RunSendFlow(q, s, c, replyTo)
    <3>1. ~UNCHANGED at
      BY DEF IInv, SendTypes
    <3>2. ASSUME NEW x \in Sends,
                 \/ PlatformAnswers(x) \/ SendEnds(x)
                 \/ SendRaises(x) \/ PlatformHandlesLost(x)
          PROVE  FALSE
      <4>1. \E v \in States \ {"idle", "posting"} :
              at[x] # "idle" /\ at' = [at EXCEPT ![x] = v]
        BY <3>2 DEF PlatformAnswers, SendEnds, SendRaises, PlatformHandlesLost,
                    Ends, States, InFlight
      <4> QED
        BY <4>1 DEF IInv, SendTypes
    <3>3. ASSUME NEW x \in Sends, NEW s \in Sessions, NEW c \in Contents,
                 NEW replyTo \in Msgs \cup {None}, RunSendFlow(x, s, c, replyTo)
          PROVE  x = q
      <4>1. \E v \in States : at' = [at EXCEPT ![x] = v]
        BY <3>3 DEF RunSendFlow, RunPassiveSend, RunActiveSend, Ends, States, InFlight
      <4> QED
        BY <4>1 DEF IInv, SendTypes
    <3> QED
      BY <3>1, <3>2, <3>3
      DEF Next, Rest, vars, callVars, RememberSession, WindowExpires
  <2>3. ~Has(records, RecordKey(order'[q]))
    BY <2>2 DEF RunSendFlow, RunPassiveSend, RunActiveSend, Ends, IInv, SendTypes
  <2> QED
    BY <2>1, <2>3 DEF Has
<1>2. IInv /\ [Next]_vars => [Recognised]_vars
  BY <1>1
<1>3. RetryIsRecognised <=> [][Recognised]_vars
  BY PTL DEF RetryIsRecognised, Delivered
<1> QED
  BY <1>2, <1>3, AlwaysIInv, PTL DEF Spec
=============================================================================
