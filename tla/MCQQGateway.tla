---------------------------- MODULE MCQQGateway ----------------------------
(***************************************************************************)
(* A small instance, for TLC, of the connection to QQ: the shards of the   *)
(* receiver (QQGateway), the identify slots they share (IdentifySlots),    *)
(* the tokens requests are made with (QQTokens), and the files that come   *)
(* and go by it (QQMedia).  They share no variable, so a behaviour         *)
(* explores one of them while the others rest.                             *)
(***************************************************************************)
EXTENDS IdentifySlots, Sequences, SequenceTheorems, WellFoundedInduction, TLC, TLAPS

CONSTANTS
  GatewayShards, MaxRejections, Refusals, FatalCodes, TokenErrors, MaxSeq, MaxFaults,
  Requests, MaxTokens,
  Attachments, Chats, FileName(_), FileCalls, FileSize, Blocks, StateSize, MaxCrashes \* files

VARIABLES part, run, aborting, cause, stop, ext, stopping, pc, sid, seq, est, rej,
          hb, signal, wire, open, qq, handed, faults,
          tToken, tExpired, tHolder, tWaiting, tAt, tUses, tTries, tIssued, tRevoked,
          tFirst, tRejected, tAged, tLost,
          fRecord, fCall, fAt, fPos, fFile, fData, fPart, fDest, fGot, fUploaded, fParts,
          fChatOf, fShared, fCrashes

Gateway == INSTANCE QQGateway WITH Shards <- GatewayShards

Tokens == INSTANCE QQTokens WITH
  token <- tToken, expired <- tExpired, holder <- tHolder, waiting <- tWaiting, at <- tAt,
  uses <- tUses, tries <- tTries, issued <- tIssued, revoked <- tRevoked, first <- tFirst,
  rejected <- tRejected, aged <- tAged, lost <- tLost

\* FileName and Blocks here: every attachment has a name of its own, and the platform asks
\* for one part or two, the last of which may end where the file does or beyond.
OwnName(m) == m
OneOrTwo == {<<1, 1>>, <<1, 2>>, <<2>>}
Media == INSTANCE QQMedia WITH
  Messages <- Attachments, Calls <- FileCalls, Size <- FileSize,
  record <- fRecord, call <- fCall, at <- fAt, pos <- fPos, open <- fFile, data <- fData,
  part <- fPart, dest <- fDest, got <- fGot, uploaded <- fUploaded, parts <- fParts,
  chatOf <- fChatOf, shared <- fShared, crashes <- fCrashes

ASSUME Receivers ==
  Gateway!GatewayAssumption /\ Tokens!QQTokensConstants /\ Media!QQMediaConstants

gatewayVars == <<run, aborting, cause, stop, ext, stopping, pc, sid, seq, est, rej,
                 hb, signal, wire, open, qq, handed, faults>>
tokenVars == <<tToken, tExpired, tHolder, tWaiting, tAt, tUses, tTries, tIssued, tRevoked,
               tFirst, tRejected, tAged, tLost>>
mediaVars == <<fRecord, fCall, fAt, fPos, fFile, fData, fPart, fDest, fGot, fUploaded,
               fParts, fChatOf, fShared, fCrashes>>
allVars == <<part, vars, gatewayVars, tokenVars, mediaVars>>

PartsInit ==
  /\ part \in {"shards", "slots", "tokens", "files"}
  /\ Init /\ Gateway!Init /\ Tokens!Init /\ Media!Init

OfShards(A)  == part = "shards" /\ A /\ UNCHANGED <<part, vars, tokenVars, mediaVars>>
OfSlots(A)   == part = "slots" /\ A /\ UNCHANGED <<part, gatewayVars, tokenVars, mediaVars>>
OfTokens(A)  == part = "tokens" /\ A /\ UNCHANGED <<part, vars, gatewayVars, mediaVars>>
OfMedia(A)   == part = "files" /\ A /\ UNCHANGED <<part, vars, gatewayVars, tokenVars>>

\* Messages and calls are interchangeable: they come in the order of their names.
MediaNext ==
  \/ \E m \in Attachments, s \in Chats :
       (\A k \in 1 .. m - 1 : fChatOf[k] # "none") /\ OfMedia(Media!Arrives(m, s))
  \/ \E c \in FileCalls :
       \/ \E m \in Attachments, s \in Chats :
            /\ \A d \in 1 .. c - 1 : fAt[d] # "idle"
            /\ \/ OfMedia(Media!Sends(c, m, s))
               \/ \E kind \in {"prompt", "view", "fetch"} :
                    OfMedia(Media!Begins(c, kind, m, s))
       \/ OfMedia(Media!Gets(c)) \/ OfMedia(Media!Writes(c)) \/ OfMedia(Media!BreaksOff(c))
       \/ OfMedia(Media!Replaces(c)) \/ OfMedia(Media!Reads(c))
       \/ OfMedia(Media!Prepares(c)) \/ OfMedia(Media!PutsPart(c)) \/ OfMedia(Media!Merges(c))
  \/ OfMedia(Media!Crashes)

\* Requests are interchangeable: they begin in the order of their numbers.
PartsNext ==
  \/ MediaNext
  \/ OfShards(Gateway!Run)
  \/ OfShards(Gateway!ResolveFails) \/ OfShards(Gateway!ResolveDenied)
  \/ OfShards(Gateway!GatewayStops) \/ OfShards(Gateway!StopCalled)
  \/ \E s \in GatewayShards :
       \/ OfShards(Gateway!Shard(s)) \/ OfShards(Gateway!Breaks(s))
       \/ OfShards(Gateway!OfQQ(s))
  \/ OfSlots(Tick)
  \/ \E s \in Shards : OfSlots(Wants(s)) \/ OfSlots(Takes(s)) \/ OfSlots(Waits(s))
  \/ \E r \in Requests :
       \/ (\A q \in 1 .. (r - 1) : tAt[q] # "idle") /\ OfTokens(Tokens!Asks(r))
       \/ OfTokens(Tokens!Locks(r)) \/ OfTokens(Tokens!Fetches(r))
       \/ OfTokens(Tokens!Rejects(r)) \/ OfTokens(Tokens!Answers(r))
  \/ OfTokens(Tokens!Expires)
  \/ \E t \in 1..MaxTokens : OfTokens(Tokens!Revokes(t))

PartsSpec ==
  /\ PartsInit /\ [][PartsNext]_allVars
  /\ WF_allVars(OfShards(Gateway!Run))
  /\ \A s \in GatewayShards : WF_allVars(OfShards(Gateway!Shard(s)))

-----------------------------------------------------------------------------
\* Events are handed over once and in order, across resumes:
\* _identify_or_resume and _dispatch_if_needed.
EventsAreHandedOnce == Gateway!EventsAreHandedOnce

\* A token is dropped only when it was rejected, and fetched only when one is needed:
\* QQTokenProvider, QQOpenAPI.request.
TokensAreSpared == Tokens!TokensAreSpared

\* What the model sees and the chat is sent is what is kept under the name of the attachment
\* it asked for, whole and of its own chat, unless two downloads wrote to its name at a time,
\* and only a crash leaves a part behind: load_image, _write_body, upload_local_file.
FilesAreWhole == Media!FilesAreWhole

\* A shard has a session in the end, or the receiver has ended; and a close code that is fatal
\* ends the receiver for good, as QQWebSocketClient.stop does: _run_shard,
\* raise_for_close_code, stop.
ReceiverSettles ==
  (part = "shards" => Gateway!Recovers) /\ Gateway!FatalCodeEnds /\ Gateway!StopEnds

-----------------------------------------------------------------------------
(* The proof that identifies are spaced *)

\* Nothing is in the log at first.
LEMMA SlotsStart == Init => IInv
  BY SlotsAssumption DEF Init, IInv, Types, Dropped, WindowIsKept

\* The clock only moves attempts out of the window.
LEMMA TickKeepsSlots == IInv /\ Tick => IInv'
  BY SlotsAssumption DEF IInv, Types, Dropped, WindowIsKept, Tick, Gone

\* A slot is taken only when the attempt a limit before it has left.
LEMMA TakesKeepsSlots ==
  ASSUME NEW s \in Shards, IInv, Takes(s)
  PROVE  IInv'
<1>1. PICK k \in first .. count + 1 : Drops(k) /\ Free(k)
  BY DEF Takes
<1>2. Types'
  <2>1. now' \in Nat /\ count' \in Nat
    BY DEF IInv, Types, Takes
  <2>2. log' \in [1 .. count' -> Nat]
    BY DEF IInv, Types, Takes, Noted
  <2>3. first' \in 1 .. count' + 1
    BY <1>1 DEF IInv, Types, Takes, Drops
  <2> QED BY <2>1, <2>2, <2>3 DEF Types
<1>3. \A i \in 1 .. k - 1 : Gone(log[i])
  <2> SUFFICES ASSUME NEW i \in 1 .. k - 1 PROVE Gone(log[i])
    OBVIOUS
  <2>1. CASE i < first
    BY <2>1 DEF IInv, Types, Dropped
  <2>2. CASE i >= first
    BY <1>1, <2>2 DEF IInv, Types, Drops
  <2> QED BY <2>1, <2>2 DEF IInv, Types
<1>4. Dropped'
  BY <1>1, <1>3 DEF IInv, Types, Dropped, Takes, Drops, Gone
<1>5. WindowIsKept'
  <2> SUFFICES ASSUME NEW i \in 1 .. count', NEW j \in 1 .. count', j = i + MaxConcurrency
               PROVE  log'[j] - log'[i] >= Window
    BY DEF WindowIsKept
  <2>1. CASE j <= count
    BY <2>1, SlotsAssumption DEF IInv, Types, WindowIsKept, Takes
  <2>2. CASE j = count + 1
    <3>1. i < k /\ i <= count
      BY <1>1, <2>2, SlotsAssumption DEF IInv, Types, Free
    <3>2. now - log[i] >= Window
      BY <1>3, <3>1 DEF Gone, IInv, Types
    <3> QED BY <2>2, <3>1, <3>2 DEF Takes, Noted
  <2> QED BY <2>1, <2>2 DEF IInv, Types, Takes
<1> QED BY <1>2, <1>4, <1>5 DEF IInv

\* A shard that goes to sleep has dropped what has left the window.
LEMMA WaitsKeepsSlots ==
  ASSUME NEW s \in Shards, IInv, Waits(s)
  PROVE  IInv'
<1>1. PICK k \in first .. count + 1 : Drops(k)
  BY DEF Waits
<1>2. Types' /\ WindowIsKept'
  BY <1>1 DEF IInv, Types, WindowIsKept, Waits, Drops
<1>3. \A i \in 1 .. k - 1 : Gone(log[i])
  BY <1>1 DEF IInv, Types, Dropped, Drops
<1>4. Dropped'
  BY <1>1, <1>3 DEF IInv, Types, Dropped, Waits, Drops, Gone
<1> QED BY <1>2, <1>4 DEF IInv

\* Of any MaxConcurrency + 1 identifies in a row, by whichever shards, the
\* last is at least a window after the first (_await_identify_slot).
THEOREM IdentifiesAreSpaced == Spec => []WindowIsKept
<1>1. IInv /\ [Next]_vars => IInv'
  <2> SUFFICES ASSUME IInv, [Next]_vars PROVE IInv'
    OBVIOUS
  <2>1. CASE Tick
    BY <2>1, TickKeepsSlots
  <2>2. ASSUME NEW s \in Shards, Wants(s) PROVE IInv'
    BY <2>2 DEF Wants, IInv, Types, Dropped, WindowIsKept, Gone
  <2>3. ASSUME NEW s \in Shards, Takes(s) PROVE IInv'
    BY <2>3, TakesKeepsSlots
  <2>4. ASSUME NEW s \in Shards, Waits(s) PROVE IInv'
    BY <2>4, WaitsKeepsSlots
  <2>5. CASE UNCHANGED vars
    BY <2>5 DEF vars, IInv, Types, Dropped, WindowIsKept, Gone
  <2> QED BY <2>1, <2>2, <2>3, <2>4, <2>5 DEF Next
<1>2. IInv => WindowIsKept
  BY DEF IInv
<1> QED BY SlotsStart, <1>1, <1>2, PTL DEF Spec

-----------------------------------------------------------------------------
(* The proof that tokens are spared *)

\* Where a request may be.
Stages == {"idle", "again", "lock", "fetch", "send", "done", "audit", "failed", "denied"}

\* The types of the variables.
TokenTypes ==
  /\ tToken \in Nat /\ tExpired \in BOOLEAN /\ tIssued \in Nat
  /\ tHolder \in Requests \cup {0}
  /\ tAt \in [Requests -> Stages] /\ tUses \in [Requests -> Nat]
  /\ tTries \in [Requests -> Nat] /\ tFirst \in [Requests -> Nat]

\* The cached token is the last one issued, unless that was dropped.
CacheIsLast ==
  /\ tToken # 0 => tToken = tIssued
  /\ tToken = 0 /\ tIssued # 0 => tIssued \in tLost
  /\ tToken # 0 /\ tExpired => tToken \in tAged
  /\ \A t \in 1 .. tIssued : t < tIssued => t \in tLost \cup tAged
  /\ tLost \subseteq tRejected

\* Who fetches holds the lock, and there is nothing to use meanwhile.
FetchersHold == \A r \in Requests : tAt[r] = "fetch" => tHolder = r /\ ~Tokens!Valid

\* A request is sent again with another token than the one it was rejected with.
SecondTries ==
  \A r \in Requests :
    /\ tAt[r] \in {"idle", "again", "lock", "fetch", "send"} => tTries[r] <= 1
    /\ tAt[r] = "idle" => tTries[r] = 0
    /\ tAt[r] = "again" => tTries[r] = 1
    /\ tTries[r] <= 2
    /\ tAt[r] = "send" => tUses[r] \in 1 .. tIssued
    /\ tTries[r] = 1 /\ tAt[r] \in {"again", "lock", "fetch"} => tFirst[r] \in 1 .. tIssued /\ tFirst[r] # tToken
    /\ tTries[r] = 1 /\ tAt[r] = "send" => tUses[r] # tFirst[r]

\* The inductive invariant of the tokens.
TokensInv == TokenTypes /\ CacheIsLast /\ FetchersHold /\ SecondTries

\* Every step of the requests and of the platform keeps the invariant.
LEMMA NextKeepsTokens == ASSUME TokensInv, [Tokens!Next]_Tokens!vars PROVE TokensInv'
<1>0. TokenTypes /\ CacheIsLast /\ FetchersHold /\ SecondTries
  BY DEF TokensInv
<1>1. ASSUME NEW r \in Requests, Tokens!Asks(r) PROVE TokensInv'
  <2>1. TokenTypes'
    BY <1>0, <1>1, SMT DEF Tokens!Asks, TokenTypes, Stages, Tokens!cache, Tokens!sent
  <2>2. CacheIsLast'
    BY <1>0, <1>1, SMT DEF Tokens!Asks, CacheIsLast, Tokens!cache, Tokens!sent
  <2>3. FetchersHold'
    BY <1>0, <1>1, SMT DEF Tokens!Asks, TokenTypes, FetchersHold, Tokens!Valid, Tokens!cache
  <2>4. SecondTries'
    BY <1>0, <1>1, SMT
    DEF Tokens!Asks, TokenTypes, CacheIsLast, SecondTries, Tokens!Valid, Tokens!cache, Tokens!sent
  <2> QED
    BY <2>1, <2>2, <2>3, <2>4 DEF TokensInv
<1>2. ASSUME NEW r \in Requests, Tokens!Locks(r) PROVE TokensInv'
  <2>1. TokenTypes'
    BY <1>0, <1>2, SMT DEF Tokens!Locks, TokenTypes, Stages, Tokens!cache, Tokens!sent
  <2>2. CacheIsLast'
    BY <1>0, <1>2, SMT DEF Tokens!Locks, CacheIsLast, Tokens!cache, Tokens!sent
  <2>3. FetchersHold'
    BY <1>0, <1>2, Receivers, SMT
    DEF Tokens!QQTokensConstants, Tokens!Locks, Tokens!NeedsFetch, TokenTypes, FetchersHold,
        Tokens!Valid, Tokens!cache
  <2>4. SecondTries'
    BY <1>0, <1>2, SMT
    DEF Tokens!Locks, Tokens!NeedsFetch, TokenTypes, CacheIsLast, SecondTries, Tokens!Valid,
        Tokens!cache, Tokens!sent
  <2> QED
    BY <2>1, <2>2, <2>3, <2>4 DEF TokensInv
<1>3. ASSUME NEW r \in Requests, Tokens!Fetches(r) PROVE TokensInv'
  <2>1. TokenTypes'
    BY <1>0, <1>3, SMT DEF Tokens!Fetches, TokenTypes, Stages, Tokens!sent
  <2>2. CacheIsLast'
    BY <1>0, <1>3, SMT
    DEF Tokens!Fetches, TokenTypes, CacheIsLast, FetchersHold, Tokens!Valid, Tokens!sent
  <2>3. FetchersHold'
    BY <1>0, <1>3, SMT DEF Tokens!Fetches, TokenTypes, FetchersHold
  <2>4. SecondTries'
    BY <1>0, <1>3, SMT DEF Tokens!Fetches, TokenTypes, SecondTries, Tokens!sent
  <2> QED
    BY <2>1, <2>2, <2>3, <2>4 DEF TokensInv
<1>4. ASSUME NEW r \in Requests, Tokens!Rejects(r) PROVE TokensInv'
  <2>1. TokenTypes'
    BY <1>0, <1>4, SMT DEF Tokens!Rejects, TokenTypes, Stages
  <2>2. CacheIsLast'
    BY <1>0, <1>4, SMT DEF Tokens!Rejects, Tokens!Invalidated, CacheIsLast
  <2>3. FetchersHold'
    BY <1>0, <1>4, SMT DEF Tokens!Rejects, TokenTypes, FetchersHold, Tokens!Valid
  <2>4. SecondTries'
    BY <1>0, <1>4, SMT DEF Tokens!Rejects, Tokens!Invalidated, TokenTypes, SecondTries
  <2> QED
    BY <2>1, <2>2, <2>3, <2>4 DEF TokensInv
<1>5. ASSUME NEW r \in Requests, Tokens!Answers(r) PROVE TokensInv'
  <2>1. TokenTypes'
    BY <1>0, <1>5, SMT DEF Tokens!Answers, TokenTypes, Stages, Tokens!cache, Tokens!sent
  <2>2. CacheIsLast'
    BY <1>0, <1>5, SMT DEF Tokens!Answers, CacheIsLast, Tokens!cache, Tokens!sent
  <2>3. FetchersHold'
    BY <1>0, <1>5, SMT DEF Tokens!Answers, FetchersHold, Tokens!Valid, Tokens!cache
  <2>4. SecondTries'
    BY <1>0, <1>5, SMT DEF Tokens!Answers, TokenTypes, SecondTries, Tokens!cache, Tokens!sent
  <2> QED
    BY <2>1, <2>2, <2>3, <2>4 DEF TokensInv
<1>6. CASE Tokens!Expires
  <2>1. TokenTypes'
    BY <1>0, <1>6, SMT DEF Tokens!Expires, TokenTypes, Tokens!sent
  <2>2. CacheIsLast'
    BY <1>0, <1>6, SMT DEF Tokens!Expires, CacheIsLast, Tokens!sent
  <2>3. FetchersHold'
    BY <1>0, <1>6, SMT DEF Tokens!Expires, FetchersHold
  <2>4. SecondTries'
    BY <1>0, <1>6, SMT DEF Tokens!Expires, SecondTries, Tokens!sent
  <2> QED
    BY <2>1, <2>2, <2>3, <2>4 DEF TokensInv
<1>7. ASSUME NEW t \in 1 .. MaxTokens, Tokens!Revokes(t) PROVE TokensInv'
  <2>1. TokenTypes'
    BY <1>0, <1>7, SMT DEF Tokens!Revokes, TokenTypes, Tokens!sent
  <2>2. CacheIsLast'
    BY <1>0, <1>7, SMT DEF Tokens!Revokes, CacheIsLast, Tokens!sent
  <2>3. FetchersHold'
    BY <1>0, <1>7, SMT DEF Tokens!Revokes, FetchersHold, Tokens!Valid
  <2>4. SecondTries'
    BY <1>0, <1>7, SMT DEF Tokens!Revokes, SecondTries, Tokens!sent
  <2> QED
    BY <2>1, <2>2, <2>3, <2>4 DEF TokensInv
<1>8. CASE UNCHANGED Tokens!vars
  BY <1>8
  DEF Tokens!vars, Tokens!cache, Tokens!sent, TokensInv, TokenTypes, CacheIsLast, FetchersHold,
      SecondTries, Tokens!Valid
<1> QED
  BY <1>1, <1>2, <1>3, <1>4, <1>5, <1>6, <1>7, <1>8 DEF Tokens!Next

\* A token that works is kept, and a request not retried with the one that was refused,
\* for any number of requests: get_token, invalidate, request.
THEOREM TokensSpared == Tokens!Spec => []TokensAreSpared
<1>1. Tokens!Init => TokensInv
  <2>1. Tokens!Init => TokenTypes
    <3> SUFFICES ASSUME Tokens!Init PROVE TokenTypes
      OBVIOUS
    <3>1. tToken \in Nat /\ tIssued \in Nat /\ tHolder \in Requests \cup {0}
      BY DEF Tokens!Init
    <3>2. tExpired \in BOOLEAN
      BY DEF Tokens!Init
    <3>3. tAt \in [Requests -> Stages]
      BY DEF Tokens!Init, Stages
    <3>4. tUses \in [Requests -> Nat]
      BY DEF Tokens!Init
    <3>5. tTries \in [Requests -> Nat] /\ tFirst \in [Requests -> Nat]
      BY DEF Tokens!Init
    <3> QED
      BY <3>1, <3>2, <3>3, <3>4, <3>5 DEF TokenTypes
  <2>2. Tokens!Init => CacheIsLast
    BY SMT DEF Tokens!Init, CacheIsLast
  <2>3. Tokens!Init => FetchersHold /\ SecondTries
    BY SMT DEF Tokens!Init, FetchersHold, SecondTries
  <2> QED
    BY <2>1, <2>2, <2>3 DEF TokensInv
<1>2. TokensInv => Tokens!TokensAreSpared
  BY SMT DEF TokensInv, CacheIsLast, SecondTries, Tokens!TokensAreSpared
<1> QED
  BY <1>1, <1>2, NextKeepsTokens, PTL DEF TokensAreSpared, Tokens!Spec

-----------------------------------------------------------------------------
(* The proof that events are handed over in order *)

\* A shard that has a connection to read; frames that carry a number; all frames.
Reading == {"read", "handle"}
News == {"event", "ready"}
FrameSet == [kind : {"event", "ready", "resumed", "op7", "op9", "close", "fatal"}, sid : Nat, seq : Nat]

\* The types of the variables.
ReceiverTypes ==
  /\ sid \in [GatewayShards -> Nat] /\ seq \in [GatewayShards -> Nat]
  /\ qq \in [GatewayShards -> [sid : Nat, sent : Nat, alive : BOOLEAN]]
  /\ wire \in [GatewayShards -> Seq(FrameSet)] /\ handed \in [GatewayShards -> Seq(FrameSet)]
  /\ pc = [s \in GatewayShards |-> pc[s]] /\ open = [s \in GatewayShards |-> open[s]]

\* What was handed over is in order, and the last of it is what the shard has seen.
HandedInOrder(s) ==
  /\ \A i \in DOMAIN handed[s] :
        IF i > 1 /\ handed[s][i - 1].sid = handed[s][i].sid
        THEN handed[s][i].seq = handed[s][i - 1].seq + 1
        ELSE /\ handed[s][i].seq = 2
             /\ i > 1 => handed[s][i - 1].sid < handed[s][i].sid
  /\ \A i \in DOMAIN handed[s] : handed[s][i].sid <= qq[s].sid
  /\ sid[s] <= qq[s].sid
  /\ sid[s] # 0 =>
       \/ seq[s] = 1 /\ \A i \in DOMAIN handed[s] : handed[s][i].sid < sid[s]
       \/ /\ handed[s] # <<>> /\ handed[s][Len(handed[s])].sid = sid[s]
          /\ handed[s][Len(handed[s])].seq = seq[s]
  /\ sid[s] # 0 /\ sid[s] = qq[s].sid => seq[s] \in 1 .. qq[s].sent

\* A refused connection brings no news.
NoNews(s) == ~open[s] /\ \A i \in DOMAIN wire[s] : wire[s][i].kind \notin News

\* count[i] is the number of the last event before the i-th frame.
Follows(s, tally) ==
  /\ \A i \in 1 .. Len(wire[s]) :
       IF wire[s][i].kind \in News
       THEN wire[s][i].sid = qq[s].sid /\ wire[s][i].seq = tally[i] + 1 /\ tally[i + 1] = tally[i] + 1
       ELSE tally[i + 1] = tally[i]
  /\ \A i \in 2 .. Len(wire[s]) : wire[s][i].kind # "ready"
  /\ \A i \in 1 .. Len(wire[s]) + 1 : tally[i] <= qq[s].sent
  /\ IF wire[s] # <<>> /\ wire[s][1].kind = "ready"
     THEN tally[1] = 0 /\ qq[s].sid # 0 /\ \A i \in DOMAIN handed[s] : handed[s][i].sid < qq[s].sid
     ELSE tally[1] = seq[s] /\ sid[s] = qq[s].sid /\ sid[s] # 0
  /\ open[s] /\ qq[s].alive => tally[Len(wire[s]) + 1] = qq[s].sent
\* The frames on a connection go on where the shard is.
WireFollows(s) == \E tally \in [1 .. Len(wire[s]) + 1 -> Nat] : Follows(s, tally)

\* A shard is in step with QQ.
InStep(s) ==
  /\ HandedInOrder(s)
  /\ pc[s] \in Reading => NoNews(s) \/ WireFollows(s)
  /\ pc[s] \in {"token", "slot"} => wire[s] = <<>>

\* The inductive invariant of the receiver.
ReceiverInv == ReceiverTypes /\ \A s \in GatewayShards : InStep(s)

\* What was handed over stays in order while QQ only counts on.
LEMMA HandedStays ==
  ASSUME ReceiverTypes, NEW s \in GatewayShards, HandedInOrder(s),
         sid'[s] = sid[s], seq'[s] = seq[s], handed'[s] = handed[s],
         qq'[s].sid = qq[s].sid, qq'[s].sent \in Nat, qq'[s].sent >= qq[s].sent
  PROVE  HandedInOrder(s)'
  BY SMT DEF HandedInOrder, ReceiverTypes

\* What does not touch what a shard reads or has seen leaves it in step.
LEMMA StaysInStep ==
  ASSUME ReceiverTypes, NEW s \in GatewayShards, InStep(s),
         sid'[s] = sid[s], seq'[s] = seq[s], handed'[s] = handed[s], qq'[s] = qq[s], wire'[s] = wire[s],
         open'[s] => open[s],
         pc'[s] \in Reading => pc[s] \in Reading,
         pc'[s] \in {"token", "slot"} => pc[s] \in {"token", "slot"}
  PROVE  InStep(s)'
<1>1. HandedInOrder(s)'
  <2>1. qq'[s].sent \in Nat /\ qq'[s].sent >= qq[s].sent
    BY SMT DEF ReceiverTypes
  <2> QED
    BY <2>1, HandedStays DEF InStep
<1>2. NoNews(s) => NoNews(s)'
  BY DEF NoNews
<1>3. WireFollows(s) => WireFollows(s)'
  BY DEF WireFollows, Follows
<1> QED
  BY <1>1, <1>2, <1>3 DEF InStep

\* A shard that forgets its session reads nothing before it has another.
LEMMA ForgetsInStep ==
  ASSUME ReceiverTypes, NEW s \in GatewayShards, InStep(s),
         sid'[s] = 0, handed'[s] = handed[s], qq'[s] = qq[s],
         pc'[s] \notin Reading \cup {"token", "slot"}
  PROVE  InStep(s)'
<1>1. HandedInOrder(s)'
  BY SMT DEF ReceiverTypes, InStep, HandedInOrder
<1> QED
  BY <1>1 DEF InStep

\* A failure of a shard ends it and, the first time, whoever does not await its heartbeat.
LEMMA RaiseMoves ==
  ASSUME ReceiverTypes, NEW s \in GatewayShards, NEW why, Gateway!Raise(s, why)
  PROVE  /\ \A u \in GatewayShards : pc'[u] \in {"ended", pc[u]} /\ (open'[u] => open[u])
         /\ pc'[s] = "ended"
         /\ pc' = [u \in GatewayShards |-> pc'[u]] /\ open' = [u \in GatewayShards |-> open'[u]]
<1>1. CASE aborting
  BY <1>1 DEF Gateway!Raise, Gateway!Set, ReceiverTypes
<1>2. CASE ~aborting
  BY <1>2 DEF Gateway!Raise, Gateway!Abort, Gateway!Cancel
<1> QED
  BY <1>1, <1>2

\* An end that is not fatal moves the shard alone.
LEMMA EndMoves ==
  ASSUME ReceiverTypes, NEW s \in GatewayShards, Gateway!Again(s)
  PROVE  /\ \A u \in GatewayShards : u # s => pc'[u] = pc[u] /\ open'[u] = open[u]
         /\ pc'[s] \in {"ended", "delay"} /\ ~open'[s]
         /\ pc' = [u \in GatewayShards |-> pc'[u]] /\ open' = [u \in GatewayShards |-> open'[u]]
  BY DEF Gateway!Again, Gateway!Set, ReceiverTypes

\* The end of a connection, whatever it does with the session, leaves all shards in step.
LEMMA EndsInStep ==
  ASSUME ReceiverInv, NEW s \in GatewayShards, UNCHANGED <<wire, qq, handed>>,
         \/ Gateway!Ends(s) \/ Gateway!Rejected(s) \/ Gateway!FatalEnd(s)
         \/ \E why : Gateway!Raise(s, why) /\ UNCHANGED <<sid, seq, rej>>
  PROVE  ReceiverInv'
<1>0. ReceiverTypes /\ \A u \in GatewayShards : InStep(u)
  BY DEF ReceiverInv
<1>1. /\ \A u \in GatewayShards : pc'[u] \in {"ended", "delay", pc[u]} /\ (open'[u] => open[u])
      /\ pc'[s] \in {"ended", "delay"}
      /\ pc' = [u \in GatewayShards |-> pc'[u]] /\ open' = [u \in GatewayShards |-> open'[u]]
  BY <1>0, RaiseMoves, EndMoves DEF Gateway!Ends, Gateway!Rejected, Gateway!FatalEnd
<1>2. \/ UNCHANGED <<sid, seq>>
      \/ sid' = [sid EXCEPT ![s] = 0] /\ seq' = [seq EXCEPT ![s] = 0]
  BY DEF Gateway!Ends, Gateway!Rejected, Gateway!FatalEnd, Gateway!Forget, Gateway!Set
<1>3. ReceiverTypes'
  <2>1. sid' \in [GatewayShards -> Nat] /\ seq' \in [GatewayShards -> Nat]
    <3>1. CASE UNCHANGED <<sid, seq>>
      BY <1>0, <3>1 DEF ReceiverTypes
    <3>2. CASE sid' = [sid EXCEPT ![s] = 0] /\ seq' = [seq EXCEPT ![s] = 0]
      BY <1>0, <3>2, SMT DEF ReceiverTypes
    <3> QED
      BY <1>2, <3>1, <3>2
  <2> QED
    BY <1>0, <1>1, <2>1 DEF ReceiverTypes
<1>4. ASSUME NEW u \in GatewayShards PROVE InStep(u)'
  <2>1. CASE sid'[u] = sid[u] /\ seq'[u] = seq[u]
    BY <1>0, <1>1, <2>1, StaysInStep DEF Reading
  <2>2. CASE sid' = [sid EXCEPT ![s] = 0] /\ u = s
    <3>1. sid'[s] = 0
      BY <1>0, <2>2 DEF ReceiverTypes
    <3> QED
      BY <1>0, <1>1, <2>2, <3>1, ForgetsInStep DEF Reading
  <2> QED
    BY <1>0, <1>2, <2>1, <2>2, SMT DEF ReceiverTypes
<1> QED
  BY <1>3, <1>4 DEF ReceiverInv

\* So do the steps of the receiver as a whole.
LEMMA GroupInStep ==
  ASSUME ReceiverInv, UNCHANGED <<sid, seq, wire, qq, handed>>,
         \/ UNCHANGED <<pc, open>>
         \/ UNCHANGED open /\ pc' = [s \in GatewayShards |-> "loop"]
         \/ Gateway!Abort({})
  PROVE  ReceiverInv'
<1>0. ReceiverTypes /\ \A u \in GatewayShards : InStep(u)
  BY DEF ReceiverInv
<1>1. /\ \A u \in GatewayShards : pc'[u] \in {"ended", "loop", pc[u]} /\ (open'[u] => open[u])
      /\ pc' = [u \in GatewayShards |-> pc'[u]] /\ open' = [u \in GatewayShards |-> open'[u]]
  BY <1>0 DEF Gateway!Abort, Gateway!Cancel, ReceiverTypes
<1>2. ReceiverTypes'
  BY <1>0, <1>1 DEF ReceiverTypes
<1>3. \A u \in GatewayShards : InStep(u)'
  BY <1>0, <1>1, StaysInStep DEF Reading
<1> QED
  BY <1>2, <1>3 DEF ReceiverInv

\* And those of a shard that neither read nor end a connection.
LEMMA MovesInStep ==
  ASSUME ReceiverInv, NEW s \in GatewayShards, UNCHANGED <<sid, seq, wire, open, qq, handed>>,
         NEW place, pc' = [pc EXCEPT ![s] = place],
         place \in Reading => pc[s] \in Reading,
         place \in {"token", "slot"} => pc[s] \in {"token", "slot"}
  PROVE  ReceiverInv'
<1>0. ReceiverTypes /\ \A u \in GatewayShards : InStep(u)
  BY DEF ReceiverInv
<1>1. pc'[s] = place /\ \A u \in GatewayShards : u # s => pc'[u] = pc[u]
  BY <1>0 DEF ReceiverTypes
<1>2. ReceiverTypes'
  BY <1>0 DEF ReceiverTypes
<1>3. \A u \in GatewayShards : InStep(u)'
  BY <1>0, <1>1, StaysInStep
<1> QED
  BY <1>2, <1>3 DEF ReceiverInv

\* Frames that end a connection may follow the news on it.
LEMMA WireEnds ==
  ASSUME NEW s \in GatewayShards, wire[s] \in Seq(FrameSet), NEW frames \in Seq(FrameSet), WireFollows(s),
         seq[s] \in Nat, qq[s].sent \in Nat,
         \A i \in DOMAIN frames : frames[i].kind \notin News,
         wire'[s] = wire[s] \o frames, ~open'[s],
         sid'[s] = sid[s], seq'[s] = seq[s], handed'[s] = handed[s],
         qq'[s].sid = qq[s].sid, qq'[s].sent = qq[s].sent
  PROVE  WireFollows(s)'
<1> DEFINE n == Len(wire[s])
<1> DEFINE l == n + Len(frames)
<1>1. PICK tally \in [1 .. n + 1 -> Nat] : Follows(s, tally)
  BY DEF WireFollows
<1> DEFINE more == [i \in 1 .. l + 1 |-> IF i <= n + 1 THEN tally[i] ELSE tally[n + 1]]
<1>2. /\ n \in Nat /\ l \in Nat /\ n <= l /\ Len(wire'[s]) = l /\ n + 1 \in 1 .. n + 1
      /\ \A i \in 1 .. n : wire'[s][i] = wire[s][i]
      /\ \A i \in 1 .. l : i > n => wire'[s][i].kind \notin News
  <2>1. /\ Len(wire[s] \o frames) = l /\ l \in Nat /\ n \in Nat /\ n <= l
        /\ \A i \in 1 .. l : (wire[s] \o frames)[i] = IF i <= n THEN wire[s][i] ELSE frames[i - n]
    BY SMT
  <2>2. \A i \in 1 .. l : i > n => i - n \in DOMAIN frames
    BY <2>1, SMT
  <2> QED
    BY <2>1, <2>2, SMT
<1>3. /\ \A i \in 1 .. n + 1 : tally[i] \in Nat
      /\ \A i \in 1 .. l + 1 : i \notin 1 .. n + 1 => ~(i <= n + 1)
      /\ \A i \in 1 .. n + 1 : i <= n + 1 /\ i \in 1 .. l + 1
  <2>1. \A i \in 1 .. n + 1 : tally[i] \in Nat
    BY <1>1
  <2>2. n \in Nat /\ l \in Nat /\ n <= l
    BY <1>2
  <2> HIDE DEF n, l
  <2>3. /\ \A i \in 1 .. l + 1 : i \notin 1 .. n + 1 => ~(i <= n + 1)
        /\ \A i \in 1 .. n + 1 : i <= n + 1 /\ i \in 1 .. l + 1
    BY <2>2, SMT
  <2> QED
    BY <2>1, <2>3
<1>9. /\ \A i \in 1 .. l + 1 : more[i] = tally[i] \/ more[i] = tally[n + 1]
      /\ \A i \in 1 .. n + 1 : more[i] = tally[i]
      /\ \A i \in 1 .. l + 1 : i \in 1 .. n + 1 \/ more[i] = tally[n + 1]
  BY <1>3
<1>10. more \in [1 .. l + 1 -> Nat]
  <2>1. \A i \in 1 .. l + 1 : (IF i <= n + 1 THEN tally[i] ELSE tally[n + 1]) \in Nat
    BY <1>2, <1>3
  <2> QED
    BY <2>1
<1>4. \A i \in 1 .. l :
        IF wire'[s][i].kind \in News
        THEN wire'[s][i].sid = qq[s].sid /\ wire'[s][i].seq = more[i] + 1 /\ more[i + 1] = more[i] + 1
        ELSE more[i + 1] = more[i]
  <2> SUFFICES ASSUME NEW i \in 1 .. l
               PROVE  IF wire'[s][i].kind \in News
                      THEN wire'[s][i].sid = qq[s].sid /\ wire'[s][i].seq = more[i] + 1 /\ more[i + 1] = more[i] + 1
                      ELSE more[i + 1] = more[i]
    OBVIOUS
  <2>1. CASE i <= n
    <3>1. i \in 1 .. n /\ more[i] = tally[i] /\ more[i + 1] = tally[i + 1]
      BY <1>2, <2>1, SMT
    <3> QED
      BY <1>1, <1>2, <3>1 DEF Follows
  <2>2. CASE i > n
    <3>1. more[i] = tally[n + 1] /\ more[i + 1] = tally[n + 1]
      BY <1>2, <2>2, SMT
    <3> QED
      BY <1>2, <2>2, <3>1
  <2> QED
    BY <1>2, <2>1, <2>2, SMT
<1>5. \A i \in 2 .. l : wire'[s][i].kind # "ready"
  BY <1>1, <1>2, SMT DEF Follows, News
<1>6. \A i \in 1 .. l + 1 : more[i] <= qq[s].sent
  <2>1. \A i \in 1 .. n + 1 : tally[i] <= qq[s].sent
    BY <1>1 DEF Follows
  <2> QED
    BY <1>2, <1>3, <1>9, <2>1
<1>7. more[1] = tally[1] /\ (wire'[s] # <<>> /\ wire'[s][1].kind = "ready" <=> wire[s] # <<>> /\ wire[s][1].kind = "ready")
  BY <1>2, SMTT(30) DEF News
<1>8. PICK after : after = more
  OBVIOUS
<1>11. /\ after \in [1 .. l + 1 -> Nat]
       /\ \A i \in 1 .. l :
             IF wire'[s][i].kind \in News
             THEN wire'[s][i].sid = qq[s].sid /\ wire'[s][i].seq = after[i] + 1 /\ after[i + 1] = after[i] + 1
             ELSE after[i + 1] = after[i]
       /\ \A i \in 1 .. l + 1 : after[i] <= qq[s].sent
  BY <1>4, <1>6, <1>8, <1>10
<1>12. IF wire'[s] # <<>> /\ wire'[s][1].kind = "ready"
       THEN after[1] = 0 /\ qq[s].sid # 0 /\ \A i \in DOMAIN handed[s] : handed[s][i].sid < qq[s].sid
       ELSE after[1] = seq[s] /\ sid[s] = qq[s].sid /\ sid[s] # 0
  BY <1>1, <1>7, <1>8 DEF Follows
<1> HIDE DEF more, l
<1>13. /\ \A i \in 1 .. Len(wire'[s]) :
             IF wire'[s][i].kind \in News
             THEN wire'[s][i].sid = qq'[s].sid /\ wire'[s][i].seq = after[i] + 1 /\ after[i + 1] = after[i] + 1
             ELSE after[i + 1] = after[i]
       /\ \A i \in 2 .. Len(wire'[s]) : wire'[s][i].kind # "ready"
  BY <1>2, <1>5, <1>11
<1>14. \A i \in 1 .. Len(wire'[s]) + 1 : after[i] <= qq'[s].sent
  BY <1>2, <1>11
<1>15. Follows(s, after)'
  BY <1>12, <1>13, <1>14 DEF Follows
<1>16. after \in [1 .. Len(wire'[s]) + 1 -> Nat]
  BY <1>2, <1>11
<1> QED
  BY <1>15, <1>16 DEF WireFollows

\* The fields of an event.
LEMMA FrameFields ==
  /\ \A k, m : Gateway!Event(k, m).kind = "event" /\ Gateway!Event(k, m).sid = k /\ Gateway!Event(k, m).seq = m
  /\ \A k : Gateway!Ready(k).kind = "ready" /\ Gateway!Ready(k).sid = k /\ Gateway!Ready(k).seq = 1
  /\ \A kind : Gateway!Frame(kind).kind = kind
  BY DEF Gateway!Event, Gateway!Ready, Gateway!Frame

\* One more event of the session may follow what its connection carries.
LEMMA WireGrows ==
  ASSUME NEW s \in GatewayShards, wire[s] \in Seq(FrameSet), WireFollows(s),
         seq[s] \in Nat, qq[s].sent \in Nat, qq[s].sid \in Nat, open[s], qq[s].alive,
         wire'[s] = wire[s] \o <<Gateway!Event(qq[s].sid, qq[s].sent + 1)>>,
         sid'[s] = sid[s], seq'[s] = seq[s], handed'[s] = handed[s],
         qq'[s].sid = qq[s].sid, qq'[s].sent = qq[s].sent + 1
  PROVE  WireFollows(s)'
<1> DEFINE n == Len(wire[s])
<1>1. PICK tally \in [1 .. n + 1 -> Nat] : Follows(s, tally)
  BY DEF WireFollows
<1>2. /\ n \in Nat /\ Len(wire'[s]) = n + 1
      /\ \A i \in 1 .. n : wire'[s][i] = wire[s][i]
      /\ wire'[s][n + 1] = Gateway!Event(qq[s].sid, qq[s].sent + 1)
  <2>1. Gateway!Event(qq[s].sid, qq[s].sent + 1) \in FrameSet
    BY SMT DEF Gateway!Event, FrameSet
  <2>2. wire[s] \o <<Gateway!Event(qq[s].sid, qq[s].sent + 1)>> = Append(wire[s], Gateway!Event(qq[s].sid, qq[s].sent + 1))
    BY <2>1, SMT
  <2> HIDE DEF n
  <2> QED
    BY <2>1, <2>2, SMT DEF n
<1>3. PICK after : after = [i \in 1 .. n + 2 |-> IF i = n + 2 THEN qq[s].sent + 1 ELSE tally[i]]
  OBVIOUS
<1>4. /\ \A i \in 1 .. n + 1 : after[i] = tally[i] /\ tally[i] \in Nat
      /\ after[n + 2] = qq[s].sent + 1
      /\ after \in [1 .. n + 2 -> Nat]
  <2>1. /\ \A i \in 1 .. n + 1 : i \in 1 .. n + 2 /\ i # n + 2 /\ tally[i] \in Nat
        /\ n + 2 \in 1 .. n + 2 /\ qq[s].sent + 1 \in Nat
        /\ \A i \in 1 .. n + 2 : i = n + 2 \/ i \in 1 .. n + 1
    <3>1. \A i \in 1 .. n + 1 : tally[i] \in Nat
      BY <1>1
    <3> HIDE DEF n
    <3> QED
      BY <1>2, <3>1, SMT
  <2>2. \A i \in 1 .. n + 2 : (IF i = n + 2 THEN qq[s].sent + 1 ELSE tally[i]) \in Nat
    BY <2>1
  <2> QED
    BY <1>3, <2>1, <2>2
<1>5. tally[n + 1] = qq[s].sent
  BY <1>1 DEF Follows
<1> HIDE DEF n
<1>6. \A i \in 1 .. n + 1 :
        IF wire'[s][i].kind \in News
        THEN wire'[s][i].sid = qq[s].sid /\ wire'[s][i].seq = after[i] + 1 /\ after[i + 1] = after[i] + 1
        ELSE after[i + 1] = after[i]
  <2> SUFFICES ASSUME NEW i \in 1 .. n + 1
               PROVE  IF wire'[s][i].kind \in News
                      THEN wire'[s][i].sid = qq[s].sid /\ wire'[s][i].seq = after[i] + 1 /\ after[i + 1] = after[i] + 1
                      ELSE after[i + 1] = after[i]
    OBVIOUS
  <2>1. CASE i = n + 1
    <3>1. after[i] = qq[s].sent /\ after[i + 1] = qq[s].sent + 1
      BY <1>2, <1>4, <1>5, <2>1, SMT
    <3>2. wire'[s][i].kind \in News /\ wire'[s][i].sid = qq[s].sid /\ wire'[s][i].seq = qq[s].sent + 1
      <4>1. wire'[s][i] = Gateway!Event(qq[s].sid, qq[s].sent + 1)
        BY <1>2, <2>1
      <4> HIDE DEF n
      <4>2. /\ Gateway!Event(qq[s].sid, qq[s].sent + 1).kind = "event"
            /\ Gateway!Event(qq[s].sid, qq[s].sent + 1).sid = qq[s].sid
            /\ Gateway!Event(qq[s].sid, qq[s].sent + 1).seq = qq[s].sent + 1
        BY FrameFields
      <4> QED
        BY <4>1, <4>2, Zenon DEF News
    <3> QED
      BY <3>1, <3>2
  <2>2. CASE i # n + 1
    <3>1. i \in 1 .. n /\ i \in 1 .. n + 1 /\ i + 1 \in 1 .. n + 1
      BY <1>2, <2>2, SMT
    <3>2. IF wire[s][i].kind \in News
          THEN wire[s][i].sid = qq[s].sid /\ wire[s][i].seq = tally[i] + 1 /\ tally[i + 1] = tally[i] + 1
          ELSE tally[i + 1] = tally[i]
      BY <1>1, <3>1 DEF Follows, n
    <3>3. wire'[s][i] = wire[s][i] /\ after[i] = tally[i] /\ after[i + 1] = tally[i + 1]
      BY <1>2, <1>4, <3>1
    <3> QED
      BY <3>2, <3>3
  <2> QED
    BY <2>1, <2>2
<1>7. \A i \in 2 .. n + 1 : wire'[s][i].kind # "ready"
  <2>1. \A i \in 2 .. n + 1 : i = n + 1 \/ (i \in 2 .. n /\ i \in 1 .. n)
    BY <1>2, SMT
  <2>2. \A i \in 2 .. n : wire[s][i].kind # "ready"
    BY <1>1 DEF Follows, n
  <2>3. wire'[s][n + 1].kind # "ready"
    <3>1. wire'[s][n + 1] = Gateway!Event(qq[s].sid, qq[s].sent + 1)
      BY <1>2
    <3>2. Gateway!Event(qq[s].sid, qq[s].sent + 1).kind = "event"
      BY FrameFields
    <3> QED
      BY <3>1, <3>2
  <2> QED
    BY <1>2, <2>1, <2>2, <2>3
<1>8. \A i \in 1 .. n + 2 : after[i] <= qq[s].sent + 1
  <2>1. \A i \in 1 .. n + 1 : tally[i] <= qq[s].sent
    BY <1>1 DEF Follows, n
  <2> QED
    <3>1. \A i \in 1 .. n + 2 : i = n + 2 \/ i \in 1 .. n + 1
      BY <1>2, SMT
    <3>2. qq[s].sent + 1 <= qq[s].sent + 1 /\ \A j \in Nat : j <= qq[s].sent => j <= qq[s].sent + 1
      BY SMT
    <3> QED
      BY <1>4, <2>1, <3>1, <3>2
<1>9. IF wire'[s] # <<>> /\ wire'[s][1].kind = "ready"
      THEN after[1] = 0 /\ qq[s].sid # 0 /\ \A i \in DOMAIN handed[s] : handed[s][i].sid < qq[s].sid
      ELSE after[1] = seq[s] /\ sid[s] = qq[s].sid /\ sid[s] # 0
  <2>1. after[1] = tally[1]
    BY <1>2, <1>4, SMT
  <2>2. wire'[s] # <<>> /\ wire'[s][1].kind = "ready" <=> wire[s] # <<>> /\ wire[s][1].kind = "ready"
    <3>1. CASE n = 0
      BY <1>2, <3>1, SMT DEF Gateway!Event, n
    <3>2. CASE n # 0
      BY <1>2, <3>2, SMT DEF n
    <3> QED
      BY <3>1, <3>2
  <2> QED
    BY <1>1, <2>1, <2>2 DEF Follows
<1>10. /\ n + 1 + 1 = n + 2 /\ Len(wire'[s]) = n + 1
  BY <1>2, SMT
<1>11. Follows(s, after)'
  <2>1. qq'[s].sent = qq[s].sent + 1 /\ qq'[s].sid = qq[s].sid
    OBVIOUS
  <2>2. /\ \A i \in 1 .. Len(wire'[s]) :
             IF wire'[s][i].kind \in News
             THEN wire'[s][i].sid = qq'[s].sid /\ wire'[s][i].seq = after[i] + 1 /\ after[i + 1] = after[i] + 1
             ELSE after[i + 1] = after[i]
        /\ \A i \in 2 .. Len(wire'[s]) : wire'[s][i].kind # "ready"
        /\ \A i \in 1 .. Len(wire'[s]) + 1 : after[i] <= qq'[s].sent
        /\ after[Len(wire'[s]) + 1] = qq'[s].sent
    <3>1. \A i \in 1 .. Len(wire'[s]) + 1 : after[i] <= qq'[s].sent
      BY <1>8, <1>10, <2>1
    <3>2. after[Len(wire'[s]) + 1] = qq'[s].sent
      BY <1>4, <1>10, <2>1
    <3> QED
      BY <1>6, <1>7, <1>10, <2>1, <3>1, <3>2
  <2>3. IF wire'[s] # <<>> /\ wire'[s][1].kind = "ready"
        THEN after[1] = 0 /\ qq'[s].sid # 0 /\ \A i \in DOMAIN handed'[s] : handed'[s][i].sid < qq'[s].sid
        ELSE after[1] = seq'[s] /\ sid'[s] = qq'[s].sid /\ sid'[s] # 0
    BY <1>9, <2>1
  <2> QED
    BY <2>2, <2>3 DEF Follows
<1> QED
  BY <1>4, <1>10, <1>11 DEF WireFollows

\* What the first frame of a connection says, and that the rest follows it.
LEMMA WireRead ==
  ASSUME NEW s \in GatewayShards, wire[s] \in Seq(FrameSet), WireFollows(s), wire[s] # <<>>,
         seq[s] \in Nat, qq[s].sent \in Nat, qq[s].sid \in Nat, wire'[s] = Tail(wire[s]),
         sid'[s] = (IF Head(wire[s]).kind \in News THEN Head(wire[s]).sid ELSE sid[s]),
         seq'[s] = (IF Head(wire[s]).kind \in News THEN Head(wire[s]).seq ELSE seq[s]),
         open'[s] => open[s], qq'[s] = qq[s]
  PROVE  /\ WireFollows(s)'
         /\ Head(wire[s]).kind \in News => Head(wire[s]).sid = qq[s].sid /\ qq[s].sid # 0
         /\ Head(wire[s]).kind = "ready" =>
              /\ Head(wire[s]).seq = 1 /\ 1 <= qq[s].sent
              /\ \A i \in DOMAIN handed[s] : handed[s][i].sid < qq[s].sid
         /\ Head(wire[s]).kind = "event" =>
              sid[s] = qq[s].sid /\ Head(wire[s]).seq = seq[s] + 1 /\ seq[s] + 1 <= qq[s].sent
<1> DEFINE n == Len(wire[s])
<1>1. PICK tally \in [1 .. n + 1 -> Nat] : Follows(s, tally)
  BY DEF WireFollows
<1>2. /\ n \in Nat /\ n >= 1 /\ Len(wire'[s]) = n - 1 /\ n - 1 \in Nat
      /\ \A i \in 1 .. n - 1 : wire'[s][i] = wire[s][i + 1]
      /\ wire[s][1] = Head(wire[s])
      /\ wire'[s] # <<>> => 1 \in 1 .. n - 1
  BY SMT
<1>3. PICK after : after = [i \in 1 .. n |-> tally[i + 1]]
  OBVIOUS
<1>4. /\ \A i \in 1 .. n : after[i] = tally[i + 1] /\ tally[i + 1] \in Nat
      /\ after \in [1 .. n -> Nat]
  <2>1. \A i \in 1 .. n : i + 1 \in 1 .. n + 1
    BY <1>2, SMT
  <2>2. \A i \in 1 .. n + 1 : tally[i] \in Nat
    BY <1>1
  <2> HIDE DEF n
  <2>3. \A i \in 1 .. n : tally[i + 1] \in Nat
    BY <2>1, <2>2
  <2> QED
    BY <1>3, <2>3
<1> DEFINE head == Head(wire[s])
<1>5. /\ IF head.kind \in News
         THEN head.sid = qq[s].sid /\ head.seq = tally[1] + 1 /\ tally[2] = tally[1] + 1
         ELSE tally[2] = tally[1]
      /\ tally[2] <= qq[s].sent
  <2>1. 1 \in 1 .. n /\ 2 \in 1 .. n + 1 /\ 1 + 1 = 2
    BY <1>2, SMT
  <2> QED
    BY <1>1, <1>2, <2>1 DEF Follows
<1>6. IF head.kind = "ready"
      THEN tally[1] = 0 /\ qq[s].sid # 0 /\ \A i \in DOMAIN handed[s] : handed[s][i].sid < qq[s].sid
      ELSE tally[1] = seq[s] /\ sid[s] = qq[s].sid /\ sid[s] # 0
  BY <1>1, <1>2 DEF Follows
<1> HIDE DEF n
<1>7. \A i \in 1 .. n - 1 :
        IF wire'[s][i].kind \in News
        THEN wire'[s][i].sid = qq[s].sid /\ wire'[s][i].seq = after[i] + 1 /\ after[i + 1] = after[i] + 1
        ELSE after[i + 1] = after[i]
  <2> SUFFICES ASSUME NEW i \in 1 .. n - 1
               PROVE  IF wire'[s][i].kind \in News
                      THEN wire'[s][i].sid = qq[s].sid /\ wire'[s][i].seq = after[i] + 1 /\ after[i + 1] = after[i] + 1
                      ELSE after[i + 1] = after[i]
    OBVIOUS
  <2>1. i \in 1 .. n /\ i + 1 \in 1 .. n
    BY <1>2, SMT
  <2>2. after[i] = tally[i + 1] /\ after[i + 1] = tally[(i + 1) + 1]
    BY <1>4, <2>1
  <2> QED
    BY <1>1, <1>2, <2>1, <2>2 DEF Follows, n
<1>8. \A i \in 1 .. n - 1 : wire'[s][i].kind # "ready"
  <2>1. \A i \in 1 .. n - 1 : i + 1 \in 2 .. n
    BY <1>2, SMT
  <2> QED
    BY <1>1, <1>2, <2>1 DEF Follows, n
<1>9. \A i \in 1 .. n : after[i] <= qq[s].sent
  <2>1. \A i \in 1 .. n : i + 1 \in 1 .. n + 1
    BY <1>2, SMT
  <2> QED
    BY <1>1, <1>4, <2>1 DEF Follows, n
<1>10. after[1] = seq'[s] /\ sid'[s] = qq[s].sid /\ sid'[s] # 0
  <2>1. after[1] = tally[2]
    BY <1>2, <1>4, SMT
  <2>2. CASE head.kind \in News
    BY <1>5, <1>6, <2>1, <2>2
  <2>3. CASE head.kind \notin News
    BY <1>5, <1>6, <2>1, <2>3 DEF News
  <2> QED
    BY <2>2, <2>3
<1>11. open'[s] /\ qq'[s].alive => after[n] = qq'[s].sent
  <2>1. after[n] = tally[n + 1]
    BY <1>2, <1>4, SMT
  <2> QED
    BY <1>1, <2>1 DEF Follows, n
<1>12. Follows(s, after)'
  <2>1. n - 1 + 1 = n /\ \A i \in 2 .. n - 1 : i \in 1 .. n - 1
    BY <1>2, SMT
  <2>2. ~(wire'[s] # <<>> /\ wire'[s][1].kind = "ready")
    BY <1>2, <1>8
  <2>3. qq'[s] = qq[s] /\ Len(wire'[s]) = n - 1 /\ Len(wire'[s]) + 1 = n
    BY <1>2, <2>1
  <2>4. \A i \in 1 .. Len(wire'[s]) :
          IF wire'[s][i].kind \in News
          THEN /\ wire'[s][i].sid = qq'[s].sid /\ wire'[s][i].seq = after[i] + 1
               /\ after[i + 1] = after[i] + 1
          ELSE after[i + 1] = after[i]
    BY <1>7, <2>3
  <2>5. \A i \in 2 .. Len(wire'[s]) : wire'[s][i].kind # "ready"
    BY <1>8, <2>1, <2>3
  <2>6. \A i \in 1 .. Len(wire'[s]) + 1 : after[i] <= qq'[s].sent
    BY <1>9, <2>3
  <2>7. open'[s] /\ qq'[s].alive => after[Len(wire'[s]) + 1] = qq'[s].sent
    BY <1>11, <2>3
  <2>8. after[1] = seq'[s] /\ sid'[s] = qq'[s].sid /\ sid'[s] # 0
    BY <1>10, <2>3
  <2> QED
    BY <2>2, <2>4, <2>5, <2>6, <2>7, <2>8 DEF Follows
<1>13. WireFollows(s)'
  <2>1. Len(wire'[s]) + 1 = n
    BY <1>2, SMT
  <2> QED
    BY <1>4, <1>12, <2>1 DEF WireFollows
<1>14. /\ head.kind \in News => head.sid = qq[s].sid /\ qq[s].sid # 0
       /\ head.kind = "ready" =>
              head.seq = 1 /\ 1 <= qq[s].sent /\ \A i \in DOMAIN handed[s] : handed[s][i].sid < qq[s].sid
       /\ head.kind = "event" =>
              sid[s] = qq[s].sid /\ head.seq = seq[s] + 1 /\ seq[s] + 1 <= qq[s].sent
  BY <1>5, <1>6, SMT DEF News
<1> QED
  BY <1>13, <1>14

\* What a connection carries are frames,
LEMMA SendsFrames ==
  ASSUME ReceiverTypes, NEW s \in GatewayShards, NEW frames \in Seq(FrameSet), Gateway!Send(s, frames)
  PROVE  /\ wire' \in [GatewayShards -> Seq(FrameSet)] /\ wire'[s] = wire[s] \o frames
         /\ \A u \in GatewayShards : u # s => wire'[u] = wire[u]
<1>1. wire[s] \o frames \in Seq(FrameSet)
  BY SMT DEF ReceiverTypes
<1> QED
  BY <1>1 DEF ReceiverTypes, Gateway!Send, Gateway!Set

\* and so is what QQ sends.
LEMMA FramesOfQQ ==
  /\ \A kind \in {"op7", "op9", "close", "fatal", "resumed"} : Gateway!Frame(kind) \in FrameSet /\ Gateway!Frame(kind).kind = kind
  /\ \A k \in Nat, n \in Nat : Gateway!Event(k, n) \in FrameSet
  /\ \A k \in Nat : Gateway!Ready(k) \in FrameSet
  BY SMT DEF Gateway!Frame, Gateway!Event, Gateway!Ready, FrameSet

\* A refusal is made of frames that end a connection.
LEMMA RefusalsEnd ==
  ASSUME NEW frames,
         \/ \E how : frames = Gateway!Refusal(how)
         \/ frames \in {<<Gateway!Frame("fatal")>>, <<Gateway!Frame("close")>>, <<Gateway!Frame("op7"), Gateway!Frame("close")>>,
                        <<Gateway!Frame("op9"), Gateway!Frame("fatal")>>}
  PROVE  frames \in Seq(FrameSet) /\ \A i \in DOMAIN frames : frames[i].kind \notin News
<1> DEFINE some == {<<Gateway!Frame("fatal")>>, <<Gateway!Frame("close")>>, <<Gateway!Frame("op7"), Gateway!Frame("close")>>,
                    <<Gateway!Frame("op9"), Gateway!Frame("fatal")>>, <<Gateway!Frame("op9"), Gateway!Frame("close")>>}
<1>1. frames \in some
  BY DEF Gateway!Refusal
<1>2. /\ Gateway!Frame("op7") \in FrameSet /\ Gateway!Frame("op9") \in FrameSet
      /\ Gateway!Frame("close") \in FrameSet /\ Gateway!Frame("fatal") \in FrameSet
      /\ Gateway!Frame("op7").kind \notin News /\ Gateway!Frame("op9").kind \notin News
      /\ Gateway!Frame("close").kind \notin News /\ Gateway!Frame("fatal").kind \notin News
  BY FramesOfQQ DEF News
<1>3. ASSUME NEW a \in {Gateway!Frame("op7"), Gateway!Frame("op9"), Gateway!Frame("close"), Gateway!Frame("fatal")},
             NEW b \in {Gateway!Frame("op7"), Gateway!Frame("op9"), Gateway!Frame("close"), Gateway!Frame("fatal")}
      PROVE  /\ <<a>> \in Seq(FrameSet) /\ \A i \in DOMAIN <<a>> : <<a>>[i].kind \notin News
             /\ <<a, b>> \in Seq(FrameSet) /\ \A i \in DOMAIN <<a, b>> : <<a, b>>[i].kind \notin News
  <2>1. a \in FrameSet /\ b \in FrameSet /\ a.kind \notin News /\ b.kind \notin News
    BY <1>2
  <2> QED
    BY <2>1, SMT
<1> QED
  BY <1>1, <1>3

\* A step of one shard: what is to show is that it is in step.
LEMMA OneInStep ==
  ASSUME ReceiverInv, ReceiverTypes', NEW s \in GatewayShards, InStep(s)',
         \A u \in GatewayShards : u # s =>
            /\ sid'[u] = sid[u] /\ seq'[u] = seq[u] /\ handed'[u] = handed[u] /\ qq'[u] = qq[u]
            /\ wire'[u] = wire[u] /\ open'[u] = open[u] /\ pc'[u] = pc[u]
  PROVE  ReceiverInv'
<1>1. \A u \in GatewayShards : u # s => InStep(u)'
  BY StaysInStep DEF ReceiverInv
<1> QED
  BY <1>1 DEF ReceiverInv

\* A connection begins with nothing on it.
LEMMA ConnectedInStep ==
  ASSUME ReceiverInv, NEW s \in GatewayShards, Gateway!Connected(s)
  PROVE  ReceiverInv'
<1>1. ReceiverTypes /\ InStep(s)
  BY DEF ReceiverInv
<1>2. /\ \A u \in GatewayShards : u # s => pc'[u] = pc[u] /\ wire'[u] = wire[u] /\ open'[u] = open[u]
      /\ pc'[s] = "token" /\ wire'[s] = <<>>
      /\ pc' = [u \in GatewayShards |-> pc'[u]] /\ open' = [u \in GatewayShards |-> open'[u]]
  BY <1>1 DEF Gateway!Connected, Gateway!Set, ReceiverTypes
<1>3. wire' \in [GatewayShards -> Seq(FrameSet)]
  <2>1. <<>> \in Seq(FrameSet)
    BY SMT
  <2> QED
    BY <1>1, <2>1 DEF Gateway!Connected, Gateway!Set, ReceiverTypes
<1>4. ReceiverTypes'
  BY <1>1, <1>2, <1>3 DEF Gateway!Connected, Gateway!memory, ReceiverTypes
<1>5. InStep(s)'
  <2>1. HandedInOrder(s)'
    BY <1>1 DEF InStep, HandedInOrder, Gateway!Connected, Gateway!memory
  <2> QED
    BY <1>2, <2>1 DEF InStep, Reading
<1> QED
  BY <1>2, <1>4, <1>5, OneInStep DEF Gateway!Connected, Gateway!memory

\* A resume brings what comes after the last event seen, or a refusal.
LEMMA ResumesInStep ==
  ASSUME ReceiverInv, NEW s \in GatewayShards, Gateway!Resumes(s)
  PROVE  ReceiverInv'
<1>1. ReceiverTypes /\ InStep(s) /\ wire[s] = <<>> /\ sid[s] # 0
  BY DEF ReceiverInv, InStep, Gateway!Resumes, Gateway!Resumable
<1>2. /\ \A u \in GatewayShards : u # s => pc'[u] = pc[u]
      /\ pc'[s] = "read" /\ pc' = [u \in GatewayShards |-> pc'[u]]
      /\ UNCHANGED <<sid, seq, qq, handed>>
  BY <1>1 DEF Gateway!Resumes, Gateway!Beats, Gateway!Set, ReceiverTypes, Gateway!memory
<1>3. HandedInOrder(s)'
  BY <1>1, <1>2 DEF InStep, HandedInOrder
<1>4. CASE qq[s].alive /\ qq[s].sid = sid[s]
  <2> DEFINE m == qq[s].sent - seq[s]
  <2> DEFINE again == [i \in 1 .. m |-> Gateway!Event(sid[s], seq[s] + i)]
  <2>1. /\ sid[s] \in Nat /\ seq[s] \in Nat /\ qq[s].sent \in Nat /\ m \in Nat
        /\ qq[s].sid = sid[s] /\ m + seq[s] = qq[s].sent
    BY <1>1, <1>4, SMT DEF ReceiverTypes, InStep, HandedInOrder
  <2>2. again \in Seq(FrameSet) /\ Len(again) = m
    <3>1. \A i \in 1 .. m : seq[s] + i \in Nat
      BY <2>1, SMT
    <3>2. again \in [1 .. m -> FrameSet]
      BY <2>1, <3>1, FramesOfQQ
    <3> HIDE DEF again
    <3> QED
      BY <2>1, <3>2, SMT
  <2>3. /\ <<Gateway!Frame("resumed")>> \in Seq(FrameSet)
        /\ again \o <<Gateway!Frame("resumed")>> \in Seq(FrameSet)
        /\ Gateway!Send(s, again \o <<Gateway!Frame("resumed")>>) /\ UNCHANGED open
    <3>1. Gateway!Frame("resumed") \in FrameSet
      BY FramesOfQQ
    <3>2. Gateway!Send(s, again \o <<Gateway!Frame("resumed")>>) /\ UNCHANGED open
      BY <1>4 DEF Gateway!Resumes
    <3> HIDE DEF again
    <3> QED
      BY <2>2, <3>1, <3>2, SMT
  <2>4. \A i \in 1 .. m : again[i] = Gateway!Event(sid[s], seq[s] + i)
    OBVIOUS
  <2> HIDE DEF again
  <2>5. /\ wire' \in [GatewayShards -> Seq(FrameSet)]
        /\ \A u \in GatewayShards : u # s => wire'[u] = wire[u]
        /\ wire'[s] = <<>> \o (again \o <<Gateway!Frame("resumed")>>)
    BY <1>1, <2>3, SendsFrames
  <2> HIDE DEF m
  <2>6. /\ Len(wire'[s]) = m + 1 /\ wire'[s][m + 1] = Gateway!Frame("resumed")
        /\ \A i \in 1 .. m : wire'[s][i] = Gateway!Event(sid[s], seq[s] + i)
    BY <2>1, <2>2, <2>3, <2>4, <2>5, SMT
  <2>7. PICK tally : tally = [i \in 1 .. m + 2 |-> IF i = m + 2 THEN qq[s].sent ELSE seq[s] + (i - 1)]
    OBVIOUS
  <2>8. /\ tally \in [1 .. m + 2 -> Nat]
        /\ \A i \in 1 .. m + 2 : tally[i] = IF i = m + 2 THEN qq[s].sent ELSE seq[s] + (i - 1)
    BY <2>1, <2>7, SMT
  <2>9. /\ \A i \in 1 .. m : wire'[s][i].kind \in News /\ wire'[s][i].sid = sid[s] /\ wire'[s][i].seq = seq[s] + i
        /\ wire'[s][m + 1].kind = "resumed"
    BY <2>6, FrameFields DEF News
  <2>10. \A i \in 1 .. m + 1 :
           IF wire'[s][i].kind \in News
           THEN wire'[s][i].sid = qq[s].sid /\ wire'[s][i].seq = tally[i] + 1 /\ tally[i + 1] = tally[i] + 1
           ELSE tally[i + 1] = tally[i]
    <3> SUFFICES ASSUME NEW i \in 1 .. m + 1
                 PROVE  IF wire'[s][i].kind \in News
                        THEN wire'[s][i].sid = qq[s].sid /\ wire'[s][i].seq = tally[i] + 1 /\ tally[i + 1] = tally[i] + 1
                        ELSE tally[i + 1] = tally[i]
      OBVIOUS
    <3>1. CASE i = m + 1
      <4>1. tally[i] = seq[s] + m /\ tally[i + 1] = qq[s].sent
        BY <2>1, <2>8, <3>1, SMTT(30)
      <4> QED
        BY <2>1, <2>9, <3>1, <4>1 DEF News
    <3>2. CASE i # m + 1
      <4>1. i \in 1 .. m /\ tally[i] = seq[s] + (i - 1) /\ tally[i + 1] = seq[s] + i
        <5>1. i \in 1 .. m /\ i \in 1 .. m + 2 /\ i # m + 2 /\ i + 1 \in 1 .. m + 2 /\ i + 1 # m + 2 /\ (i + 1) - 1 = i
          BY <2>1, <3>2, SMT
        <5> QED
          BY <2>8, <5>1
      <4>2. tally[i] + 1 = seq[s] + i
        BY <2>1, <4>1, SMT
      <4> QED
        BY <2>1, <2>9, <4>1, <4>2
    <3> QED
      BY <3>1, <3>2
  <2>11. \A i \in 1 .. m + 1 : wire'[s][i].kind # "ready"
    <3>1. \A i \in 1 .. m + 1 : i \in 1 .. m \/ i = m + 1
      BY <2>1, SMT
    <3> QED
      BY <2>6, <3>1, FrameFields
  <2>12. /\ m + 1 + 1 = m + 2 /\ m + 2 \in 1 .. m + 2 /\ 1 \in 1 .. m + 1 /\ tally[1] = seq[s]
         /\ \A i \in 2 .. m + 1 : i \in 1 .. m + 1
         /\ \A i \in 1 .. m + 2 : tally[i] <= qq[s].sent
    <3>1. /\ m + 1 + 1 = m + 2 /\ m + 2 \in 1 .. m + 2 /\ 1 \in 1 .. m + 1
          /\ 1 \in 1 .. m + 2 /\ 1 # m + 2 /\ seq[s] + (1 - 1) = seq[s]
          /\ \A i \in 2 .. m + 1 : i \in 1 .. m + 1
      BY <2>1, SMT
    <3>2. /\ qq[s].sent <= qq[s].sent
          /\ \A i \in 1 .. m + 2 : i # m + 2 => seq[s] + (i - 1) <= qq[s].sent
      BY <2>1, SMT
    <3> QED
      BY <2>8, <3>1, <3>2
  <2>13. Follows(s, tally)'
    <3>1. qq'[s].sid = qq[s].sid /\ qq'[s].sent = qq[s].sent /\ sid'[s] = qq'[s].sid /\ sid'[s] # 0
          /\ tally[1] = seq'[s] /\ tally[m + 2] = qq'[s].sent
      BY <1>1, <1>2, <2>1, <2>8, <2>12
    <3>2. /\ \A i \in 1 .. Len(wire'[s]) :
               IF wire'[s][i].kind \in News
               THEN wire'[s][i].sid = qq'[s].sid /\ wire'[s][i].seq = tally[i] + 1 /\ tally[i + 1] = tally[i] + 1
               ELSE tally[i + 1] = tally[i]
          /\ \A i \in 2 .. Len(wire'[s]) : wire'[s][i].kind # "ready"
          /\ \A i \in 1 .. Len(wire'[s]) + 1 : tally[i] <= qq'[s].sent
          /\ tally[Len(wire'[s]) + 1] = qq'[s].sent
      BY <2>6, <2>10, <2>11, <2>12, <3>1
    <3>3. ~(wire'[s] # <<>> /\ wire'[s][1].kind = "ready")
      BY <2>11, <2>12
    <3> QED
      BY <3>1, <3>2, <3>3 DEF Follows
  <2>14. WireFollows(s)'
    BY <2>6, <2>8, <2>12, <2>13 DEF WireFollows
  <2>15. InStep(s)'
    BY <1>2, <1>3, <2>14 DEF InStep
  <2>16. ReceiverTypes'
    BY <1>1, <1>2, <2>3, <2>5 DEF ReceiverTypes
  <2> QED
    BY <1>2, <2>3, <2>5, <2>15, <2>16, OneInStep
<1>5. CASE ~(qq[s].alive /\ qq[s].sid = sid[s])
  <2>1. PICK how \in Refusals : Gateway!Send(s, Gateway!Refusal(how))
    BY <1>5 DEF Gateway!Resumes
  <2>2. /\ Gateway!Refusal(how) \in Seq(FrameSet)
        /\ \A i \in DOMAIN Gateway!Refusal(how) : Gateway!Refusal(how)[i].kind \notin News
    <3>1. \E h : Gateway!Refusal(how) = Gateway!Refusal(h)
      OBVIOUS
    <3> QED
      BY <3>1, RefusalsEnd
  <2>3. /\ wire' \in [GatewayShards -> Seq(FrameSet)] /\ wire'[s] = <<>> \o Gateway!Refusal(how)
        /\ \A u \in GatewayShards : u # s => wire'[u] = wire[u]
    BY <1>1, <2>1, <2>2, SendsFrames
  <2>4. <<>> \o Gateway!Refusal(how) = Gateway!Refusal(how)
    BY <2>2, SMT
  <2>5. /\ ~open'[s] /\ open' = [u \in GatewayShards |-> open'[u]]
        /\ \A u \in GatewayShards : u # s => open'[u] = open[u]
    BY <1>1, <1>5 DEF Gateway!Resumes, Gateway!Set, ReceiverTypes
  <2>6. NoNews(s)'
    BY <2>2, <2>3, <2>4, <2>5 DEF NoNews
  <2>7. InStep(s)'
    BY <1>2, <1>3, <2>6 DEF InStep
  <2>8. ReceiverTypes'
    BY <1>1, <1>2, <2>3, <2>5 DEF ReceiverTypes
  <2> QED
    BY <1>2, <2>3, <2>5, <2>7, <2>8, OneInStep
<1> QED
  BY <1>4, <1>5

\* An identify brings a new session, or a refusal.
LEMMA IdentifiesInStep ==
  ASSUME ReceiverInv, NEW s \in GatewayShards, Gateway!Identifies(s)
  PROVE  ReceiverInv'
<1>1. ReceiverTypes /\ InStep(s) /\ wire[s] = <<>>
  BY DEF ReceiverInv, InStep, Gateway!Identifies
<1>2. /\ \A u \in GatewayShards : u # s => pc'[u] = pc[u]
      /\ pc'[s] = "read" /\ pc' = [u \in GatewayShards |-> pc'[u]]
      /\ UNCHANGED <<sid, seq, handed>>
  BY <1>1 DEF Gateway!Identifies, Gateway!Beats, Gateway!Set, ReceiverTypes, Gateway!memory
<1>3. CASE /\ qq' = Gateway!Set(qq, s, [sid |-> qq[s].sid + 1, sent |-> 1, alive |-> TRUE])
           /\ Gateway!Send(s, <<Gateway!Ready(qq[s].sid + 1)>>) /\ UNCHANGED open
  <2> DEFINE k == qq[s].sid + 1
  <2>1. k \in Nat /\ k # 0 /\ k > qq[s].sid /\ qq[s].sid \in Nat
    BY <1>1, SMT DEF ReceiverTypes
  <2>2. /\ qq'[s] = [sid |-> k, sent |-> 1, alive |-> TRUE]
        /\ qq' \in [GatewayShards -> [sid : Nat, sent : Nat, alive : BOOLEAN]]
        /\ \A u \in GatewayShards : u # s => qq'[u] = qq[u]
    BY <1>1, <1>3, <2>1 DEF Gateway!Set, ReceiverTypes
  <2>3. Gateway!Ready(k) \in FrameSet /\ <<Gateway!Ready(k)>> \in Seq(FrameSet)
    <3>1. Gateway!Ready(k) \in FrameSet
      BY <2>1, FramesOfQQ
    <3> QED
      BY <3>1, SMT
  <2>4. /\ wire' \in [GatewayShards -> Seq(FrameSet)] /\ wire'[s] = <<>> \o <<Gateway!Ready(k)>>
        /\ \A u \in GatewayShards : u # s => wire'[u] = wire[u]
    BY <1>1, <1>3, <2>3, SendsFrames
  <2> HIDE DEF k
  <2>5. Len(wire'[s]) = 1 /\ wire'[s][1] = Gateway!Ready(k) /\ wire'[s] # <<>>
    BY <2>3, <2>4, SMT
  <2>6. wire'[s][1].kind = "ready" /\ wire'[s][1].sid = k /\ wire'[s][1].seq = 1
    BY <2>5 DEF Gateway!Ready
  <2>7. PICK tally : tally = [i \in 1 .. 2 |-> IF i = 1 THEN 0 ELSE 1]
    OBVIOUS
  <2>8. tally \in [1 .. 2 -> Nat] /\ tally[1] = 0 /\ tally[1 + 1] = 1 /\ \A i \in 1 .. 2 : tally[i] <= 1
    BY <2>7, SMT
  <2>9. /\ \A i \in 1 .. 1 : i = 1
        /\ \A i \in 2 .. 1 : FALSE
        /\ 1 + 1 = 2 /\ 0 + 1 = 1
    BY SMT
  <2>0. /\ \A i \in DOMAIN handed[s] : handed[s][i].sid \in Nat /\ handed[s][i].sid <= qq[s].sid
        /\ sid[s] \in Nat /\ sid[s] <= qq[s].sid
    <3>1. handed[s] \in Seq(FrameSet) /\ sid[s] \in Nat
      BY <1>1 DEF ReceiverTypes
    <3>2. \A i \in DOMAIN handed[s] : handed[s][i] \in FrameSet
      BY <3>1, SMT
    <3> QED
      BY <1>1, <3>1, <3>2 DEF InStep, HandedInOrder, FrameSet
  <2>10. \A i \in DOMAIN handed[s] : handed[s][i].sid < k
    BY <2>0, <2>1, SMT DEF k
  <2>11. Follows(s, tally)'
    BY <1>2, <2>1, <2>2, <2>5, <2>6, <2>8, <2>9, <2>10 DEF Follows, News
  <2>12. WireFollows(s)'
    BY <2>5, <2>8, <2>9, <2>11 DEF WireFollows
  <2>13. HandedInOrder(s)'
    <3>1. /\ \A i \in DOMAIN handed[s] : handed[s][i].sid <= k
          /\ sid[s] <= k /\ sid[s] # k
      BY <2>0, <2>1, SMT DEF k
    <3>2. qq'[s].sid = k
      BY <2>2
    <3> QED
      BY <1>1, <1>2, <3>1, <3>2 DEF InStep, HandedInOrder
  <2>14. InStep(s)'
    BY <1>2, <2>12, <2>13 DEF InStep
  <2>15. ReceiverTypes'
    BY <1>1, <1>2, <1>3, <2>2, <2>4 DEF ReceiverTypes
  <2> QED
    BY <1>2, <1>3, <2>2, <2>4, <2>14, <2>15, OneInStep
<1>4. CASE /\ UNCHANGED qq /\ open' = Gateway!Set(open, s, FALSE)
           /\ \/ \E how \in Refusals : Gateway!Send(s, Gateway!Refusal(how))
              \/ Gateway!Send(s, <<Gateway!Frame("fatal")>>)
  <2>1. PICK frames : /\ Gateway!Send(s, frames)
                      /\ (\E how : frames = Gateway!Refusal(how)) \/ frames = <<Gateway!Frame("fatal")>>
    BY <1>4
  <2>2. frames \in Seq(FrameSet) /\ \A i \in DOMAIN frames : frames[i].kind \notin News
    BY <2>1, RefusalsEnd
  <2>3. /\ wire' \in [GatewayShards -> Seq(FrameSet)] /\ wire'[s] = <<>> \o frames
        /\ \A u \in GatewayShards : u # s => wire'[u] = wire[u]
    BY <1>1, <2>1, <2>2, SendsFrames
  <2>4. <<>> \o frames = frames
    BY <2>2, SMT
  <2>5. /\ ~open'[s] /\ open' = [u \in GatewayShards |-> open'[u]]
        /\ \A u \in GatewayShards : u # s => open'[u] = open[u]
    BY <1>1, <1>4 DEF Gateway!Set, ReceiverTypes
  <2>6. NoNews(s)'
    BY <2>2, <2>3, <2>4, <2>5 DEF NoNews
  <2>7. HandedInOrder(s)'
    BY <1>1, <1>2, <1>4 DEF InStep, HandedInOrder
  <2>8. InStep(s)'
    BY <1>2, <2>6, <2>7 DEF InStep
  <2>9. ReceiverTypes'
    BY <1>1, <1>2, <1>4, <2>3, <2>5 DEF ReceiverTypes
  <2> QED
    BY <1>2, <1>4, <2>3, <2>5, <2>8, <2>9, OneInStep
<1> QED
  BY <1>3, <1>4 DEF Gateway!Identifies

\* Reading a frame: what the shard has seen and what it hands over advance together.
LEMMA ReadsInStep ==
  ASSUME ReceiverInv, NEW s \in GatewayShards, Gateway!ReadReady(s) \/ Gateway!ReadResumed(s) \/ Gateway!ReadEvent(s)
  PROVE  ReceiverInv'
<1> DEFINE head == Head(wire[s])
<1>1. /\ ReceiverTypes /\ InStep(s) /\ pc[s] = "read" /\ wire[s] # <<>>
      /\ wire[s] \in Seq(FrameSet) /\ handed[s] \in Seq(FrameSet)
      /\ head \in FrameSet /\ wire[s][1] = head /\ 1 \in DOMAIN wire[s] /\ Tail(wire[s]) \in Seq(FrameSet)
      /\ seq[s] \in Nat /\ sid[s] \in Nat /\ qq[s].sid \in Nat /\ qq[s].sent \in Nat
      /\ head.kind \in {"ready", "resumed", "event"}
  <2>1. ReceiverTypes /\ InStep(s) /\ pc[s] = "read" /\ wire[s] # <<>> /\ head.kind \in {"ready", "resumed", "event"}
    BY
    DEF ReceiverInv, Gateway!ReadReady, Gateway!ReadResumed, Gateway!ReadEvent, Gateway!HasFrame
  <2>2. /\ wire[s] \in Seq(FrameSet) /\ handed[s] \in Seq(FrameSet)
        /\ seq[s] \in Nat /\ sid[s] \in Nat /\ qq[s].sid \in Nat /\ qq[s].sent \in Nat
    BY <2>1 DEF ReceiverTypes
  <2>3. head \in FrameSet /\ wire[s][1] = head /\ 1 \in DOMAIN wire[s] /\ Tail(wire[s]) \in Seq(FrameSet)
    BY <2>1, <2>2, SMT
  <2> QED
    BY <2>1, <2>2, <2>3
<1>2. /\ wire'[s] = Tail(wire[s]) /\ wire' \in [GatewayShards -> Seq(FrameSet)]
      /\ \A u \in GatewayShards : u # s => wire'[u] = wire[u]
      /\ UNCHANGED <<open, qq>>
  BY <1>1, ZenonT(40)
  DEF Gateway!ReadReady, Gateway!ReadResumed, Gateway!ReadEvent, Gateway!Take, Gateway!Set,
      ReceiverTypes
<1>3. /\ sid'[s] \in Nat /\ seq'[s] \in Nat /\ sid' \in [GatewayShards -> Nat] /\ seq' \in [GatewayShards -> Nat]
      /\ \A u \in GatewayShards : u # s => sid'[u] = sid[u] /\ seq'[u] = seq[u]
      /\ head.kind = "resumed" => sid'[s] = sid[s] /\ seq'[s] = seq[s]
      /\ head.kind = "ready" => sid'[s] = head.sid /\ seq'[s] = head.seq
      /\ head.kind = "event" => sid'[s] = sid[s] /\ seq'[s] = head.seq
  <2>1. head.sid \in Nat /\ head.seq \in Nat
    BY <1>1 DEF FrameSet
  <2> QED
    BY <1>1, <2>1
    DEF Gateway!ReadReady, Gateway!ReadResumed, Gateway!ReadEvent, Gateway!HasFrame, Gateway!Seen,
        Gateway!Set, ReceiverTypes
<1>4. /\ \A u \in GatewayShards : u # s => pc'[u] = pc[u]
      /\ pc'[s] \in Reading /\ pc' = [u \in GatewayShards |-> pc'[u]]
  BY <1>1
  DEF Gateway!ReadReady, Gateway!ReadResumed, Gateway!ReadEvent, Gateway!Set, ReceiverTypes,
      Reading
<1>5. /\ handed' \in [GatewayShards -> Seq(FrameSet)]
      /\ \A u \in GatewayShards : u # s => handed'[u] = handed[u]
      /\ head.kind = "event" => handed'[s] = Append(handed[s], head)
      /\ head.kind # "event" => handed'[s] = handed[s]
  <2>1. Append(handed[s], head) \in Seq(FrameSet)
    BY <1>1, SMT
  <2> QED
    BY <1>1, <2>1, ZenonT(40)
    DEF Gateway!ReadReady, Gateway!ReadResumed, Gateway!ReadEvent, Gateway!HasFrame, Gateway!Set,
        ReceiverTypes
<1>6. ReceiverTypes'
  BY <1>1, <1>2, <1>3, <1>4, <1>5 DEF ReceiverTypes
<1>7. InStep(s)'
  <2>1. CASE NoNews(s)
    <3>1. head.kind = "resumed"
      BY <1>1, <2>1 DEF NoNews, News
    <3>2. HandedInOrder(s)'
      <4>1. qq'[s].sent \in Nat /\ qq'[s].sent >= qq[s].sent /\ qq'[s].sid = qq[s].sid
        BY <1>1, <1>2, SMT
      <4> HIDE DEF head
      <4>2. sid'[s] = sid[s] /\ seq'[s] = seq[s] /\ handed'[s] = handed[s]
        BY <1>3, <1>5, <3>1
      <4> QED
        BY <1>1, <4>1, <4>2, HandedStays DEF InStep
    <3>3. \A i \in DOMAIN Tail(wire[s]) : i + 1 \in DOMAIN wire[s] /\ Tail(wire[s])[i] = wire[s][i + 1]
      BY <1>1, SMT
    <3>4. NoNews(s)'
      BY <1>2, <2>1, <3>3 DEF NoNews
    <3> QED
      BY <1>4, <3>2, <3>4 DEF InStep, Reading
  <2>2. CASE WireFollows(s)
    <3>1. /\ sid'[s] = IF head.kind \in News THEN head.sid ELSE sid[s]
          /\ seq'[s] = IF head.kind \in News THEN head.seq ELSE seq[s]
      <4>1. CASE head.kind = "event"
        <5>1. PICK tally \in [1 .. Len(wire[s]) + 1 -> Nat] : Follows(s, tally)
          BY <2>2 DEF WireFollows
        <5>2. 1 \in 1 .. Len(wire[s])
          BY <1>1, SMT
        <5>3. head.sid = qq[s].sid /\ sid[s] = qq[s].sid
          BY <1>1, <4>1, <5>1, <5>2 DEF Follows, News
        <5> QED
          BY <1>3, <4>1, <5>3 DEF News
      <4> QED
        BY <1>1, <1>3, <4>1 DEF News
    <3>2. /\ WireFollows(s)'
          /\ head.kind \in News => head.sid = qq[s].sid /\ qq[s].sid # 0
          /\ head.kind = "ready" =>
               /\ head.seq = 1 /\ 1 <= qq[s].sent
               /\ \A i \in DOMAIN handed[s] : handed[s][i].sid < qq[s].sid
          /\ head.kind = "event" =>
               sid[s] = qq[s].sid /\ head.seq = seq[s] + 1 /\ seq[s] + 1 <= qq[s].sent
      BY <1>1, <1>2, <2>2, <3>1, WireRead
    <3> HIDE DEF head
    <3>3. HandedInOrder(s)'
      <4>0. HandedInOrder(s)
        BY <1>1 DEF InStep
      <4>1. CASE head.kind = "resumed"
        <5>1. qq'[s].sent \in Nat /\ qq'[s].sent >= qq[s].sent /\ qq'[s].sid = qq[s].sid
          BY <1>1, <1>2, SMT
        <5>2. sid'[s] = sid[s] /\ seq'[s] = seq[s] /\ handed'[s] = handed[s]
          BY <1>3, <1>5, <4>1
        <5> QED
          BY <1>1, <4>0, <5>1, <5>2, HandedStays
      <4>2. CASE head.kind = "ready"
        BY <1>1, <1>2, <1>3, <1>5, <3>2, <4>0, <4>2, SMTT(30) DEF HandedInOrder, News
      <4>3. CASE head.kind = "event"
        <5> DEFINE n == Len(handed[s])
        <5>1. /\ n \in Nat /\ Len(handed'[s]) = n + 1 /\ handed'[s][n + 1] = head
              /\ DOMAIN handed[s] = 1 .. n /\ DOMAIN handed'[s] = 1 .. n + 1
              /\ \A i \in 1 .. n : handed'[s][i] = handed[s][i] /\ handed[s][i] \in FrameSet
              /\ handed'[s] # <<>> /\ (handed[s] = <<>> <=> n = 0)
          BY <1>1, <1>5, <4>3, SMT
        <5>2. /\ head.sid = sid[s] /\ head.seq = seq[s] + 1 /\ sid[s] # 0
              /\ sid'[s] = sid[s] /\ seq'[s] = seq[s] + 1 /\ qq'[s] = qq[s] /\ sid[s] = qq[s].sid
              /\ seq[s] + 1 <= qq[s].sent
          BY <1>2, <1>3, <3>2, <4>3 DEF News
        <5> HIDE DEF n
        <5>3. IF n + 1 > 1 /\ handed'[s][n].sid = sid[s]
              THEN head.seq = handed'[s][n].seq + 1
              ELSE head.seq = 2 /\ (n + 1 > 1 => handed'[s][n].sid < sid[s])
          <6>1. CASE n = 0
            <7>1. handed[s] = <<>>
              BY <5>1, <6>1
            <7>2. seq[s] = 1
              BY <4>0, <5>1, <5>2, <6>1, <7>1 DEF HandedInOrder
            <7> QED
              BY <5>2, <6>1, <7>2, SMT
          <6>2. CASE n # 0
            <7>1. n \in 1 .. n /\ handed'[s][n] = handed[s][n] /\ n + 1 > 1
                  /\ handed[s][n].sid \in Nat /\ handed[s][n].seq \in Nat
              BY <5>1, <6>2, SMT DEF FrameSet
            <7>2. \/ seq[s] = 1 /\ handed[s][n].sid < sid[s]
                  \/ handed[s][n].sid = sid[s] /\ handed[s][n].seq = seq[s]
              BY <4>0, <5>1, <5>2, <7>1 DEF HandedInOrder, n
            <7> QED
              BY <1>1, <5>2, <7>1, <7>2, SMTT(30)
          <6> QED
            BY <6>1, <6>2
        <5>4. \A i \in 1 .. n + 1 : i = n + 1 \/ (i \in 1 .. n /\ (i > 1 => i - 1 \in 1 .. n))
          BY <5>1, SMT
        <5>5. (n + 1) - 1 = n
          BY <5>1, SMT
        <5>6. \A i \in 1 .. n + 1 :
                IF i > 1 /\ handed'[s][i - 1].sid = handed'[s][i].sid
                THEN handed'[s][i].seq = handed'[s][i - 1].seq + 1
                ELSE /\ handed'[s][i].seq = 2
                     /\ i > 1 => handed'[s][i - 1].sid < handed'[s][i].sid
          <6> SUFFICES ASSUME NEW i \in 1 .. n + 1
                       PROVE  IF i > 1 /\ handed'[s][i - 1].sid = handed'[s][i].sid
                              THEN handed'[s][i].seq = handed'[s][i - 1].seq + 1
                              ELSE /\ handed'[s][i].seq = 2
                                   /\ i > 1 => handed'[s][i - 1].sid < handed'[s][i].sid
            OBVIOUS
          <6>1. CASE i = n + 1
            BY <5>1, <5>2, <5>3, <5>5, <6>1
          <6>2. CASE i # n + 1
            <7>1. i \in 1 .. n /\ handed'[s][i] = handed[s][i] /\ (i > 1 => handed'[s][i - 1] = handed[s][i - 1])
              BY <5>1, <5>4, <6>2
            <7>2. IF i > 1 /\ handed[s][i - 1].sid = handed[s][i].sid
                  THEN handed[s][i].seq = handed[s][i - 1].seq + 1
                  ELSE /\ handed[s][i].seq = 2
                       /\ i > 1 => handed[s][i - 1].sid < handed[s][i].sid
              BY <4>0, <5>1, <7>1 DEF HandedInOrder
            <7> QED
              BY <7>1, <7>2
          <6> QED
            BY <6>1, <6>2
        <5>7. \A i \in 1 .. n + 1 : handed'[s][i].sid <= qq[s].sid
          <6>1. qq[s].sid <= qq[s].sid
            BY <1>1, SMT
          <6> QED
            BY <4>0, <5>1, <5>2, <5>4, <6>1 DEF HandedInOrder
        <5>8. seq[s] + 1 \in 1 .. qq[s].sent
          BY <1>1, <5>2, SMT
        <5> QED
          BY <4>0, <5>1, <5>2, <5>6, <5>7, <5>8 DEF HandedInOrder
      <4> QED
        BY <1>1, <4>1, <4>2, <4>3
    <3> QED
      BY <1>4, <3>2, <3>3 DEF InStep, Reading
  <2> QED
    BY <1>1, <2>1, <2>2 DEF InStep, Reading
<1> QED
  BY <1>2, <1>3, <1>4, <1>5, <1>6, <1>7, OneInStep

\* QQ sends an event,
LEMMA QQSendsInStep ==
  ASSUME ReceiverInv, NEW s \in GatewayShards, Gateway!QQSends(s)
  PROVE  ReceiverInv'
<1> DEFINE frames == <<Gateway!Event(qq[s].sid, qq[s].sent + 1)>>
<1>1. /\ ReceiverTypes /\ InStep(s) /\ pc[s] \in Reading /\ open[s] /\ qq[s].alive
      /\ wire[s] \in Seq(FrameSet) /\ seq[s] \in Nat
      /\ qq[s] \in [sid : Nat, sent : Nat, alive : BOOLEAN] /\ qq[s].sid \in Nat /\ qq[s].sent \in Nat
      /\ UNCHANGED <<pc, sid, seq, open, handed>> /\ Gateway!Send(s, frames)
      /\ qq' = [qq EXCEPT ![s].sent = qq[s].sent + 1]
  BY DEF ReceiverInv, ReceiverTypes, Gateway!QQSends, Gateway!Serves, Reading, Gateway!client
<1>2. WireFollows(s)
  BY <1>1 DEF InStep, NoNews
<1>3. frames \in Seq(FrameSet)
  <2>1. Gateway!Event(qq[s].sid, qq[s].sent + 1) \in FrameSet
    BY <1>1, FramesOfQQ, SMT
  <2> QED
    BY <2>1, SMT
<1>4. /\ wire' \in [GatewayShards -> Seq(FrameSet)] /\ wire'[s] = wire[s] \o frames
      /\ \A u \in GatewayShards : u # s => wire'[u] = wire[u]
  BY <1>1, <1>3, SendsFrames
<1>5. /\ qq'[s].sid = qq[s].sid /\ qq'[s].sent = qq[s].sent + 1 /\ qq[s].sent + 1 \in Nat
      /\ qq[s].sent + 1 >= qq[s].sent
      /\ qq' \in [GatewayShards -> [sid : Nat, sent : Nat, alive : BOOLEAN]]
      /\ \A u \in GatewayShards : u # s => qq'[u] = qq[u]
  <2>1. qq \in [GatewayShards -> [sid : Nat, sent : Nat, alive : BOOLEAN]]
    BY <1>1 DEF ReceiverTypes
  <2> QED
    BY <1>1, <2>1, SMT
<1>6. WireFollows(s)'
  BY <1>1, <1>2, <1>4, <1>5, WireGrows
<1>7. HandedInOrder(s)'
  BY <1>1, <1>5, HandedStays DEF InStep
<1>8. InStep(s)'
  BY <1>1, <1>6, <1>7 DEF InStep, Reading
<1>9. ReceiverTypes'
  BY <1>1, <1>4, <1>5 DEF ReceiverTypes
<1> QED
  BY <1>1, <1>4, <1>5, <1>8, <1>9, OneInStep

\* The session of a connection that QQ closes may end with it.
LEMMA SessionEnds ==
  ASSUME qq \in [GatewayShards -> [sid : Nat, sent : Nat, alive : BOOLEAN]], NEW s \in GatewayShards,
         qq' = [qq EXCEPT ![s].alive = FALSE]
  PROVE  /\ qq'[s].sid = qq[s].sid /\ qq'[s].sent = qq[s].sent /\ ~qq'[s].alive
         /\ qq[s].sid \in Nat /\ qq[s].sent \in Nat
         /\ qq' \in [GatewayShards -> [sid : Nat, sent : Nat, alive : BOOLEAN]]
         /\ \A u \in GatewayShards : u # s => qq'[u] = qq[u]
<1>1. qq[s] \in [sid : Nat, sent : Nat, alive : BOOLEAN]
  OBVIOUS
<1> DEFINE less == [qq[s] EXCEPT !.alive = FALSE]
<1>2. less \in [sid : Nat, sent : Nat, alive : BOOLEAN]
  BY <1>1
<1>3. less.sid = qq[s].sid /\ less.sent = qq[s].sent /\ ~less.alive
  BY <1>1
<1>4. qq' = [qq EXCEPT ![s] = less]
  OBVIOUS
<1> HIDE DEF less
<1>5. qq'[s] = less /\ \A u \in GatewayShards : u # s => qq'[u] = qq[u]
  BY <1>4
<1>6. qq' \in [GatewayShards -> [sid : Nat, sent : Nat, alive : BOOLEAN]]
  BY <1>2, <1>4
<1> QED
  BY <1>1, <1>3, <1>5, <1>6

\* asks for another connection, closes or ends the session,
LEMMA QQEndsInStep ==
  ASSUME ReceiverInv, NEW s \in GatewayShards, Gateway!QQEnds(s)
  PROVE  ReceiverInv'
<1>1. /\ ReceiverTypes /\ InStep(s) /\ pc[s] \in Reading /\ open[s]
      /\ wire[s] \in Seq(FrameSet) /\ seq[s] \in Nat
      /\ qq \in [GatewayShards -> [sid : Nat, sent : Nat, alive : BOOLEAN]]
      /\ qq[s].sid \in Nat /\ qq[s].sent \in Nat
      /\ UNCHANGED <<pc, sid, seq, handed>> /\ open' = Gateway!Set(open, s, FALSE)
      /\ UNCHANGED qq \/ qq' = [qq EXCEPT ![s].alive = FALSE]
  BY DEF ReceiverInv, ReceiverTypes, Gateway!QQEnds, Gateway!Serves, Reading, Gateway!client
<1>2. WireFollows(s)
  BY <1>1 DEF InStep, NoNews
<1>3. PICK frames :
        /\ Gateway!Send(s, frames)
        /\ \/ \E how : frames = Gateway!Refusal(how)
           \/ frames \in {<<Gateway!Frame("fatal")>>, <<Gateway!Frame("close")>>, <<Gateway!Frame("op7"), Gateway!Frame("close")>>,
                          <<Gateway!Frame("op9"), Gateway!Frame("fatal")>>}
  BY DEF Gateway!QQEnds
<1>4. frames \in Seq(FrameSet) /\ \A i \in DOMAIN frames : frames[i].kind \notin News
  BY <1>3, RefusalsEnd
<1>5. /\ wire' \in [GatewayShards -> Seq(FrameSet)] /\ wire'[s] = wire[s] \o frames
      /\ \A u \in GatewayShards : u # s => wire'[u] = wire[u]
  BY <1>1, <1>3, <1>4, SendsFrames
<1>6. /\ qq'[s].sid = qq[s].sid /\ qq'[s].sent = qq[s].sent /\ qq[s].sent >= qq[s].sent
      /\ qq' \in [GatewayShards -> [sid : Nat, sent : Nat, alive : BOOLEAN]]
      /\ \A u \in GatewayShards : u # s => qq'[u] = qq[u]
  <2>1. CASE UNCHANGED qq
    BY <1>1, <2>1, SMT
  <2>2. CASE qq' = [qq EXCEPT ![s].alive = FALSE]
    <3>1. qq[s].sent >= qq[s].sent
      BY <1>1, SMT
    <3> QED
      BY <1>1, <2>2, <3>1, SessionEnds
  <2> QED
    BY <1>1, <2>1, <2>2
<1>7. /\ ~open'[s] /\ open' = [u \in GatewayShards |-> open'[u]]
      /\ \A u \in GatewayShards : u # s => open'[u] = open[u]
  BY <1>1 DEF Gateway!Set, ReceiverTypes
<1>8. WireFollows(s)'
  BY <1>1, <1>2, <1>4, <1>5, <1>6, <1>7, WireEnds
<1>9. HandedInOrder(s)'
  BY <1>1, <1>6, HandedStays DEF InStep
<1>10. InStep(s)'
  BY <1>1, <1>8, <1>9 DEF InStep, Reading
<1>11. ReceiverTypes'
  BY <1>1, <1>5, <1>6, <1>7 DEF ReceiverTypes
<1> QED
  BY <1>1, <1>5, <1>6, <1>7, <1>10, <1>11, OneInStep

\* or forgets a session nobody is connected to.
LEMMA ExpiresInStep ==
  ASSUME ReceiverInv, NEW s \in GatewayShards, Gateway!Expires(s)
  PROVE  ReceiverInv'
<1>1. /\ ReceiverTypes /\ InStep(s) /\ UNCHANGED <<pc, sid, seq, handed, wire, open>>
      /\ qq \in [GatewayShards -> [sid : Nat, sent : Nat, alive : BOOLEAN]]
      /\ qq' = [qq EXCEPT ![s].alive = FALSE]
  BY DEF ReceiverInv, ReceiverTypes, Gateway!Expires, Gateway!client
<1>2. /\ qq'[s].sid = qq[s].sid /\ qq'[s].sent = qq[s].sent /\ ~qq'[s].alive
      /\ qq[s].sent \in Nat /\ qq[s].sent >= qq[s].sent
      /\ qq' \in [GatewayShards -> [sid : Nat, sent : Nat, alive : BOOLEAN]]
      /\ \A u \in GatewayShards : u # s => qq'[u] = qq[u]
  <2>1. qq[s].sent \in Nat => qq[s].sent >= qq[s].sent
    BY SMT
  <2> QED
    BY <1>1, <2>1, SessionEnds
<1>3. HandedInOrder(s)'
  BY <1>1, <1>2, HandedStays DEF InStep
<1>4. NoNews(s) => NoNews(s)'
  BY <1>1 DEF NoNews
<1>5. WireFollows(s) => WireFollows(s)'
  <2> SUFFICES ASSUME WireFollows(s) PROVE WireFollows(s)'
    OBVIOUS
  <2>1. PICK tally \in [1 .. Len(wire[s]) + 1 -> Nat] : Follows(s, tally)
    BY DEF WireFollows
  <2>2. Follows(s, tally)'
    BY <1>1, <1>2, <2>1 DEF Follows
  <2> QED
    BY <1>1, <2>2 DEF WireFollows
<1>6. InStep(s)'
  BY <1>1, <1>3, <1>4, <1>5 DEF InStep
<1>7. ReceiverTypes'
  BY <1>1, <1>2 DEF ReceiverTypes
<1> QED
  BY <1>1, <1>2, <1>6, <1>7, OneInStep

\* A frame that ends the connection is read.
LEMMA ReadEndInStep ==
  ASSUME ReceiverInv, NEW s \in GatewayShards, Gateway!ReadEnd(s)
  PROVE  ReceiverInv'
<1>1. /\ ReceiverTypes /\ InStep(s) /\ UNCHANGED <<sid, seq, handed, open, qq>>
      /\ wire[s] \in Seq(FrameSet) /\ wire[s] # <<>>
      /\ pc' = [pc EXCEPT ![s] = "unbeat"] /\ wire' = [wire EXCEPT ![s] = Tail(wire[s])]
  BY
  DEF ReceiverInv, ReceiverTypes, Gateway!ReadEnd, Gateway!HasFrame, Gateway!Stops, Gateway!Take,
      Gateway!Set, Gateway!memory
<1>2. Tail(wire[s]) \in Seq(FrameSet)
  BY <1>1, SMT
<1>3. /\ wire' \in [GatewayShards -> Seq(FrameSet)]
      /\ \A u \in GatewayShards : u # s => wire'[u] = wire[u] /\ pc'[u] = pc[u]
      /\ pc'[s] = "unbeat" /\ pc' = [u \in GatewayShards |-> pc'[u]]
  BY <1>1, <1>2 DEF ReceiverTypes
<1>4. HandedInOrder(s)'
  BY <1>1 DEF InStep, HandedInOrder
<1>5. InStep(s)'
  BY <1>3, <1>4 DEF InStep, Reading
<1>6. ReceiverTypes'
  BY <1>1, <1>3 DEF ReceiverTypes
<1> QED
  BY <1>1, <1>3, <1>5, <1>6, OneInStep

\* Every step of a shard keeps the receiver in step,
LEMMA ShardInStep ==
  ASSUME ReceiverInv, NEW s \in GatewayShards, Gateway!Shard(s)
  PROVE  ReceiverInv'
<1>1. ASSUME Gateway!Loop(s) PROVE ReceiverInv'
  <2>1. PICK place \in {"ended", "connect"} : pc' = [pc EXCEPT ![s] = place]
    BY <1>1 DEF Gateway!Loop, Gateway!Set
  <2> QED
    BY <1>1, <2>1, MovesInStep DEF Gateway!Loop, Reading
<1>2. ASSUME Gateway!Delayed(s) PROVE ReceiverInv'
  BY <1>2, MovesInStep DEF Gateway!Delayed, Gateway!Set, Reading, Gateway!memory
<1>3. ASSUME Gateway!AsksSlot(s) PROVE ReceiverInv'
  BY <1>3, MovesInStep DEF Gateway!AsksSlot, Gateway!Set, Reading, Gateway!memory
<1>4. ASSUME Gateway!Handled(s) PROVE ReceiverInv'
  BY <1>4, MovesInStep DEF Gateway!Handled, Gateway!Set, Reading, Gateway!memory
<1>5. ASSUME Gateway!Unbeat(s) PROVE ReceiverInv'
  <2>1. UNCHANGED <<wire, qq, handed>>
    BY <1>5 DEF Gateway!Unbeat
  <2>2. CASE Gateway!Ends(s) \/ Gateway!FatalEnd(s) \/ \E why : Gateway!Raise(s, why) /\ UNCHANGED <<sid, seq, rej>>
    BY <2>1, <2>2, EndsInStep
  <2>3. CASE pc' = Gateway!Set(pc, s, "drain") /\ UNCHANGED <<open, sid, seq>>
    BY <2>1, <2>3, MovesInStep DEF Gateway!Set, Reading
  <2> QED
    BY <1>5, <2>2, <2>3 DEF Gateway!Unbeat
<1>6. ASSUME Gateway!Drained(s) PROVE ReceiverInv'
  BY <1>6, EndsInStep DEF Gateway!Drained
<1> QED
  BY <1>1, <1>2, <1>3, <1>4, <1>5, <1>6, ConnectedInStep, ResumesInStep, IdentifiesInStep,
     ReadsInStep, ReadEndInStep
  DEF Gateway!Shard

\* every failure does,
LEMMA BreaksInStep ==
  ASSUME ReceiverInv, NEW s \in GatewayShards, Gateway!Breaks(s)
  PROVE  ReceiverInv'
<1>1. ASSUME Gateway!ConnectFails(s) PROVE ReceiverInv'
  BY <1>1, EndsInStep DEF Gateway!ConnectFails
<1>2. ASSUME Gateway!TokenDenied(s) PROVE ReceiverInv'
  <2>1. UNCHANGED <<wire, qq, handed>> /\ \E why : Gateway!Raise(s, why) /\ UNCHANGED <<sid, seq, rej>>
    BY <1>2 DEF Gateway!TokenDenied, Gateway!memory
  <2> QED
    BY <2>1, EndsInStep
<1>3. ASSUME Gateway!HandlerFails(s) PROVE ReceiverInv'
  BY <1>3, MovesInStep
  DEF Gateway!HandlerFails, Gateway!Stops, Gateway!Set, Reading, Gateway!memory
<1>4. ASSUME Gateway!BeatFails(s) PROVE ReceiverInv'
  BY <1>4, GroupInStep DEF Gateway!BeatFails, Gateway!memory
<1> QED
  BY <1>1, <1>2, <1>3, <1>4 DEF Gateway!Breaks

\* and what is done to the receiver as a whole.
LEMMA RunInStep ==
  ASSUME ReceiverInv, Gateway!Run \/ Gateway!ResolveFails \/ Gateway!ResolveDenied \/ Gateway!GatewayStops \/ Gateway!StopCalled
  PROVE  ReceiverInv'
<1>1. UNCHANGED <<sid, seq, wire, qq, handed>>
  BY
  DEF Gateway!Run, Gateway!Resolved, Gateway!Retries, Gateway!Joined, Gateway!Watch,
      Gateway!ResolveFails, Gateway!ResolveDenied, Gateway!GatewayStops, Gateway!StopCalled,
      Gateway!memory
<1>2. \/ UNCHANGED <<pc, open>>
      \/ UNCHANGED open /\ pc' = [s \in GatewayShards |-> "loop"]
      \/ Gateway!Abort({})
  BY
  DEF Gateway!Run, Gateway!Resolved, Gateway!Retries, Gateway!Joined, Gateway!Watch,
      Gateway!ResolveFails, Gateway!ResolveDenied, Gateway!GatewayStops, Gateway!StopCalled
<1> QED
  BY <1>1, <1>2, GroupInStep

\* Every step keeps the invariant.
LEMMA NextInStep == ReceiverInv /\ [Gateway!Next]_Gateway!vars => ReceiverInv'
<1> SUFFICES ASSUME ReceiverInv, [Gateway!Next]_Gateway!vars PROVE ReceiverInv'
  OBVIOUS
<1>1. CASE Gateway!Next
  BY <1>1, ShardInStep, BreaksInStep, RunInStep, QQSendsInStep, QQEndsInStep, ExpiresInStep
  DEF Gateway!Next, Gateway!OfQQ
<1>2. CASE UNCHANGED Gateway!vars
  BY <1>2, GroupInStep DEF Gateway!vars, Gateway!client
<1> QED
  BY <1>1, <1>2

\* The initial states satisfy it.
LEMMA StartInStep == Gateway!Init => ReceiverInv
<1> SUFFICES ASSUME Gateway!Init PROVE ReceiverInv
  OBVIOUS
<1>1. <<>> \in Seq(FrameSet) /\ DOMAIN <<>> = {}
  BY SMT
<1>2. ReceiverTypes
  <2>1. 0 \in Nat
    BY SMT
  <2>2. wire \in [GatewayShards -> Seq(FrameSet)] /\ handed \in [GatewayShards -> Seq(FrameSet)]
    BY <1>1 DEF Gateway!Init
  <2>3. sid \in [GatewayShards -> Nat] /\ seq \in [GatewayShards -> Nat]
    BY <2>1 DEF Gateway!Init
  <2>4. qq \in [GatewayShards -> [sid : Nat, sent : Nat, alive : BOOLEAN]]
    BY <2>1 DEF Gateway!Init
  <2>5. pc = [s \in GatewayShards |-> pc[s]] /\ open = [s \in GatewayShards |-> open[s]]
    BY DEF Gateway!Init
  <2> QED
    BY <2>2, <2>3, <2>4, <2>5 DEF ReceiverTypes
<1>3. ASSUME NEW s \in GatewayShards PROVE InStep(s)
  <2>1. /\ handed[s] = <<>> /\ wire[s] = <<>> /\ sid[s] = 0 /\ qq[s].sid = 0 /\ pc[s] = "none"
    BY DEF Gateway!Init
  <2>2. 0 <= 0
    BY SMT
  <2> QED
    BY <1>1, <2>1, <2>2 DEF InStep, HandedInOrder, Reading
<1> QED
  BY <1>2, <1>3 DEF ReceiverInv

\* The invariant has the events handed over in order.
LEMMA InStepHands == ReceiverInv => Gateway!EventsAreHandedOnce
<1> SUFFICES ASSUME ReceiverInv, NEW s \in GatewayShards, sid[s] # 0
             PROVE  LET mine == {i \in DOMAIN handed[s] : handed[s][i].sid = sid[s]}
                    IN IF mine = {} THEN seq[s] = 1
                       ELSE \E last \in mine : (\A i \in mine : i <= last) /\ seq[s] = handed[s][last].seq
  BY DEF ReceiverInv, InStep, HandedInOrder, Gateway!EventsAreHandedOnce
<1>1. handed[s] \in Seq(FrameSet) /\ sid[s] \in Nat /\ HandedInOrder(s)
  BY DEF ReceiverInv, ReceiverTypes, InStep
<1>2. CASE seq[s] = 1 /\ \A i \in DOMAIN handed[s] : handed[s][i].sid < sid[s]
  <2>1. ~(sid[s] < sid[s])
    BY <1>1, SMT
  <2>2. {i \in DOMAIN handed[s] : handed[s][i].sid = sid[s]} = {}
    BY <1>2, <2>1
  <2> QED
    BY <1>2, <2>2
<1>3. CASE /\ handed[s] # <<>> /\ handed[s][Len(handed[s])].sid = sid[s]
           /\ handed[s][Len(handed[s])].seq = seq[s]
  <2>1. Len(handed[s]) \in DOMAIN handed[s] /\ \A i \in DOMAIN handed[s] : i <= Len(handed[s])
    BY <1>1, <1>3, SMT
  <2> QED
    BY <1>3, <2>1
<1> QED
  BY <1>1, <1>2, <1>3 DEF HandedInOrder

\* Events reach the channel in the order of QQ, once each, whatever disconnects, resumes,
\* refusals, restarts and cancellations lie between: _identify_or_resume, _dispatch_if_needed.
THEOREM HandedInTurn == Gateway!Spec => []EventsAreHandedOnce
<1>1. Gateway!Init => ReceiverInv
  BY StartInStep
<1>2. ReceiverInv /\ [Gateway!Next]_Gateway!vars => ReceiverInv'
  BY NextInStep
<1>3. ReceiverInv => Gateway!EventsAreHandedOnce
  BY InStepHands
<1> QED
  BY <1>1, <1>2, <1>3, PTL DEF EventsAreHandedOnce, Gateway!Spec

-----------------------------------------------------------------------------
(* The proof that files are whole *)

\* A block of a file; where a call stands; the call has opened a file, or had no need to.
Block == (Attachments \cup {0}) \X Nat
FileStages == {"idle", "get", "write", "read", "prepare", "put", "sent", "over"}
Used(f) == f \in FileCalls /\ fAt[f] \notin {"idle", "get"}

\* The types of the variables.
FileTypes ==
  /\ fChatOf \in [Attachments -> Chats \cup {"none"}]
  /\ fCall \in [FileCalls -> [kind : {"none", "prompt", "view", "fetch", "send"},
                              of : Attachments \cup {0}, chat : Chats \cup {"none"}]]
  /\ fAt \in [FileCalls -> FileStages]
  /\ fPos \in [FileCalls -> Nat] /\ fFile \in [FileCalls -> FileCalls \cup {0}]
  /\ fPart \in [Media!Names -> FileCalls \cup {0}] /\ fDest \in [Media!Names -> FileCalls \cup {0}]
  /\ fData \in [FileCalls -> [1 .. FileSize -> Block]]
  /\ fGot \in [FileCalls -> Seq(Block)] /\ fUploaded \in [FileCalls -> Seq(Block)]
  /\ fParts \in [FileCalls -> Blocks \cup {<<>>}]

\* What is remembered of a message is its chat.
RecordFits ==
  \A m \in DOMAIN fRecord.value :
    m \in Attachments /\ fRecord.value[m] = fChatOf[m] /\ fChatOf[m] # "none"

\* The blocks are those of an attachment under the name.
WholeUnder(blocks, name) ==
  \E m \in Attachments : FileName(m) = name /\ blocks = Media!Whole(m)

\* What has been uploaded is as much of the file as the parts so far ask for.
UploadFits(c) ==
  /\ Len(fUploaded[c]) = Media!Least(Media!Offsets(fParts[c])[fPos[c]], FileSize)
  /\ \A i \in 1 .. Len(fUploaded[c]) : fUploaded[c][i] = fGot[c][i]

\* A call has begun with an attachment that has arrived, in its own chat unless it sends; it
\* has read, and uploaded, as far as it has come.
CallFits(c) ==
  /\ fAt[c] \in {"idle", "get", "write"} => fGot[c] = <<>>
  /\ fAt[c] \in {"idle", "get", "prepare"} => fPos[c] = 0
  /\ fAt[c] \in {"idle", "get"} => fFile[c] = 0
  /\ fAt[c] \in {"idle", "get", "write", "read", "prepare"} => fUploaded[c] = <<>>
  /\ fAt[c] = "idle" => fCall[c] = Media!NoCall
  /\ fAt[c] # "idle" => /\ fCall[c].of \in Attachments /\ fChatOf[fCall[c].of] # "none"
                        /\ fCall[c].kind # "send" => fChatOf[fCall[c].of] = fCall[c].chat
  /\ fAt[c] = "write" => fFile[c] # 0 /\ fPos[c] <= FileSize
  /\ fAt[c] = "read" => fDest[Media!Name(c)] # 0
  /\ fGot[c] = <<>> \/ Media!Name(c) \in fShared \/ WholeUnder(fGot[c], Media!Name(c))
  /\ fAt[c] \in {"prepare", "put"} => Len(fGot[c]) = FileSize
  /\ fAt[c] = "put" => /\ fParts[c] \in Blocks /\ fPos[c] <= Len(fParts[c])
                       /\ UploadFits(c)
  /\ fAt[c] = "sent" => fUploaded[c] = fGot[c]

\* A name leads to files that were opened for it, another before the download is over.
NamesFit ==
  /\ \A n \in Media!Names :
       /\ fPart[n] # 0 => Used(fPart[n]) /\ Media!Name(fPart[n]) = n /\ fPart[n] # fDest[n]
       /\ fDest[n] # 0 => Used(fDest[n]) /\ Media!Name(fDest[n]) = n
  /\ \A c \in FileCalls : fFile[c] # 0 => Used(fFile[c]) /\ Media!Name(fFile[c]) = Media!Name(c)

\* While one download at a time writes to a name, it writes to what the part's name leads to,
\* and what is downloaded is whole.
Written(c) ==
  fAt[c] = "write" /\ Media!Name(c) \notin fShared =>
    /\ fPart[Media!Name(c)] = fFile[c]
    /\ \A b \in 1 .. FileSize : b <= fPos[c] => fData[fFile[c]][b] = <<fCall[c].of, b>>
DownloadsFit ==
  /\ \A n \in Media!Names : fDest[n] # 0 /\ n \notin fShared => WholeUnder(fData[fDest[n]], n)
  /\ \A c \in FileCalls : Written(c)
  /\ \A c, d \in FileCalls :
       /\ fAt[c] = "write" /\ fAt[d] = "write" /\ c # d
       /\ Media!Name(c) = Media!Name(d)
       => Media!Name(c) \in fShared

\* A part has a download that writes it, while the process runs.
PartsAreWritten ==
  fCrashes = 0 => \A n \in Media!Names : fPart[n] # 0 =>
                    \E c \in FileCalls : fAt[c] = "write" /\ Media!Name(c) = n

\* The inductive invariant of files.
FilesInv ==
  /\ FileTypes /\ RecordFits /\ (\A c \in FileCalls : CallFits(c)) /\ NamesFit
  /\ DownloadsFit /\ PartsAreWritten /\ fCrashes \in Nat

\* The order of the natural numbers is well founded,
LEMMA NatOrder == \E R : IsWellFoundedOn(R, Nat) /\ \A x, y \in Nat : x < y => <<x, y>> \in R
<1>1. IsWellFoundedOn(OpToRel(<, Nat), Nat)
  BY NatLessThanWellFounded, Zenon
<1>2. \A x, y \in Nat : x < y => <<x, y>> \in OpToRel(<, Nat)
  BY DEF OpToRel
<1> QED BY <1>1, <1>2, Zenon

\* so that a set of them has a least element.
LEMMA Least ==
  ASSUME NEW S, S \subseteq Nat, S # {} PROVE \E m \in S : \A k \in S : m <= k
<1>1. PICK R : IsWellFoundedOn(R, Nat) /\ \A x, y \in Nat : x < y => <<x, y>> \in R
  BY NatOrder
<1>2. \A T \in SUBSET Nat : T # {} => \E x \in T : \A y \in T : ~ (<<y, x>> \in R)
  <2>1. IsWellFoundedOn(R, Nat)
    BY <1>1
  <2> TAKE T \in SUBSET Nat
  <2> HAVE T # {}
  <2>2. T \subseteq Nat
    OBVIOUS
  <2> QED BY <2>1, <2>2, WFMin
<1>3. PICK x \in S : \A y \in S : ~ (<<y, x>> \in R)
  BY <1>2
<1>4. \A y \in S : ~(y < x)
  BY <1>1, <1>3
<1> QED BY <1>3, <1>4

\* What is assumed of files.
LEMMA FileFacts ==
  /\ "none" \notin Chats /\ 0 \notin FileCalls /\ FileSize \in Nat \ {0}
  /\ \A p \in Blocks :
       /\ Len(p) \in Nat /\ \A k \in 1 .. Len(p) : p[k] \in Nat
       /\ Media!Offsets(p)[Len(p)] >= FileSize
  BY Receivers DEF Media!QQMediaConstants

\* f: where the parts begin, one after the other.
Begin(f, p, l) ==
  f \in [0 .. l -> Nat] /\ f[0] = 0 /\ \A n \in 1 .. l : f[n] = f[n - 1] + p[n]

\* There are such places,
LEMMA BeginsExist ==
  ASSUME NEW p, NEW l \in Nat, \A k \in 1 .. l : p[k] \in Nat PROVE \E f : Begin(f, p, l)
<1> DEFINE bad == {k \in 0 .. l : ~ \E f : Begin(f, p, k)}
<1>1. ASSUME bad # {} PROVE FALSE
  <2>1. PICK m \in bad : \A k \in bad : m <= k
    <3>1. bad \subseteq Nat
      OBVIOUS
    <3> HIDE DEF bad
    <3> QED BY <1>1, <3>1, Least
  <2>2. m \in 0 .. l /\ ~ \E f : Begin(f, p, m)
    BY <2>1
  <2>3. m # 0
    <3>1. Begin([k \in 0 .. 0 |-> 0], p, 0)
      BY DEF Begin
    <3> QED BY <2>2, <3>1
  <2>4. m - 1 \in 0 .. l /\ m - 1 \notin bad
    <3>1. m - 1 \in 0 .. l /\ ~ (m <= m - 1)
      BY <2>2, <2>3
    <3> HIDE DEF bad
    <3> QED BY <2>1, <3>1
  <2>5. PICK f : Begin(f, p, m - 1)
    BY <2>4
  <2>6. /\ f \in [0 .. m - 1 -> Nat] /\ f[0] = 0
        /\ \A n \in 1 .. m - 1 : f[n] = f[n - 1] + p[n]
    BY <2>5 DEF Begin
  <2> DEFINE x == p[m]
             g == [k \in 0 .. m |-> IF k = m THEN f[m - 1] + x ELSE f[k]]
  <2>7. x \in Nat /\ m \in 1 .. l /\ m - 1 \in 0 .. m - 1 /\ m \in Nat
    BY <2>2, <2>3
  <2>8. g \in [0 .. m -> Nat]
    <3> HIDE DEF x
    <3> QED BY <2>6, <2>7
  <2>9. g[0] = 0
    BY <2>6, <2>7
  <2>10. ASSUME NEW n \in 1 .. m PROVE g[n] = g[n - 1] + p[n]
    <3>1. n \in 0 .. m /\ n - 1 \in 0 .. m /\ n - 1 # m /\ (n = m \/ n \in 1 .. m - 1)
      BY <2>7
    <3>2. g[n - 1] = f[n - 1]
      BY <3>1
    <3>3. CASE n = m
      BY <3>1, <3>2, <3>3
    <3>4. CASE n # m
      BY <2>6, <3>1, <3>2, <3>4
    <3> QED BY <3>3, <3>4
  <2>11. Begin(g, p, m)
    <3> HIDE DEF g
    <3> QED BY <2>8, <2>9, <2>10 DEF Begin
  <2> QED BY <2>2, <2>11
<1> QED
  BY <1>1

\* and Offsets are they.
LEMMA OffsetsAre ==
  ASSUME NEW p \in Blocks
  PROVE  /\ Media!Offsets(p)[0] = 0
         /\ \A n \in 1 .. Len(p) : Media!Offsets(p)[n] = Media!Offsets(p)[n - 1] + p[n]
         /\ \A n \in 0 .. Len(p) : Media!Offsets(p)[n] \in Nat
<1> DEFINE l == Len(p)
           At(f, n) == IF n = 0 THEN 0 ELSE f[n - 1] + p[n]
           Goes(f) == f = [n \in 0 .. l |-> At(f, n)]
           g == CHOOSE f : Goes(f)
<1>1. l \in Nat /\ \A k \in 1 .. l : p[k] \in Nat
  BY FileFacts
<1>2. PICK f : Begin(f, p, l)
  BY <1>1, BeginsExist
<1>3. Goes(f)
  <2>1. ASSUME NEW n \in 0 .. l PROVE f[n] = At(f, n)
    BY <1>1, <1>2 DEF Begin
  <2>2. f \in [0 .. l -> Nat]
    BY <1>2 DEF Begin
  <2> HIDE DEF At
  <2> QED BY <2>1, <2>2
<1>4. Goes(g)
  <2> HIDE DEF Goes
  <2> QED BY <1>3
<1>5. Media!Offsets(p) = g
  BY DEF Media!Offsets
<1> HIDE DEF g
<1>6. g[0] = 0 /\ \A n \in 1 .. l : g[n] = g[n - 1] + p[n]
  BY <1>1, <1>4
<1>7. \A n \in 0 .. l : g[n] \in Nat
  <2> DEFINE bad == {n \in 0 .. l : g[n] \notin Nat}
  <2> SUFFICES ASSUME bad # {} PROVE FALSE
    OBVIOUS
  <2>1. PICK m \in bad : \A k \in bad : m <= k
    <3>1. bad \subseteq Nat
      OBVIOUS
    <3> HIDE DEF bad
    <3> QED BY <3>1, Least
  <2>2. m \in 1 .. l /\ g[m] \notin Nat
    BY <1>1, <1>6, <2>1
  <2>3. g[m - 1] \in Nat
    <3>1. m - 1 \in 0 .. l /\ ~ (m <= m - 1)
      BY <1>1, <2>2
    <3>2. m - 1 \notin bad
      <4> HIDE DEF bad
      <4> QED BY <2>1, <3>1
    <3> QED BY <3>1, <3>2
  <2>4. g[m] = g[m - 1] + p[m] /\ p[m] \in Nat
    BY <1>1, <1>6, <2>2
  <2> QED BY <2>2, <2>3, <2>4
<1> QED
  BY <1>5, <1>6, <1>7

\* A call rests while others go on.
LEMMA CallStays ==
  ASSUME NEW d \in FileCalls, CallFits(d),
         fAt'[d] = fAt[d], fCall'[d] = fCall[d], fPos'[d] = fPos[d], fFile'[d] = fFile[d],
         fGot'[d] = fGot[d], fUploaded'[d] = fUploaded[d], fParts'[d] = fParts[d],
         \A m \in Attachments : fChatOf[m] # "none" => fChatOf'[m] = fChatOf[m],
         fShared \subseteq fShared',
         fAt[d] = "read" /\ fDest[Media!Name(d)] # 0 => fDest'[Media!Name(d)] # 0
  PROVE  CallFits(d)'
<1>1. Media!Name(d)' = Media!Name(d) /\ UploadFits(d)' = UploadFits(d)
  BY DEF Media!Name, UploadFits
<1>2. WholeUnder(fGot[d], Media!Name(d))' = WholeUnder(fGot[d], Media!Name(d))
  BY <1>1 DEF WholeUnder
<1>3. fDest[Media!Name(d)]' = fDest'[Media!Name(d)]
  BY <1>1
<1> QED
  BY <1>1, <1>2, <1>3 DEF CallFits

\* While a call neither downloads nor begins to, the files are as they were.
LEMMA FilesRest ==
  ASSUME FilesInv, NEW c \in FileCalls,
         UNCHANGED <<fPart, fDest, fData, fFile, fShared, fCrashes>>,
         \A d \in FileCalls \ {c} :
           fAt'[d] = fAt[d] /\ fCall'[d] = fCall[d] /\ fPos'[d] = fPos[d],
         fAt[c] # "write" /\ fAt'[c] # "write",
         fAt[c] = "idle" \/ (fCall'[c] = fCall[c] /\ (fAt[c] # "get" => fAt'[c] # "get")),
         fAt'[c] # "idle"
  PROVE  NamesFit' /\ DownloadsFit' /\ PartsAreWritten' /\ fCrashes' \in Nat
<1>1. NamesFit /\ DownloadsFit /\ PartsAreWritten /\ fCrashes \in Nat /\ CallFits(c)
  BY DEF FilesInv
<1>2. ASSUME NEW f, Used(f) PROVE Used(f)' /\ Media!Name(f)' = Media!Name(f)
  BY <1>2 DEF Used, Media!Name
<1>3. \A d \in FileCalls : d # c => Media!Name(d)' = Media!Name(d)
  BY DEF Media!Name
<1>4. NamesFit'
  <2>1. ASSUME NEW d \in FileCalls, fFile[d] # 0
        PROVE  Used(fFile[d])' /\ Media!Name(fFile[d])' = Media!Name(d)'
    <3>1. Used(fFile[d]) /\ Media!Name(fFile[d]) = Media!Name(d)
      BY <1>1, <2>1 DEF NamesFit
    <3>2. Media!Name(d)' = Media!Name(d)
      BY <1>1, <1>3, <2>1 DEF CallFits, Media!Name
    <3> QED BY <1>2, <3>1, <3>2
  <2>2. ASSUME NEW n \in Media!Names
        PROVE  /\ fPart[n] # 0 => Used(fPart[n])' /\ Media!Name(fPart[n])' = n /\ fPart[n] # fDest[n]
               /\ fDest[n] # 0 => Used(fDest[n])' /\ Media!Name(fDest[n])' = n
    BY <1>1, <1>2 DEF NamesFit
  <2> QED BY <2>1, <2>2 DEF NamesFit
<1>5. DownloadsFit'
  <2>1. ASSUME NEW d \in FileCalls PROVE Written(d)'
    <3>1. CASE d = c
      BY <3>1 DEF Written
    <3>2. CASE d # c
      <4>1. Written(d) /\ Media!Name(d)' = Media!Name(d)
        BY <1>1, <1>3, <3>2 DEF DownloadsFit
      <4> QED BY <3>2, <4>1 DEF Written
    <3> QED BY <3>1, <3>2
  <2>2. ASSUME NEW d \in FileCalls, NEW e \in FileCalls, fAt'[d] = "write", fAt'[e] = "write",
               d # e, Media!Name(d)' = Media!Name(e)'
        PROVE  Media!Name(d)' \in fShared'
    BY <1>1, <1>3, <2>2 DEF DownloadsFit
  <2>3. \A n \in Media!Names : fDest[n] # 0 /\ n \notin fShared => WholeUnder(fData[fDest[n]], n)
    BY <1>1 DEF DownloadsFit
  <2>4. \A n \in Media!Names : fDest'[n] # 0 /\ n \notin fShared' => WholeUnder(fData'[fDest'[n]], n)
    BY <2>3
  <2> QED BY <2>1, <2>2, <2>4 DEF DownloadsFit
<1>6. PartsAreWritten'
  <2>1. ASSUME fCrashes = 0, NEW n \in Media!Names, fPart[n] # 0
        PROVE  \E d \in FileCalls : fAt'[d] = "write" /\ Media!Name(d)' = n
    <3>1. PICK d \in FileCalls : fAt[d] = "write" /\ Media!Name(d) = n
      BY <1>1, <2>1 DEF PartsAreWritten
    <3>2. d # c
      BY <3>1
    <3> QED BY <1>3, <3>1, <3>2
  <2> QED BY <2>1 DEF PartsAreWritten
<1> QED BY <1>1, <1>4, <1>5, <1>6

\* The parts of the invariant.
LEMMA FilesParts ==
  ASSUME FilesInv
  PROVE  /\ FileTypes /\ RecordFits /\ NamesFit /\ DownloadsFit /\ PartsAreWritten
         /\ \A c \in FileCalls : CallFits(c)
         /\ fCrashes \in Nat
  BY DEF FilesInv

\* A message that arrives is the first of its name.
LEMMA ArrivesKeepsFiles ==
  ASSUME FilesInv, NEW m \in Attachments, NEW s \in Chats, Media!Arrives(m, s)
  PROVE  FilesInv'
<1>1. /\ fChatOf[m] = "none" /\ fChatOf' = [fChatOf EXCEPT ![m] = s]
      /\ fRecord' = Media!Put(fRecord, m, s, StateSize)
      /\ UNCHANGED <<fCall, fAt, fPos, fFile, fGot, fData, fPart, fDest, fUploaded, fParts,
                     fShared, fCrashes>>
  BY DEF Media!Arrives, Media!calls, Media!files, Media!upload
<1>2. FileTypes /\ RecordFits /\ s # "none"
  BY FilesParts, FileFacts
<1>3. fChatOf'[m] = s /\ \A k \in Attachments : k # m => fChatOf'[k] = fChatOf[k]
  BY <1>1, <1>2 DEF FileTypes
<1>4. FileTypes'
  <2>1. fChatOf' \in [Attachments -> Chats \cup {"none"}]
    BY <1>1, <1>2 DEF FileTypes
  <2> QED BY <1>1, <1>2, <2>1 DEF FileTypes
<1>5. RecordFits'
  <2>1. \A k \in DOMAIN fRecord'.value :
          k = m \/ k \in DOMAIN fRecord.value
    BY <1>1 DEF Media!Put
  <2>2. \A k \in DOMAIN fRecord'.value :
          fRecord'.value[k] = IF k = m THEN s ELSE fRecord.value[k]
    BY <1>1 DEF Media!Put
  <2>3. ASSUME NEW k \in DOMAIN fRecord'.value
        PROVE  k \in Attachments /\ fRecord'.value[k] = fChatOf'[k] /\ fChatOf'[k] # "none"
    <3>1. CASE k = m
      BY <1>2, <1>3, <2>2, <3>1
    <3>2. CASE k # m
      <4>1. k \in DOMAIN fRecord.value /\ fRecord'.value[k] = fRecord.value[k]
        BY <2>1, <2>2, <3>2
      <4>2. k \in Attachments /\ fRecord.value[k] = fChatOf[k] /\ fChatOf[k] # "none"
        BY <1>2, <4>1 DEF RecordFits
      <4> QED BY <1>3, <3>2, <4>1, <4>2
    <3> QED BY <3>1, <3>2
  <2> QED BY <2>3 DEF RecordFits
<1>6. ASSUME NEW c \in FileCalls PROVE CallFits(c)'
  <2>1. CallFits(c)
    BY FilesParts
  <2>2. \A k \in Attachments : fChatOf[k] # "none" => fChatOf'[k] = fChatOf[k]
    BY <1>1, <1>3
  <2> QED BY <1>1, <2>1, <2>2, CallStays
<1>7. NamesFit'
  BY <1>1, FilesParts DEF NamesFit, Used, Media!Name
<1>8. DownloadsFit'
  BY <1>1, FilesParts DEF DownloadsFit, Written, WholeUnder, Media!Name
<1>9. PartsAreWritten' /\ fCrashes' \in Nat
  BY <1>1, FilesParts DEF PartsAreWritten, Media!Name
<1> QED BY <1>4, <1>5, <1>6, <1>7, <1>8, <1>9 DEF FilesInv

\* A call begins with an attachment of its chat.
LEMMA BeginsKeepsFiles ==
  ASSUME FilesInv, NEW c \in FileCalls, NEW kind \in {"prompt", "view", "fetch"},
         NEW m \in Attachments, NEW s \in Chats, Media!Begins(c, kind, m, s)
  PROVE  FilesInv'
<1> DEFINE begun == [kind |-> kind, of |-> m, chat |-> s]
           where == IF fDest[FileName(m)] = 0 THEN "get" ELSE "read"
<1>1. /\ fAt[c] = "idle" /\ fChatOf[m] # "none"
      /\ fCall' = [fCall EXCEPT ![c] = begun] /\ fAt' = [fAt EXCEPT ![c] = where]
      /\ UNCHANGED <<fRecord, fPos, fFile, fGot, fData, fPart, fDest, fUploaded, fParts,
                     fChatOf, fShared, fCrashes>>
  BY DEF Media!Begins, Media!Goes, Media!files, Media!upload, Media!history
<1>2. FileTypes /\ RecordFits /\ CallFits(c) /\ "none" \notin Chats
  BY FilesParts, FileFacts
<1>3. fChatOf[m] = s
  <2>1. CASE s = fChatOf[m]
    BY <2>1
  <2>2. CASE Media!ChatAttachment(m, s)
    <3>1. m \in DOMAIN fRecord.value /\ fRecord.value[m] = s
      BY <1>2, <2>2 DEF Media!ChatAttachment, Media!Get, Media!Has
    <3> QED BY <1>2, <3>1 DEF RecordFits
  <2> QED BY <2>1, <2>2 DEF Media!Begins
<1>4. /\ fCall'[c] = begun /\ fAt'[c] = where
      /\ \A d \in FileCalls \ {c} : fCall'[d] = fCall[d] /\ fAt'[d] = fAt[d]
  BY <1>1, <1>2 DEF FileTypes
<1>5. where \in {"get", "read"} /\ (where = "read" => fDest[FileName(m)] # 0)
  OBVIOUS
<1>6. FileTypes'
  <2>1. begun \in [kind : {"none", "prompt", "view", "fetch", "send"},
                   of : Attachments \cup {0}, chat : Chats \cup {"none"}]
    OBVIOUS
  <2> HIDE DEF begun, where
  <2>2. fCall' \in [FileCalls -> [kind : {"none", "prompt", "view", "fetch", "send"},
                                  of : Attachments \cup {0}, chat : Chats \cup {"none"}]]
    BY <1>1, <1>2, <2>1 DEF FileTypes
  <2>3. fAt' \in [FileCalls -> FileStages]
    BY <1>1, <1>2, <1>5 DEF FileTypes, FileStages
  <2> QED BY <1>1, <1>2, <2>2, <2>3 DEF FileTypes
<1>7. RecordFits'
  BY <1>1, <1>2 DEF RecordFits
<1>8. CallFits(c)'
  <2>1. Media!Name(c)' = FileName(m)
    BY <1>4 DEF Media!Name
  <2>2. fCall'[c].of = m /\ fCall'[c].kind # "send" /\ fCall'[c].chat = s
    BY <1>4
  <2>3. fGot'[c] = <<>> /\ fPos'[c] = 0 /\ fFile'[c] = 0 /\ fUploaded'[c] = <<>>
        /\ fChatOf' = fChatOf /\ fDest' = fDest
    BY <1>1, <1>2 DEF CallFits
  <2> HIDE DEF where, begun
  <2>4. fAt'[c] \in {"get", "read"} /\ (fAt'[c] = "read" => fDest[FileName(m)] # 0)
    BY <1>4, <1>5
  <2> QED BY <1>1, <1>3, <2>1, <2>2, <2>3, <2>4 DEF CallFits
<1>9. ASSUME NEW d \in FileCalls PROVE CallFits(d)'
  <2>1. CASE d = c
    BY <1>8, <2>1
  <2>2. CASE d # c
    BY <1>1, <1>4, <2>2, FilesParts, CallStays
  <2> QED BY <2>1, <2>2
<1>10. NamesFit' /\ DownloadsFit' /\ PartsAreWritten' /\ fCrashes' \in Nat
  <2> HIDE DEF where, begun
  <2>1. fAt'[c] # "write" /\ fAt'[c] # "idle"
    BY <1>4, <1>5
  <2> QED BY <1>1, <1>4, <2>1, FilesRest
<1> QED BY <1>6, <1>7, <1>9, <1>10 DEF FilesInv

\* A call that ends, and does not download, leaves all else as it was.
LEMMA CallEnds ==
  ASSUME FilesInv, NEW c \in FileCalls, fAt[c] \notin {"idle", "write"},
         fAt' = [fAt EXCEPT ![c] = "over"],
         UNCHANGED <<fRecord, fCall, fPos, fFile, fGot, fData, fPart, fDest, fUploaded, fParts,
                     fChatOf, fShared, fCrashes>>
  PROVE  FilesInv'
<1>1. FileTypes /\ RecordFits /\ CallFits(c)
  BY FilesParts
<1>2. fAt'[c] = "over" /\ \A d \in FileCalls \ {c} : fAt'[d] = fAt[d]
  BY <1>1 DEF FileTypes
<1>3. FileTypes'
  <2>1. fAt' \in [FileCalls -> FileStages]
    BY <1>1 DEF FileTypes, FileStages
  <2> QED BY <1>1, <2>1 DEF FileTypes
<1>4. CallFits(c)'
  <2>1. Media!Name(c)' = Media!Name(c)
    BY DEF Media!Name
  <2>2. WholeUnder(fGot[c], Media!Name(c))' = WholeUnder(fGot[c], Media!Name(c))
    BY <2>1 DEF WholeUnder
  <2> QED BY <1>1, <1>2, <2>1, <2>2 DEF CallFits
<1>5. ASSUME NEW d \in FileCalls PROVE CallFits(d)'
  <2>1. CASE d = c
    BY <1>4, <2>1
  <2>2. CASE d # c
    BY <1>2, <2>2, FilesParts, CallStays
  <2> QED BY <2>1, <2>2
<1>6. NamesFit' /\ DownloadsFit' /\ PartsAreWritten' /\ fCrashes' \in Nat
  BY <1>2, FilesRest
<1>7. RecordFits'
  BY <1>1 DEF RecordFits
<1> QED BY <1>3, <1>5, <1>6, <1>7 DEF FilesInv

\* A download that opens its part starts over what is under the part's name.
LEMMA GetsKeepsFiles ==
  ASSUME FilesInv, NEW c \in FileCalls, Media!Gets(c) PROVE FilesInv'
<1>1. CASE Media!Ends(c) /\ UNCHANGED <<fFile, Media!files, fShared>>
  <2>1. fAt[c] \notin {"idle", "write"} /\ fAt' = [fAt EXCEPT ![c] = "over"]
    BY <1>1 DEF Media!Gets, Media!Ends, Media!Goes
  <2>2. UNCHANGED <<fRecord, fCall, fPos, fFile, fGot, fData, fPart, fDest, fUploaded, fParts,
                    fChatOf, fShared, fCrashes>>
    BY <1>1 DEF Media!Gets, Media!files, Media!upload
  <2> QED BY <2>1, <2>2, CallEnds
<1>2. CASE Media!Goes(c, "write") /\ Media!OpensPart(c)
           /\ fShared' = fShared \cup
                {n \in {Media!Name(c)} : \E d \in FileCalls : fAt[d] = "write" /\ Media!Name(d) = n}
  <2> DEFINE name == Media!Name(c)
             file == IF fPart[name] = 0 THEN c ELSE fPart[name]
  <2>1. /\ fAt[c] = "get" /\ fAt' = [fAt EXCEPT ![c] = "write"]
        /\ fData' = [fData EXCEPT ![file] = Media!Empty] /\ fFile' = [fFile EXCEPT ![c] = file]
        /\ fPart' = [fPart EXCEPT ![name] = file]
        /\ UNCHANGED <<fRecord, fCall, fPos, fGot, fDest, fUploaded, fParts, fChatOf, fCrashes>>
    BY <1>2 DEF Media!Gets, Media!Goes, Media!OpensPart, Media!upload
  <2>2. FileTypes /\ RecordFits /\ CallFits(c) /\ NamesFit /\ DownloadsFit /\ PartsAreWritten
        /\ 0 \notin FileCalls /\ fCrashes \in Nat
    BY FilesParts, FileFacts
  <2>3. name \in Media!Names
    BY <2>1, <2>2 DEF CallFits, Media!Names, Media!Name
  <2>4. \A n \in Media!Names : fDest[n] # 0 => fDest[n] # c
    BY <2>1, <2>2 DEF NamesFit, Used
  <2>5. file \in FileCalls /\ Media!Name(file) = name /\ file # fDest[name]
        /\ \A n \in Media!Names : n # name => fPart[n] # file /\ fDest[n] # file
    <3>1. CASE fPart[name] = 0
      <4>1. file = c
        BY <3>1
      <4>2. \A n \in Media!Names : fDest[n] # c
        BY <2>2, <2>4
      <4>3. \A n \in Media!Names : fPart[n] # c
        BY <2>1, <2>2 DEF NamesFit, Used
      <4> QED BY <2>3, <4>1, <4>2, <4>3
    <3>2. CASE fPart[name] # 0
      <4>1. file = fPart[name] /\ file \in FileCalls
        BY <2>2, <2>3, <3>2 DEF FileTypes
      <4>2. Media!Name(file) = name /\ file # fDest[name]
        BY <2>2, <2>3, <3>2, <4>1 DEF NamesFit
      <4>3. \A n \in Media!Names : fPart[n] = file => n = name
        BY <2>2, <4>1, <4>2 DEF NamesFit
      <4>4. \A n \in Media!Names : fDest[n] = file => n = name
        BY <2>2, <4>1, <4>2 DEF NamesFit
      <4> QED BY <4>1, <4>2, <4>3, <4>4
    <3> QED BY <3>1, <3>2
  <2> HIDE DEF file
  <2>6. fAt'[c] = "write" /\ fFile'[c] = file /\ fPart'[name] = file
        /\ \A d \in FileCalls \ {c} : fAt'[d] = fAt[d] /\ fFile'[d] = fFile[d]
    BY <2>1, <2>2, <2>3 DEF FileTypes
  <2>7. \A n \in Media!Names : n # name => fPart'[n] = fPart[n]
    BY <2>1, <2>2 DEF FileTypes
  <2>8. \A d \in FileCalls \ {file} : fData'[d] = fData[d]
    BY <2>1, <2>2 DEF FileTypes
  <2>9. \A d : Media!Name(d)' = Media!Name(d)
    BY <2>1 DEF Media!Name
  <2>10. fShared \subseteq fShared'
         /\ \A d \in FileCalls : fAt[d] = "write" /\ Media!Name(d) = name => name \in fShared'
    BY <1>2
  <2>11. FileTypes'
    <3>1. fAt' \in [FileCalls -> FileStages]
      BY <2>1, <2>2 DEF FileTypes, FileStages
    <3>2. fFile' \in [FileCalls -> FileCalls \cup {0}]
      BY <2>1, <2>2, <2>5 DEF FileTypes
    <3>3. fPart' \in [Media!Names -> FileCalls \cup {0}]
      BY <2>1, <2>2, <2>5 DEF FileTypes
    <3>4. fData' \in [FileCalls -> [1 .. FileSize -> Block]]
      <4>1. Media!Empty \in [1 .. FileSize -> Block]
        BY DEF Media!Empty, Block
      <4> QED BY <2>1, <2>2, <2>5, <4>1 DEF FileTypes
    <3>5. FileTypes
      BY <2>2
    <3> QED BY <2>1, <3>1, <3>2, <3>3, <3>4, <3>5 DEF FileTypes
  <2>12. RecordFits'
    BY <2>1, <2>2 DEF RecordFits
  <2>13. CallFits(c)'
    <3>1. fGot'[c] = <<>> /\ fPos'[c] = 0 /\ fUploaded'[c] = <<>> /\ fCall' = fCall
          /\ fChatOf' = fChatOf /\ FileSize \in Nat
      BY <2>1, <2>2, FileFacts DEF CallFits
    <3>2. fCall[c].of \in Attachments /\ fChatOf[fCall[c].of] # "none"
          /\ (fCall[c].kind # "send" => fChatOf[fCall[c].of] = fCall[c].chat)
      BY <2>1, <2>2 DEF CallFits
    <3>3. fFile'[c] # 0
      BY <2>2, <2>5, <2>6
    <3> QED BY <2>6, <3>1, <3>2, <3>3 DEF CallFits
  <2>14. ASSUME NEW d \in FileCalls PROVE CallFits(d)'
    <3>1. CASE d = c
      BY <2>13, <3>1
    <3>2. CASE d # c
      BY <2>1, <2>6, <2>10, <3>2, FilesParts, CallStays
    <3> QED BY <3>1, <3>2
  <2> DEFINE UsedNow(d) == d \in FileCalls /\ fAt'[d] \notin {"idle", "get"}
  <2>15. \A d : Used(d) => UsedNow(d)
    BY <2>6 DEF Used
  <2>16. UsedNow(file)
    <3>1. CASE fPart[name] = 0
      BY <2>6, <3>1 DEF file
    <3>2. CASE fPart[name] # 0
      BY <2>2, <2>3, <2>15, <3>2 DEF NamesFit, file
    <3> QED BY <3>1, <3>2
  <2>17. NamesFit'
    <3> HIDE DEF UsedNow
    <3>1. ASSUME NEW n \in Media!Names
          PROVE  /\ fPart'[n] # 0 => UsedNow(fPart'[n]) /\ Media!Name(fPart'[n]) = n
                                     /\ fPart'[n] # fDest[n]
                 /\ fDest[n] # 0 => UsedNow(fDest[n]) /\ Media!Name(fDest[n]) = n
      <4>1. fDest[n] # 0 => UsedNow(fDest[n]) /\ Media!Name(fDest[n]) = n
        BY <2>2, <2>15 DEF NamesFit
      <4>2. CASE n = name
        BY <2>5, <2>6, <2>16, <4>1, <4>2
      <4>3. CASE n # name
        <5>1. fPart'[n] = fPart[n]
          BY <2>7, <4>3
        <5>2. fPart[n] # 0 => UsedNow(fPart[n]) /\ Media!Name(fPart[n]) = n /\ fPart[n] # fDest[n]
          BY <2>2, <2>15 DEF NamesFit
        <5> QED BY <4>1, <5>1, <5>2
      <4> QED BY <4>2, <4>3
    <3>2. ASSUME NEW d \in FileCalls, fFile'[d] # 0
          PROVE  UsedNow(fFile'[d]) /\ Media!Name(fFile'[d]) = Media!Name(d)
      <4>1. CASE d = c
        BY <2>5, <2>6, <2>16, <4>1
      <4>2. CASE d # c
        <5>1. fFile'[d] = fFile[d]
          BY <2>6, <4>2
        <5> QED BY <2>2, <2>15, <3>2, <5>1 DEF NamesFit
      <4> QED BY <4>1, <4>2
    <3>3. fDest' = fDest
      BY <2>1
    <3> QED BY <2>9, <3>1, <3>2, <3>3 DEF NamesFit, Used, UsedNow
  <2>18. DownloadsFit'
    <3>1. ASSUME NEW n \in Media!Names, fDest[n] # 0, n \notin fShared'
          PROVE  WholeUnder(fData'[fDest[n]], n)
      <4>1. fDest[n] \in FileCalls /\ fDest[n] # file /\ n \notin fShared
        BY <2>2, <2>5, <2>10, <3>1 DEF FileTypes
      <4>2. fData'[fDest[n]] = fData[fDest[n]]
        BY <2>8, <4>1
      <4> QED BY <2>2, <3>1, <4>1, <4>2 DEF DownloadsFit
    <3>2. ASSUME NEW d \in FileCalls, fAt'[d] = "write", Media!Name(d) \notin fShared'
          PROVE  /\ fPart'[Media!Name(d)] = fFile'[d]
                 /\ \A b \in 1 .. FileSize :
                      b <= fPos[d] => fData'[fFile'[d]][b] = <<fCall[d].of, b>>
      <4>1. CASE d = c
        <5>1. fPos[c] = 0
          BY <2>1, <2>2 DEF CallFits
        <5> QED BY <2>6, <4>1, <5>1
      <4>2. CASE d # c
        <5>1. fAt[d] = "write" /\ fFile'[d] = fFile[d] /\ Media!Name(d) # name
              /\ Media!Name(d) \notin fShared
          BY <2>6, <2>10, <3>2, <4>2
        <5>2. Written(d) /\ CallFits(d)
          BY <2>2, FilesParts DEF DownloadsFit
        <5>3. Media!Name(d) \in Media!Names
          BY <5>1, <5>2 DEF CallFits, Media!Names, Media!Name
        <5>4. fFile[d] # 0 /\ fFile[d] \in FileCalls
          BY <2>2, <5>1, <5>2 DEF CallFits, FileTypes
        <5>5. Media!Name(fFile[d]) = Media!Name(d)
          BY <2>2, <5>4 DEF NamesFit
        <5>6. fFile[d] # file
          BY <2>5, <5>1, <5>5
        <5>7. fData'[fFile[d]] = fData[fFile[d]] /\ fPart'[Media!Name(d)] = fPart[Media!Name(d)]
          BY <2>7, <2>8, <5>1, <5>3, <5>4, <5>6
        <5> QED BY <5>1, <5>2, <5>7 DEF Written
      <4> QED BY <4>1, <4>2
    <3>3. ASSUME NEW d \in FileCalls, NEW e \in FileCalls, fAt'[d] = "write", fAt'[e] = "write",
                 d # e, Media!Name(d) = Media!Name(e)
          PROVE  Media!Name(d) \in fShared'
      <4>1. CASE d # c /\ e # c
        BY <2>2, <2>6, <2>10, <3>3, <4>1 DEF DownloadsFit
      <4>2. CASE d = c
        <5>1. fAt[e] = "write" /\ Media!Name(e) = name
          BY <2>6, <3>3, <4>2
        <5> QED BY <2>10, <5>1, <4>2
      <4>3. CASE e = c
        <5>1. fAt[d] = "write" /\ Media!Name(d) = name
          BY <2>6, <3>3, <4>3
        <5> QED BY <2>10, <5>1
      <4> QED BY <4>1, <4>2, <4>3
    <3>4. \A d \in FileCalls : Written(d)'
      BY <2>1, <2>9, <3>2 DEF Written
    <3>5. fDest' = fDest
      BY <2>1
    <3>6. \A n \in Media!Names :
            fDest'[n] # 0 /\ n \notin fShared' => WholeUnder(fData'[fDest'[n]], n)
      BY <3>1, <3>5
    <3> QED BY <2>9, <3>3, <3>4, <3>6 DEF DownloadsFit
  <2>19. PartsAreWritten'
    <3>1. ASSUME fCrashes = 0, NEW n \in Media!Names, fPart'[n] # 0
          PROVE  \E d \in FileCalls : fAt'[d] = "write" /\ Media!Name(d) = n
      <4>1. CASE n = name
        BY <2>6, <4>1
      <4>2. CASE n # name
        <5>1. PICK d \in FileCalls : fAt[d] = "write" /\ Media!Name(d) = n
          BY <2>2, <2>7, <3>1, <4>2 DEF PartsAreWritten
        <5>2. fAt'[d] = "write"
          BY <2>1, <2>6, <5>1
        <5> QED BY <5>1, <5>2
      <4> QED BY <4>1, <4>2
    <3> QED BY <2>1, <2>9, <3>1 DEF PartsAreWritten
  <2> QED BY <2>1, <2>2, <2>11, <2>12, <2>14, <2>17, <2>18, <2>19 DEF FilesInv
<1> QED
  BY <1>1, <1>2 DEF Media!Gets

\* A block that is written goes to the part that is this download's, if no other writes to its
\* name.
LEMMA WritesKeepsFiles ==
  ASSUME FilesInv, NEW c \in FileCalls, Media!Writes(c) PROVE FilesInv'
<1> DEFINE file == fFile[c]
           place == fPos[c] + 1
           name == Media!Name(c)
           block == <<fCall[c].of, place>>
<1>1. FileTypes /\ RecordFits /\ CallFits(c) /\ NamesFit /\ DownloadsFit /\ PartsAreWritten
      /\ fCrashes \in Nat /\ FileSize \in Nat /\ 0 \notin FileCalls
  BY FilesParts, FileFacts
<1>2. /\ fAt[c] = "write" /\ fPos[c] < FileSize
      /\ fPos' = [fPos EXCEPT ![c] = @ + 1]
      /\ fData' = [fData EXCEPT ![fFile[c]][fPos'[c]] = <<fCall[c].of, fPos'[c]>>]
      /\ UNCHANGED <<fRecord, fCall, fAt, fFile, fGot, fPart, fDest, fUploaded, fParts, fChatOf,
                     fShared, fCrashes>>
  BY DEF Media!Writes, Media!upload, Media!history
<1>3. file \in FileCalls /\ Media!Name(file) = name /\ place \in 1 .. FileSize
      /\ fPos[c] \in Nat /\ name \in Media!Names /\ block \in Block
  <2>1. file \in FileCalls /\ fPos[c] \in Nat
    BY <1>1, <1>2 DEF CallFits, FileTypes
  <2>2. Media!Name(file) = name
    BY <1>1, <1>2, <2>1 DEF NamesFit
  <2>3. fCall[c].of \in Attachments
    BY <1>1, <1>2 DEF CallFits
  <2>4. name \in Media!Names
    BY <2>3 DEF Media!Names, Media!Name
  <2>5. place \in 1 .. FileSize
    BY <1>1, <1>2, <2>1
  <2>6. block \in Block
    BY <2>3, <2>5 DEF Block
  <2> QED BY <2>1, <2>2, <2>4, <2>5, <2>6
<1>4. fPos'[c] = place /\ \A d \in FileCalls \ {c} : fPos'[d] = fPos[d]
  BY <1>1, <1>2 DEF FileTypes
<1>5. fData' = [fData EXCEPT ![file][place] = block]
  BY <1>2, <1>4
<1> HIDE DEF file, block
<1>6. /\ \A d \in FileCalls \ {file} : fData'[d] = fData[d]
      /\ fData'[file] = [fData[file] EXCEPT ![place] = block]
  BY <1>1, <1>3, <1>5 DEF FileTypes
<1>7. FileTypes'
  <2>1. fPos' \in [FileCalls -> Nat]
    BY <1>1, <1>2 DEF FileTypes
  <2>2. fData' \in [FileCalls -> [1 .. FileSize -> Block]]
    <3> HIDE DEF place
    <3>1. fData \in [FileCalls -> [1 .. FileSize -> Block]]
      BY <1>1 DEF FileTypes
    <3> QED BY <1>3, <1>5, <3>1
  <2> QED BY <1>1, <1>2, <2>1, <2>2 DEF FileTypes
<1>8. RecordFits'
  BY <1>1, <1>2 DEF RecordFits
<1>9. \A d : Media!Name(d)' = Media!Name(d)
  BY <1>2 DEF Media!Name
<1>10. CallFits(c)'
  <2>1. fCall' = fCall /\ fChatOf' = fChatOf /\ fGot' = fGot /\ fFile' = fFile
        /\ fUploaded' = fUploaded /\ fAt'[c] = "write"
    BY <1>2
  <2>2. fPos'[c] <= FileSize
    BY <1>3, <1>4
  <2> QED BY <1>1, <1>2, <2>1, <2>2 DEF CallFits
<1>11. ASSUME NEW d \in FileCalls PROVE CallFits(d)'
  <2>1. CASE d = c
    BY <1>10, <2>1
  <2>2. CASE d # c
    BY <1>2, <1>4, <2>2, FilesParts, CallStays
  <2> QED BY <2>1, <2>2
<1>12. NamesFit'
  BY <1>1, <1>2, <1>9 DEF NamesFit, Used
<1>13. DownloadsFit'
  <2>1. ASSUME NEW n \in Media!Names, fDest[n] # 0, n \notin fShared
        PROVE  WholeUnder(fData'[fDest[n]], n)
    <3>1. fDest[n] \in FileCalls /\ Media!Name(fDest[n]) = n
      BY <1>1, <2>1 DEF FileTypes, NamesFit
    <3>2. fDest[n] # file
      <4>1. ASSUME fDest[n] = file PROVE FALSE
        <5>1. n = name
          BY <1>3, <3>1, <4>1
        <5>2. fPart[n] = file
          BY <1>1, <1>2, <2>1, <5>1 DEF DownloadsFit, Written, file
        <5>3. fPart[n] # 0
          BY <1>1, <1>3, <5>2
        <5> QED BY <1>1, <2>1, <4>1, <5>2, <5>3 DEF NamesFit
      <4> QED BY <4>1
    <3>3. fData'[fDest[n]] = fData[fDest[n]]
      BY <1>6, <3>1, <3>2
    <3> QED BY <1>1, <2>1, <3>3 DEF DownloadsFit
  <2>2. ASSUME NEW d \in FileCalls, fAt[d] = "write", Media!Name(d) \notin fShared
        PROVE  /\ fPart[Media!Name(d)] = fFile[d]
               /\ \A b \in 1 .. FileSize :
                    b <= fPos'[d] => fData'[fFile[d]][b] = <<fCall[d].of, b>>
    <3>1. /\ fPart[Media!Name(d)] = fFile[d]
          /\ \A b \in 1 .. FileSize :
               b <= fPos[d] => fData[fFile[d]][b] = <<fCall[d].of, b>>
      BY <1>1, <2>2 DEF DownloadsFit, Written
    <3>2. CASE d = c
      <4>1. ASSUME NEW b \in 1 .. FileSize, b <= place
            PROVE  fData'[file][b] = <<fCall[c].of, b>>
        <5>1. CASE b = place
          <6>1. fData[file] \in [1 .. FileSize -> Block]
            BY <1>1, <1>3 DEF FileTypes
          <6>2. fData'[file][place] = block
            <7> HIDE DEF place
            <7> QED BY <1>3, <1>6, <6>1
          <6> QED BY <5>1, <6>2 DEF block
        <5>2. CASE b # place
          <6>1. b <= fPos[c]
            BY <1>3, <4>1, <5>2
          <6>2. fData[file][b] = <<fCall[c].of, b>>
            BY <3>1, <3>2, <6>1 DEF file
          <6>3. fData[file] \in [1 .. FileSize -> Block]
            BY <1>1, <1>3 DEF FileTypes
          <6>4. fData'[file][b] = fData[file][b]
            <7> HIDE DEF place
            <7> QED BY <1>6, <5>2, <6>3
          <6> QED BY <6>2, <6>4
        <5> QED BY <5>1, <5>2
      <4> HIDE DEF place
      <4> QED BY <1>4, <3>1, <3>2, <4>1 DEF file
    <3>3. CASE d # c
      <4>1. fFile[d] \in FileCalls /\ Media!Name(fFile[d]) = Media!Name(d)
        <5>1. fFile[d] # 0
          BY <2>2, FilesParts DEF CallFits
        <5> QED BY <1>1, <5>1 DEF NamesFit, FileTypes
      <4>2. fFile[d] # file
        <5>1. ASSUME fFile[d] = file PROVE FALSE
          <6>1. Media!Name(d) = name
            BY <1>3, <4>1, <5>1
          <6> QED BY <1>1, <1>2, <2>2, <3>3, <6>1 DEF DownloadsFit
        <5> QED BY <5>1
      <4>3. fData'[fFile[d]] = fData[fFile[d]] /\ fPos'[d] = fPos[d]
        BY <1>4, <1>6, <3>3, <4>1, <4>2
      <4> QED BY <3>1, <4>3
    <3> QED BY <3>2, <3>3
  <2>3. \A d \in FileCalls : Written(d)'
    BY <1>2, <1>9, <2>2 DEF Written
  <2>4. \A n \in Media!Names :
          fDest'[n] # 0 /\ n \notin fShared' => WholeUnder(fData'[fDest'[n]], n)
    BY <1>2, <2>1
  <2>5. \A d, e \in FileCalls :
          fAt'[d] = "write" /\ fAt'[e] = "write" /\ d # e /\ Media!Name(d) = Media!Name(e)
          => Media!Name(d) \in fShared'
    BY <1>1, <1>2 DEF DownloadsFit
  <2> QED BY <1>9, <2>3, <2>4, <2>5 DEF DownloadsFit
<1>14. PartsAreWritten'
  BY <1>1, <1>2, <1>9 DEF PartsAreWritten
<1> QED BY <1>1, <1>2, <1>7, <1>8, <1>11, <1>12, <1>13, <1>14 DEF FilesInv

\* A download that is over leaves no part.
LEMMA DownloadEnds ==
  ASSUME FilesInv, NEW c \in FileCalls, fAt[c] = "write",
         fAt' = [fAt EXCEPT ![c] = "over"],
         fPart' = [fPart EXCEPT ![Media!Name(c)] = 0],
         UNCHANGED <<fRecord, fCall, fPos, fFile, fGot, fData, fDest, fUploaded, fParts,
                     fChatOf, fShared, fCrashes>>
  PROVE  FilesInv'
<1> DEFINE name == Media!Name(c)
<1>1. FileTypes /\ RecordFits /\ CallFits(c) /\ NamesFit /\ DownloadsFit /\ PartsAreWritten
      /\ fCrashes \in Nat
  BY FilesParts
<1>2. fAt'[c] = "over" /\ \A d \in FileCalls \ {c} : fAt'[d] = fAt[d]
  BY <1>1 DEF FileTypes
<1>3. \A n \in Media!Names : fPart'[n] = IF n = name THEN 0 ELSE fPart[n]
  BY <1>1 DEF FileTypes
<1>4. \A d : Media!Name(d)' = Media!Name(d)
  BY DEF Media!Name
<1>5. FileTypes'
  <2>1. fAt' \in [FileCalls -> FileStages]
    BY <1>1 DEF FileTypes, FileStages
  <2>2. fPart' \in [Media!Names -> FileCalls \cup {0}]
    BY <1>1 DEF FileTypes
  <2> QED BY <1>1, <2>1, <2>2 DEF FileTypes
<1>6. RecordFits'
  BY <1>1 DEF RecordFits
<1>7. CallFits(c)'
  <2>1. WholeUnder(fGot[c], Media!Name(c))' = WholeUnder(fGot[c], Media!Name(c))
    BY <1>4 DEF WholeUnder
  <2> QED BY <1>1, <1>2, <1>4, <2>1 DEF CallFits
<1>8. ASSUME NEW d \in FileCalls PROVE CallFits(d)'
  <2>1. CASE d = c
    BY <1>7, <2>1
  <2>2. CASE d # c
    BY <1>2, <2>2, FilesParts, CallStays
  <2> QED BY <2>1, <2>2
<1> HIDE DEF name
<1>9. NamesFit'
  <2>1. \A d : Used(d) => d \in FileCalls /\ fAt'[d] \notin {"idle", "get"}
    BY <1>2 DEF Used
  <2>2. ASSUME NEW n \in Media!Names, fPart'[n] # 0
        PROVE  fPart'[n] = fPart[n] /\ fPart[n] # 0
    BY <1>3, <2>2
  <2>3. \A n \in Media!Names : fPart'[n] # 0 =>
          /\ fPart'[n] \in FileCalls /\ fAt'[fPart'[n]] \notin {"idle", "get"}
          /\ Media!Name(fPart'[n]) = n /\ fPart'[n] # fDest[n]
    BY <1>1, <2>1, <2>2 DEF NamesFit
  <2>4. \A n \in Media!Names : fDest[n] # 0 =>
          /\ fDest[n] \in FileCalls /\ fAt'[fDest[n]] \notin {"idle", "get"}
          /\ Media!Name(fDest[n]) = n
    BY <1>1, <2>1 DEF NamesFit
  <2>5. \A d \in FileCalls : fFile[d] # 0 =>
          /\ fFile[d] \in FileCalls /\ fAt'[fFile[d]] \notin {"idle", "get"}
          /\ Media!Name(fFile[d]) = Media!Name(d)
    BY <1>1, <2>1 DEF NamesFit
  <2> QED BY <1>4, <2>3, <2>4, <2>5 DEF NamesFit, Used
<1>10. DownloadsFit'
  <2>1. ASSUME NEW d \in FileCalls, fAt'[d] = "write", Media!Name(d) \notin fShared
        PROVE  /\ fPart'[Media!Name(d)] = fFile[d]
               /\ \A b \in 1 .. FileSize :
                    b <= fPos[d] => fData[fFile[d]][b] = <<fCall[d].of, b>>
    <3>1. fAt[d] = "write" /\ d # c
      BY <1>2, <2>1
    <3>2. Media!Name(d) # name
      BY <1>1, <2>1, <3>1 DEF DownloadsFit, name
    <3>3. Media!Name(d) \in Media!Names
      <4>1. fCall[d].of \in Attachments
        BY <3>1, FilesParts DEF CallFits
      <4> QED BY <4>1 DEF Media!Names, Media!Name
    <3>4. Written(d)
      BY <1>1 DEF DownloadsFit
    <3> QED BY <1>3, <2>1, <3>1, <3>2, <3>3, <3>4 DEF Written
  <2>2. \A d \in FileCalls : Written(d)'
    BY <1>4, <2>1 DEF Written
  <2>3. \A n \in Media!Names :
          fDest'[n] # 0 /\ n \notin fShared' => WholeUnder(fData'[fDest'[n]], n)
    BY <1>1 DEF DownloadsFit
  <2>4. \A d, e \in FileCalls :
          fAt'[d] = "write" /\ fAt'[e] = "write" /\ d # e /\ Media!Name(d) = Media!Name(e)
          => Media!Name(d) \in fShared'
    BY <1>1, <1>2 DEF DownloadsFit
  <2> QED BY <1>4, <2>2, <2>3, <2>4 DEF DownloadsFit
<1>11. PartsAreWritten'
  <2>1. ASSUME fCrashes = 0, NEW n \in Media!Names, fPart'[n] # 0
        PROVE  \E d \in FileCalls : fAt'[d] = "write" /\ Media!Name(d) = n
    <3>1. n # name /\ fPart[n] # 0
      BY <1>3, <2>1
    <3>2. PICK d \in FileCalls : fAt[d] = "write" /\ Media!Name(d) = n
      BY <1>1, <2>1, <3>1 DEF PartsAreWritten
    <3>3. d # c
      BY <3>1, <3>2 DEF name
    <3> QED BY <1>2, <3>2, <3>3
  <2> QED BY <1>4, <2>1 DEF PartsAreWritten
<1> QED BY <1>1, <1>5, <1>6, <1>8, <1>9, <1>10, <1>11 DEF FilesInv

\* One that breaks off does so,
LEMMA BreaksOffKeepsFiles ==
  ASSUME FilesInv, NEW c \in FileCalls, Media!BreaksOff(c) PROVE FilesInv'
<1>1. fAt[c] = "write" /\ fAt' = [fAt EXCEPT ![c] = "over"]
      /\ fPart' = [fPart EXCEPT ![Media!Name(c)] = 0]
  BY DEF Media!BreaksOff, Media!Ends, Media!Goes
<1>2. UNCHANGED <<fRecord, fCall, fPos, fFile, fGot, fData, fDest, fUploaded, fParts,
                  fChatOf, fShared, fCrashes>>
  BY DEF Media!BreaksOff, Media!upload, Media!history
<1> QED BY <1>1, <1>2, DownloadEnds

\* and one that is done puts its part under the name, whole if no other wrote to it.
LEMMA ReplacesKeepsFiles ==
  ASSUME FilesInv, NEW c \in FileCalls, Media!Replaces(c) PROVE FilesInv'
<1> DEFINE name == Media!Name(c)
           file == fPart[Media!Name(c)]
<1>1. FileTypes /\ RecordFits /\ CallFits(c) /\ NamesFit /\ DownloadsFit /\ PartsAreWritten
      /\ fCrashes \in Nat /\ FileSize \in Nat /\ 0 \notin FileCalls
  BY FilesParts, FileFacts
<1>2. /\ fAt[c] = "write" /\ fPos[c] = FileSize
      /\ UNCHANGED <<fRecord, fCall, fPos, fFile, fGot, fData, fUploaded, fParts, fChatOf,
                     fShared, fCrashes>>
  BY DEF Media!Replaces, Media!upload, Media!history
<1>3. name \in Media!Names /\ fCall[c].of \in Attachments
  <2>1. fCall[c].of \in Attachments
    BY <1>1, <1>2 DEF CallFits
  <2> QED BY <2>1 DEF Media!Names, Media!Name
<1>4. \A d : Media!Name(d)' = Media!Name(d)
  BY <1>2 DEF Media!Name
<1>5. CASE file = 0
  <2>1. fAt' = [fAt EXCEPT ![c] = "over"] /\ UNCHANGED <<fDest, fPart>>
    BY <1>5 DEF Media!Replaces, Media!Ends, Media!Goes
  <2>2. fPart = [fPart EXCEPT ![name] = 0]
    <3> HIDE DEF name
    <3>1. fPart[name] = 0
      BY <1>5 DEF name
    <3> QED BY <1>1, <3>1 DEF FileTypes
  <2>3. fPart' = [fPart EXCEPT ![Media!Name(c)] = 0]
    BY <2>1, <2>2
  <2> QED BY <1>2, <2>1, <2>3, DownloadEnds
<1>6. CASE file # 0
  <2>1. /\ fAt' = [fAt EXCEPT ![c] = "read"]
        /\ fDest' = [fDest EXCEPT ![name] = file]
        /\ fPart' = [fPart EXCEPT ![name] = 0]
    BY <1>6 DEF Media!Replaces, Media!Goes
  <2>2. file \in FileCalls
    BY <1>1, <1>3, <1>6 DEF FileTypes
  <2>3. Used(file) /\ Media!Name(file) = name
    BY <1>1, <1>3, <1>6 DEF NamesFit
  <2> HIDE DEF file, name
  <2>4. fAt'[c] = "read" /\ \A d \in FileCalls \ {c} : fAt'[d] = fAt[d]
    BY <1>1, <2>1 DEF FileTypes
  <2>5. \A n \in Media!Names : /\ fPart'[n] = IF n = name THEN 0 ELSE fPart[n]
                               /\ fDest'[n] = IF n = name THEN file ELSE fDest[n]
    BY <1>1, <2>1 DEF FileTypes
  <2>6. FileTypes'
    <3>1. fAt' \in [FileCalls -> FileStages]
      BY <1>1, <2>1 DEF FileTypes, FileStages
    <3>2. fPart' \in [Media!Names -> FileCalls \cup {0}]
      BY <1>1, <2>1 DEF FileTypes
    <3>3. fDest' \in [Media!Names -> FileCalls \cup {0}]
      BY <1>1, <2>1, <2>2 DEF FileTypes
    <3> QED BY <1>1, <1>2, <3>1, <3>2, <3>3 DEF FileTypes
  <2>7. RecordFits'
    BY <1>1, <1>2 DEF RecordFits
  <2>8. CallFits(c)'
    <3>1. fCall' = fCall /\ fChatOf' = fChatOf /\ fGot'[c] = <<>> /\ fUploaded'[c] = <<>>
      BY <1>1, <1>2 DEF CallFits
    <3>2. fDest'[Media!Name(c)] # 0
      BY <1>1, <1>3, <2>2, <2>5 DEF name
    <3>3. fCall[c].of \in Attachments /\ fChatOf[fCall[c].of] # "none"
          /\ (fCall[c].kind # "send" => fChatOf[fCall[c].of] = fCall[c].chat)
      BY <1>1, <1>2 DEF CallFits
    <3> QED BY <1>4, <2>4, <3>1, <3>2, <3>3 DEF CallFits
  <2>9. ASSUME NEW d \in FileCalls PROVE CallFits(d)'
    <3>1. CASE d = c
      BY <2>8, <3>1
    <3>2. CASE d # c
      <4>1. ASSUME fAt[d] = "read", fDest[Media!Name(d)] # 0 PROVE fDest'[Media!Name(d)] # 0
        <5>1. fCall[d].of \in Attachments
          BY <4>1, FilesParts DEF CallFits
        <5>2. Media!Name(d) \in Media!Names
          BY <5>1 DEF Media!Names, Media!Name
        <5> QED BY <1>1, <2>2, <2>5, <4>1, <5>2
      <4> QED BY <1>2, <2>4, <3>2, <4>1, FilesParts, CallStays
    <3> QED BY <3>1, <3>2
  <2>10. NamesFit'
    <3>1. \A d : Used(d) => d \in FileCalls /\ fAt'[d] \notin {"idle", "get"}
      BY <2>4 DEF Used
    <3>2. ASSUME NEW n \in Media!Names, fPart'[n] # 0
          PROVE  /\ fPart'[n] \in FileCalls /\ fAt'[fPart'[n]] \notin {"idle", "get"}
                 /\ Media!Name(fPart'[n]) = n /\ fPart'[n] # fDest'[n]
      <4>1. n # name /\ fPart'[n] = fPart[n] /\ fDest'[n] = fDest[n]
        BY <2>5, <3>2
      <4> QED BY <1>1, <3>1, <3>2, <4>1 DEF NamesFit
    <3>3. ASSUME NEW n \in Media!Names, fDest'[n] # 0
          PROVE  /\ fDest'[n] \in FileCalls /\ fAt'[fDest'[n]] \notin {"idle", "get"}
                 /\ Media!Name(fDest'[n]) = n
      <4>1. CASE n = name
        BY <2>3, <2>5, <3>1, <4>1
      <4>2. CASE n # name
        <5>1. fDest'[n] = fDest[n]
          BY <2>5, <4>2
        <5> QED BY <1>1, <3>1, <3>3, <5>1 DEF NamesFit
      <4> QED BY <4>1, <4>2
    <3>4. \A d \in FileCalls : fFile[d] # 0 =>
            /\ fFile[d] \in FileCalls /\ fAt'[fFile[d]] \notin {"idle", "get"}
            /\ Media!Name(fFile[d]) = Media!Name(d)
      BY <1>1, <3>1 DEF NamesFit
    <3> QED BY <1>2, <1>4, <3>2, <3>3, <3>4 DEF NamesFit, Used
  <2>11. DownloadsFit'
    <3>1. ASSUME NEW n \in Media!Names, fDest'[n] # 0, n \notin fShared
          PROVE  WholeUnder(fData[fDest'[n]], n)
      <4>1. CASE n = name
        <5>1. file = fFile[c]
              /\ \A b \in 1 .. FileSize : b <= fPos[c] => fData[fFile[c]][b] = <<fCall[c].of, b>>
          BY <1>1, <1>2, <3>1, <4>1 DEF DownloadsFit, Written, file, name
        <5>2. \A b \in 1 .. FileSize : fData[file][b] = <<fCall[c].of, b>>
          BY <1>1, <1>2, <5>1
        <5>3. fData[file] \in [1 .. FileSize -> Block]
          BY <1>1, <2>2 DEF FileTypes
        <5>4. fData[file] = Media!Whole(fCall[c].of)
          BY <5>2, <5>3 DEF Media!Whole
        <5>5. FileName(fCall[c].of) = n
          BY <4>1 DEF name, Media!Name
        <5> QED BY <1>3, <2>5, <4>1, <5>4, <5>5 DEF WholeUnder
      <4>2. CASE n # name
        <5>1. fDest'[n] = fDest[n]
          BY <2>5, <4>2
        <5> QED BY <1>1, <3>1, <5>1 DEF DownloadsFit
      <4> QED BY <4>1, <4>2
    <3>2. ASSUME NEW d \in FileCalls, fAt'[d] = "write", Media!Name(d) \notin fShared
          PROVE  /\ fPart'[Media!Name(d)] = fFile[d]
                 /\ \A b \in 1 .. FileSize :
                      b <= fPos[d] => fData[fFile[d]][b] = <<fCall[d].of, b>>
      <4>1. fAt[d] = "write" /\ d # c
        BY <2>4, <3>2
      <4>2. Media!Name(d) # name
        BY <1>1, <1>2, <3>2, <4>1 DEF DownloadsFit, name
      <4>3. Media!Name(d) \in Media!Names
        <5>1. fCall[d].of \in Attachments
          BY <4>1, FilesParts DEF CallFits
        <5> QED BY <5>1 DEF Media!Names, Media!Name
      <4>4. Written(d)
        BY <1>1 DEF DownloadsFit
      <4> QED BY <2>5, <3>2, <4>1, <4>2, <4>3, <4>4 DEF Written
    <3>3. \A d \in FileCalls : Written(d)'
      BY <1>2, <1>4, <3>2 DEF Written
    <3>4. \A n \in Media!Names :
            fDest'[n] # 0 /\ n \notin fShared' => WholeUnder(fData'[fDest'[n]], n)
      BY <1>2, <3>1
    <3>5. \A d, e \in FileCalls :
            fAt'[d] = "write" /\ fAt'[e] = "write" /\ d # e /\ Media!Name(d) = Media!Name(e)
            => Media!Name(d) \in fShared'
      BY <1>1, <1>2, <2>4 DEF DownloadsFit
    <3> QED BY <1>4, <3>3, <3>4, <3>5 DEF DownloadsFit
  <2>12. PartsAreWritten'
    <3>1. ASSUME fCrashes = 0, NEW n \in Media!Names, fPart'[n] # 0
          PROVE  \E d \in FileCalls : fAt'[d] = "write" /\ Media!Name(d) = n
      <4>1. n # name /\ fPart[n] # 0
        BY <2>5, <3>1
      <4>2. PICK d \in FileCalls : fAt[d] = "write" /\ Media!Name(d) = n
        BY <1>1, <3>1, <4>1 DEF PartsAreWritten
      <4>3. d # c
        BY <4>1, <4>2 DEF name
      <4> QED BY <2>4, <4>2, <4>3
    <3> QED BY <1>2, <1>4, <3>1 DEF PartsAreWritten
  <2> QED BY <1>1, <1>2, <2>6, <2>7, <2>9, <2>10, <2>11, <2>12 DEF FilesInv
<1> QED BY <1>5, <1>6

\* A file that is read is what its name leads to.
LEMMA ReadUnder ==
  ASSUME FilesInv, NEW n \in Media!Names, fDest[n] # 0
  PROVE  /\ fData[fDest[n]] \in Seq(Block) /\ Len(fData[fDest[n]]) = FileSize
         /\ n \in fShared \/ WholeUnder(fData[fDest[n]], n)
<1>1. fDest[n] \in FileCalls /\ fData[fDest[n]] \in [1 .. FileSize -> Block] /\ FileSize \in Nat
  BY FilesParts, FileFacts DEF FileTypes
<1> DEFINE blocks == fData[fDest[n]]
<1>2. blocks \in Seq(Block) /\ Len(blocks) = FileSize
  <2>1. blocks \in [1 .. FileSize -> Block]
    BY <1>1
  <2> HIDE DEF blocks
  <2> QED BY <1>1, <2>1
<1>3. n \in fShared \/ WholeUnder(fData[fDest[n]], n)
  BY FilesParts DEF DownloadsFit
<1> QED BY <1>2, <1>3

\* A download is read by who asked for it.
LEMMA ReadsKeepsFiles ==
  ASSUME FilesInv, NEW c \in FileCalls, Media!Reads(c) PROVE FilesInv'
<1> DEFINE blocks == fData[fDest[Media!Name(c)]]
<1>1. /\ fAt[c] = "read" /\ fDest[Media!Name(c)] # 0
      /\ fGot' = [fGot EXCEPT ![c] = blocks] /\ fAt' = [fAt EXCEPT ![c] = "over"]
      /\ UNCHANGED <<fRecord, fCall, fPos, fFile, fData, fPart, fDest, fUploaded, fParts,
                     fChatOf, fShared, fCrashes>>
  BY DEF Media!Reads, Media!Ends, Media!Goes, Media!files, Media!upload, Media!history
<1>2. FileTypes /\ RecordFits /\ CallFits(c)
  BY FilesParts
<1>3. Media!Name(c) \in Media!Names
  <2>1. fCall[c].of \in Attachments
    BY <1>1, <1>2 DEF CallFits
  <2> QED BY <2>1 DEF Media!Names, Media!Name
<1>4. /\ blocks \in Seq(Block)
      /\ Media!Name(c) \in fShared \/ WholeUnder(blocks, Media!Name(c))
  BY <1>1, <1>3, ReadUnder
<1> HIDE DEF blocks
<1>5. /\ fAt'[c] = "over" /\ fGot'[c] = blocks
      /\ \A d \in FileCalls \ {c} : fAt'[d] = fAt[d] /\ fGot'[d] = fGot[d]
  BY <1>1, <1>2 DEF FileTypes
<1>6. FileTypes'
  <2>1. fAt' \in [FileCalls -> FileStages]
    BY <1>1, <1>2 DEF FileTypes, FileStages
  <2>2. fGot' \in [FileCalls -> Seq(Block)]
    BY <1>1, <1>2, <1>4 DEF FileTypes
  <2> QED BY <1>1, <1>2, <2>1, <2>2 DEF FileTypes
<1>7. RecordFits'
  BY <1>1, <1>2 DEF RecordFits
<1>8. CallFits(c)'
  <2>1. Media!Name(c)' = Media!Name(c) /\ fShared' = fShared
    BY <1>1 DEF Media!Name
  <2>2. WholeUnder(fGot[c], Media!Name(c))' = WholeUnder(blocks, Media!Name(c))
    BY <1>5, <2>1 DEF WholeUnder
  <2>3. fCall' = fCall /\ fChatOf' = fChatOf
    BY <1>1
  <2>4. /\ fCall[c].of \in Attachments /\ fChatOf[fCall[c].of] # "none"
        /\ fCall[c].kind # "send" => fChatOf[fCall[c].of] = fCall[c].chat
    BY <1>1, <1>2 DEF CallFits
  <2> QED BY <1>4, <1>5, <2>1, <2>2, <2>3, <2>4 DEF CallFits
<1>9. ASSUME NEW d \in FileCalls PROVE CallFits(d)'
  <2>1. CASE d = c
    BY <1>8, <2>1
  <2>2. CASE d # c
    BY <1>1, <1>5, <2>2, FilesParts, CallStays
  <2> QED BY <2>1, <2>2
<1>10. NamesFit' /\ DownloadsFit' /\ PartsAreWritten' /\ fCrashes' \in Nat
  BY <1>1, <1>5, FilesRest
<1> QED BY <1>6, <1>7, <1>9, <1>10 DEF FilesInv

\* What is sent is a file that is there, read before the first part of it goes out.
LEMMA SendsKeepsFiles ==
  ASSUME FilesInv, NEW c \in FileCalls, NEW m \in Attachments, NEW s \in Chats,
         Media!Sends(c, m, s)
  PROVE  FilesInv'
<1> DEFINE sending == [kind |-> "send", of |-> m, chat |-> s]
           blocks == fData[fDest[FileName(m)]]
<1>1. /\ fAt[c] = "idle" /\ fChatOf[m] # "none" /\ fDest[FileName(m)] # 0
      /\ fCall' = [fCall EXCEPT ![c] = sending] /\ fGot' = [fGot EXCEPT ![c] = blocks]
      /\ fAt' = [fAt EXCEPT ![c] = "prepare"]
      /\ UNCHANGED <<fRecord, fPos, fFile, fData, fPart, fDest, fUploaded, fParts, fChatOf,
                     fShared, fCrashes>>
  BY DEF Media!Sends, Media!Goes, Media!files, Media!upload, Media!history
<1>2. FileTypes /\ RecordFits /\ CallFits(c)
  BY FilesParts
<1>3. FileName(m) \in Media!Names
  BY DEF Media!Names
<1>4. /\ blocks \in Seq(Block) /\ Len(blocks) = FileSize
      /\ FileName(m) \in fShared \/ WholeUnder(blocks, FileName(m))
  BY <1>1, <1>3, ReadUnder
<1>5. sending \in [kind : {"none", "prompt", "view", "fetch", "send"},
                   of : Attachments \cup {0}, chat : Chats \cup {"none"}]
      /\ sending.of = m /\ sending.kind = "send"
  OBVIOUS
<1> HIDE DEF blocks, sending
<1>6. /\ fAt'[c] = "prepare" /\ fGot'[c] = blocks /\ fCall'[c] = sending
      /\ \A d \in FileCalls \ {c} :
           fAt'[d] = fAt[d] /\ fGot'[d] = fGot[d] /\ fCall'[d] = fCall[d]
  BY <1>1, <1>2 DEF FileTypes
<1>7. FileTypes'
  <2>1. fAt' \in [FileCalls -> FileStages]
    BY <1>1, <1>2 DEF FileTypes, FileStages
  <2>2. fGot' \in [FileCalls -> Seq(Block)]
    BY <1>1, <1>2, <1>4 DEF FileTypes
  <2>3. fCall' \in [FileCalls -> [kind : {"none", "prompt", "view", "fetch", "send"},
                                  of : Attachments \cup {0}, chat : Chats \cup {"none"}]]
    BY <1>1, <1>2, <1>5 DEF FileTypes
  <2> QED BY <1>1, <1>2, <2>1, <2>2, <2>3 DEF FileTypes
<1>8. RecordFits'
  BY <1>1, <1>2 DEF RecordFits
<1>9. CallFits(c)'
  <2>1. Media!Name(c)' = FileName(m) /\ fShared' = fShared
    BY <1>1, <1>5, <1>6 DEF Media!Name
  <2>2. WholeUnder(fGot[c], Media!Name(c))' = WholeUnder(blocks, FileName(m))
    BY <1>6, <2>1 DEF WholeUnder
  <2>3. fCall'[c].of = m /\ fCall'[c].kind = "send" /\ fChatOf' = fChatOf
    BY <1>1, <1>5, <1>6
  <2>4. fPos'[c] = 0 /\ fUploaded'[c] = <<>>
    BY <1>1, <1>2 DEF CallFits
  <2> QED BY <1>1, <1>4, <1>6, <2>1, <2>2, <2>3, <2>4 DEF CallFits
<1>10. ASSUME NEW d \in FileCalls PROVE CallFits(d)'
  <2>1. CASE d = c
    BY <1>9, <2>1
  <2>2. CASE d # c
    BY <1>1, <1>6, <2>2, FilesParts, CallStays
  <2> QED BY <2>1, <2>2
<1>11. NamesFit' /\ DownloadsFit' /\ PartsAreWritten' /\ fCrashes' \in Nat
  BY <1>1, <1>6, FilesRest
<1> QED BY <1>7, <1>8, <1>10, <1>11 DEF FilesInv

\* The parts that are asked for begin at the beginning.
LEMMA PreparesKeepsFiles ==
  ASSUME FilesInv, NEW c \in FileCalls, Media!Prepares(c) PROVE FilesInv'
<1>1. CASE Media!Ends(c) /\ UNCHANGED fParts
  <2>1. fAt[c] \notin {"idle", "write"} /\ fAt' = [fAt EXCEPT ![c] = "over"]
    BY <1>1 DEF Media!Prepares, Media!Ends, Media!Goes
  <2>2. UNCHANGED <<fRecord, fCall, fPos, fFile, fGot, fData, fPart, fDest, fUploaded, fParts,
                    fChatOf, fShared, fCrashes>>
    BY <1>1 DEF Media!Prepares, Media!files, Media!history
  <2> QED BY <2>1, <2>2, CallEnds
<1>2. ASSUME NEW p \in Blocks, fParts' = [fParts EXCEPT ![c] = p], Media!Goes(c, "put")
      PROVE  FilesInv'
  <2>1. /\ fAt[c] = "prepare" /\ fAt' = [fAt EXCEPT ![c] = "put"]
        /\ UNCHANGED <<fRecord, fCall, fPos, fFile, fGot, fData, fPart, fDest, fUploaded,
                       fChatOf, fShared, fCrashes>>
    BY <1>2 DEF Media!Prepares, Media!Goes, Media!files, Media!history
  <2>2. FileTypes /\ RecordFits /\ CallFits(c) /\ FileSize \in Nat \ {0}
    BY FilesParts, FileFacts
  <2>3. /\ fAt'[c] = "put" /\ fParts'[c] = p
        /\ \A d \in FileCalls \ {c} : fAt'[d] = fAt[d] /\ fParts'[d] = fParts[d]
    BY <1>2, <2>1, <2>2 DEF FileTypes
  <2>4. FileTypes'
    <3>1. fAt' \in [FileCalls -> FileStages]
      BY <2>1, <2>2 DEF FileTypes, FileStages
    <3>2. fParts' \in [FileCalls -> Blocks \cup {<<>>}]
      BY <1>2, <2>2 DEF FileTypes
    <3> QED BY <2>1, <2>2, <3>1, <3>2 DEF FileTypes
  <2>5. RecordFits'
    BY <2>1, <2>2 DEF RecordFits
  <2>6. CallFits(c)'
    <3>1. Media!Name(c)' = Media!Name(c) /\ fShared' = fShared /\ fGot' = fGot
          /\ fCall' = fCall /\ fChatOf' = fChatOf
      BY <2>1 DEF Media!Name
    <3>2. WholeUnder(fGot[c], Media!Name(c))' = WholeUnder(fGot[c], Media!Name(c))
      BY <3>1 DEF WholeUnder
    <3>3. fPos'[c] = 0 /\ fUploaded'[c] = <<>> /\ Len(fGot'[c]) = FileSize
      BY <2>1, <2>2 DEF CallFits
    <3>4. UploadFits(c)'
      <4>1. Media!Offsets(p)[0] = 0
        BY OffsetsAre
      <4>2. Media!Least(0, FileSize) = 0
        BY <2>2 DEF Media!Least
      <4>3. Len(fUploaded'[c]) = 0
        BY <3>3
      <4> QED BY <2>3, <3>3, <4>1, <4>2, <4>3 DEF UploadFits
    <3>5. 0 <= Len(p)
      BY FileFacts
    <3>6. /\ fGot[c] = <<>> \/ Media!Name(c) \in fShared \/ WholeUnder(fGot[c], Media!Name(c))
          /\ fCall[c].of \in Attachments /\ fChatOf[fCall[c].of] # "none"
          /\ fCall[c].kind # "send" => fChatOf[fCall[c].of] = fCall[c].chat
      BY <2>1, <2>2 DEF CallFits
    <3> QED BY <2>3, <3>1, <3>2, <3>3, <3>4, <3>5, <3>6 DEF CallFits
  <2>7. ASSUME NEW d \in FileCalls PROVE CallFits(d)'
    <3>1. CASE d = c
      BY <2>6, <3>1
    <3>2. CASE d # c
      BY <2>1, <2>3, <3>2, FilesParts, CallStays
    <3> QED BY <3>1, <3>2
  <2>8. NamesFit' /\ DownloadsFit' /\ PartsAreWritten' /\ fCrashes' \in Nat
    BY <2>1, <2>3, FilesRest
  <2> QED BY <2>4, <2>5, <2>7, <2>8 DEF FilesInv
<1> QED
  BY <1>1, <1>2 DEF Media!Prepares

\* Blocks one after the other.
LEMMA BlocksJoin ==
  ASSUME NEW u \in Seq(Block), NEW v \in Seq(Block)
  PROVE  /\ u \o v \in Seq(Block) /\ Len(u \o v) = Len(u) + Len(v)
         /\ \A i \in 1 .. Len(u) + Len(v) :
              (u \o v)[i] = IF i <= Len(u) THEN u[i] ELSE v[i - Len(u)]
  BY ConcatProperties

\* What goes on from a beginning of a file is a longer beginning.
LEMMA GoesOn ==
  ASSUME NEW u \in Seq(Block), NEW g \in Seq(Block), NEW x \in Nat, NEW y \in Nat,
         Len(u) = x, x <= y, y <= Len(g), \A i \in 1 .. x : u[i] = g[i]
  PROVE  /\ u \o SubSeq(g, x + 1, y) \in Seq(Block) /\ Len(u \o SubSeq(g, x + 1, y)) = y
         /\ \A i \in 1 .. y : (u \o SubSeq(g, x + 1, y))[i] = g[i]
<1> DEFINE chunk == SubSeq(g, x + 1, y)
<1>1. Len(g) \in Nat
  BY LenProperties
<1>2. /\ chunk \in Seq(Block) /\ Len(chunk) = y - x
      /\ \A i \in 1 .. y - x : chunk[i] = g[x + i]
  <2>1. CASE x = y
    <3>1. chunk = <<>>
      BY <1>1, <2>1
    <3> QED BY <2>1, <3>1
  <2>2. CASE x # y
    <3>1. x + 1 \in 1 .. Len(g) /\ y \in x .. Len(g) /\ x + 1 <= y
      BY <1>1, <2>2
    <3>2. chunk \in Seq(Block)
      BY <1>1, <3>1, SubSeqProperties
    <3>3. Len(chunk) = y - x
      BY <1>1, <3>1
    <3>4. \A i \in 1 .. y - x : chunk[i] = g[x + i]
      BY <1>1, <3>1
    <3> QED BY <3>2, <3>3, <3>4
  <2> QED BY <2>1, <2>2
<1> HIDE DEF chunk
<1>3. /\ u \o chunk \in Seq(Block) /\ Len(u \o chunk) = y
      /\ \A i \in 1 .. y : (u \o chunk)[i] = IF i <= x THEN u[i] ELSE chunk[i - x]
  <2>1. /\ u \o chunk \in Seq(Block) /\ Len(u \o chunk) = Len(u) + Len(chunk)
        /\ \A i \in 1 .. Len(u) + Len(chunk) :
             (u \o chunk)[i] = IF i <= Len(u) THEN u[i] ELSE chunk[i - Len(u)]
    BY <1>2, BlocksJoin
  <2>2. Len(u) + Len(chunk) = y
    BY <1>2
  <2> QED BY <2>1, <2>2, Zenon
<1>5. ASSUME NEW i \in 1 .. y PROVE (u \o chunk)[i] = g[i]
  <2>1. CASE i <= x
    BY <1>3, <2>1
  <2>2. CASE ~(i <= x)
    <3>1. i - x \in 1 .. y - x /\ x + (i - x) = i
      BY <2>2
    <3>2. chunk[i - x] = g[i]
      BY <1>2, <3>1
    <3> QED BY <1>3, <2>2, <3>2
  <2> QED BY <2>1, <2>2
<1>6. /\ u \o chunk \in Seq(Block) /\ Len(u \o chunk) = y
      /\ \A i \in 1 .. y : (u \o chunk)[i] = g[i]
  BY <1>3, <1>5
<1> QED
  BY <1>6 DEF chunk

\* A part more of the file goes out after the ones before it.
LEMMA PutsPartKeepsFiles ==
  ASSUME FilesInv, NEW c \in FileCalls, Media!PutsPart(c) PROVE FilesInv'
<1>1. CASE Media!Ends(c) /\ UNCHANGED <<fPos, fUploaded>>
  <2>1. fAt[c] \notin {"idle", "write"} /\ fAt' = [fAt EXCEPT ![c] = "over"]
    BY <1>1 DEF Media!PutsPart, Media!Ends, Media!Goes
  <2>2. UNCHANGED <<fRecord, fCall, fPos, fFile, fGot, fData, fPart, fDest, fUploaded, fParts,
                    fChatOf, fShared, fCrashes>>
    BY <1>1 DEF Media!PutsPart, Media!files, Media!history
  <2> QED BY <2>1, <2>2, CallEnds
<1>2. CASE /\ fPos' = [fPos EXCEPT ![c] = @ + 1]
           /\ fUploaded' = [fUploaded EXCEPT ![c] = @ \o Media!Chunk(c, fPos'[c])]
           /\ UNCHANGED fAt
  <2> DEFINE place == fPos[c] + 1
             sizes == fParts[c]
             offset == Len(fUploaded[c])
             end == Media!Least(offset + sizes[place], Len(fGot[c]))
             sent == fUploaded[c] \o SubSeq(fGot[c], offset + 1, end)
  <2>1. /\ fAt[c] = "put" /\ fPos[c] < Len(sizes)
        /\ UNCHANGED <<fRecord, fCall, fAt, fFile, fGot, fData, fPart, fDest, fParts, fChatOf,
                       fShared, fCrashes>>
    BY <1>2 DEF Media!PutsPart, Media!files, Media!history
  <2>2. FileTypes /\ RecordFits /\ CallFits(c) /\ FileSize \in Nat \ {0}
    BY FilesParts, FileFacts
  <2>3. fPos'[c] = place /\ \A d \in FileCalls \ {c} : fPos'[d] = fPos[d]
    BY <1>2, <2>2 DEF FileTypes
  <2>4. fUploaded' = [fUploaded EXCEPT ![c] = sent]
    <3>1. Media!Chunk(c, place) = SubSeq(fGot[c], offset + 1, end)
      BY DEF Media!Chunk
    <3> HIDE DEF end, offset, place
    <3> QED BY <1>2, <2>3, <3>1
  <2>5. sizes \in Blocks /\ Len(fGot[c]) = FileSize /\ UploadFits(c)
        /\ fPos[c] \in Nat /\ Len(sizes) \in Nat
    BY <2>1, <2>2, FileFacts DEF CallFits, FileTypes
  <2>6. place \in 1 .. Len(sizes) /\ place - 1 = fPos[c] /\ fPos[c] \in 0 .. Len(sizes)
    BY <2>1, <2>5
  <2>7. sizes[place] \in Nat
    BY <2>5, <2>6, FileFacts
  <2>8. /\ Media!Offsets(sizes)[place] = Media!Offsets(sizes)[fPos[c]] + sizes[place]
        /\ Media!Offsets(sizes)[fPos[c]] \in Nat
    BY <2>5, <2>6, OffsetsAre
  <2>9. offset = Media!Least(Media!Offsets(sizes)[fPos[c]], FileSize)
        /\ \A i \in 1 .. offset : fUploaded[c][i] = fGot[c][i]
    BY <2>5 DEF UploadFits
  <2>10. /\ offset \in Nat /\ end \in Nat /\ offset <= end /\ end <= FileSize
         /\ end = Media!Least(Media!Offsets(sizes)[place], FileSize)
    <3> DEFINE start == Media!Offsets(sizes)[fPos[c]]
               size == sizes[place]
    <3>1. start \in Nat /\ size \in Nat /\ FileSize \in Nat
      BY <2>2, <2>7, <2>8
    <3>2. offset = Media!Least(start, FileSize) /\ end = Media!Least(offset + size, FileSize)
          /\ Media!Offsets(sizes)[place] = start + size
      BY <2>5, <2>8, <2>9
    <3> HIDE DEF start, size, offset, end
    <3>3. /\ offset \in Nat /\ end \in Nat /\ offset <= end /\ end <= FileSize
          /\ end = Media!Least(start + size, FileSize)
      BY <3>1, <3>2 DEF Media!Least
    <3> QED BY <3>2, <3>3
  <2>11. fUploaded[c] \in Seq(Block) /\ fGot[c] \in Seq(Block)
    BY <2>2 DEF FileTypes
  <2>12. sent \in Seq(Block) /\ Len(sent) = end /\ \A i \in 1 .. end : sent[i] = fGot[c][i]
    <3> DEFINE u == fUploaded[c]
               g == fGot[c]
    <3>1. /\ u \in Seq(Block) /\ g \in Seq(Block) /\ offset \in Nat /\ end \in Nat
          /\ Len(u) = offset /\ offset <= end /\ end <= Len(g)
          /\ \A i \in 1 .. offset : u[i] = g[i]
      BY <2>5, <2>9, <2>10, <2>11
    <3> HIDE DEF u, g, offset, end
    <3>2. /\ u \o SubSeq(g, offset + 1, end) \in Seq(Block)
          /\ Len(u \o SubSeq(g, offset + 1, end)) = end
          /\ \A i \in 1 .. end : (u \o SubSeq(g, offset + 1, end))[i] = g[i]
      BY <3>1, GoesOn, ZenonT(60)
    <3> QED BY <3>2 DEF u, g
  <2> HIDE DEF sent, end, offset
  <2>13. fUploaded'[c] = sent /\ \A d \in FileCalls \ {c} : fUploaded'[d] = fUploaded[d]
    BY <2>2, <2>4 DEF FileTypes
  <2>14. FileTypes'
    <3>1. fPos' \in [FileCalls -> Nat]
      BY <1>2, <2>2 DEF FileTypes
    <3>2. fUploaded' \in [FileCalls -> Seq(Block)]
      BY <2>2, <2>4, <2>12 DEF FileTypes
    <3> QED BY <2>1, <2>2, <3>1, <3>2 DEF FileTypes
  <2>15. RecordFits'
    BY <2>1, <2>2 DEF RecordFits
  <2>16. CallFits(c)'
    <3>1. Media!Name(c)' = Media!Name(c) /\ fShared' = fShared /\ fGot' = fGot
          /\ fCall' = fCall /\ fChatOf' = fChatOf /\ fAt'[c] = "put" /\ fParts'[c] = sizes
      BY <2>1 DEF Media!Name
    <3>2. WholeUnder(fGot[c], Media!Name(c))' = WholeUnder(fGot[c], Media!Name(c))
      BY <3>1 DEF WholeUnder
    <3>3. UploadFits(c)'
      <4>1. /\ Len(fUploaded'[c]) = Media!Least(Media!Offsets(fParts'[c])[fPos'[c]], FileSize)
            /\ \A i \in 1 .. Len(fUploaded'[c]) : fUploaded'[c][i] = fGot'[c][i]
        BY <2>3, <2>10, <2>12, <2>13, <3>1
      <4> QED BY <4>1 DEF UploadFits
    <3>4. fPos'[c] <= Len(sizes)
      BY <2>3, <2>6
    <3>5. /\ fGot[c] = <<>> \/ Media!Name(c) \in fShared \/ WholeUnder(fGot[c], Media!Name(c))
          /\ fCall[c].of \in Attachments /\ fChatOf[fCall[c].of] # "none"
          /\ fCall[c].kind # "send" => fChatOf[fCall[c].of] = fCall[c].chat
      BY <2>1, <2>2 DEF CallFits
    <3> HIDE DEF sizes
    <3> QED BY <2>5, <3>1, <3>2, <3>3, <3>4, <3>5 DEF CallFits
  <2>17. ASSUME NEW d \in FileCalls PROVE CallFits(d)'
    <3>1. CASE d = c
      BY <2>16, <3>1
    <3>2. CASE d # c
      BY <2>1, <2>3, <2>13, <3>2, FilesParts, CallStays
    <3> QED BY <3>1, <3>2
  <2>18. NamesFit' /\ DownloadsFit' /\ PartsAreWritten' /\ fCrashes' \in Nat
    BY <2>1, <2>3, FilesRest
  <2> QED BY <2>14, <2>15, <2>17, <2>18 DEF FilesInv
<1> QED
  BY <1>1, <1>2 DEF Media!PutsPart

\* What is merged after the last part is the file.
LEMMA MergesKeepsFiles ==
  ASSUME FilesInv, NEW c \in FileCalls, Media!Merges(c) PROVE FilesInv'
<1>1. /\ fAt[c] = "put" /\ fPos[c] = Len(fParts[c])
      /\ UNCHANGED <<fRecord, fCall, fPos, fFile, fGot, fData, fPart, fDest, fUploaded, fParts,
                     fChatOf, fShared, fCrashes>>
  BY DEF Media!Merges, Media!files, Media!upload, Media!history
<1>2. CASE fAt' = [fAt EXCEPT ![c] = "over"]
  BY <1>1, <1>2, CallEnds
<1>3. CASE fAt' = [fAt EXCEPT ![c] = "sent"]
  <2>1. FileTypes /\ RecordFits /\ CallFits(c) /\ FileSize \in Nat
    BY FilesParts, FileFacts
  <2>2. fAt'[c] = "sent" /\ \A d \in FileCalls \ {c} : fAt'[d] = fAt[d]
    BY <1>3, <2>1 DEF FileTypes
  <2>3. FileTypes'
    <3>1. fAt' \in [FileCalls -> FileStages]
      BY <1>3, <2>1 DEF FileTypes, FileStages
    <3> QED BY <1>1, <2>1, <3>1 DEF FileTypes
  <2>4. fUploaded[c] = fGot[c]
    <3> DEFINE u == fUploaded[c]
               g == fGot[c]
               end == Media!Offsets(fParts[c])[Len(fParts[c])]
    <3>1. fParts[c] \in Blocks /\ Len(g) = FileSize /\ UploadFits(c)
      BY <1>1, <2>1 DEF CallFits
    <3>2. end >= FileSize /\ end \in Nat
      <4>1. Len(fParts[c]) \in 0 .. Len(fParts[c])
        BY <3>1, FileFacts
      <4> QED BY <3>1, <4>1, FileFacts, OffsetsAre
    <3>3. Media!Least(end, FileSize) = FileSize
      <4> HIDE DEF end
      <4> QED BY <2>1, <3>2 DEF Media!Least
    <3>4. Len(u) = FileSize /\ \A i \in 1 .. Len(u) : u[i] = g[i]
      BY <1>1, <3>1, <3>3 DEF UploadFits
    <3>5. u \in Seq(Block) /\ g \in Seq(Block)
      BY <2>1 DEF FileTypes
    <3> HIDE DEF u, g
    <3>6. u = g
      BY <3>1, <3>4, <3>5, SeqEqual
    <3> QED BY <3>6 DEF u, g
  <2>5. CallFits(c)'
    <3>1. Media!Name(c)' = Media!Name(c) /\ fShared' = fShared /\ fGot' = fGot
          /\ fCall' = fCall /\ fChatOf' = fChatOf /\ fUploaded' = fUploaded
      BY <1>1 DEF Media!Name
    <3>2. WholeUnder(fGot[c], Media!Name(c))' = WholeUnder(fGot[c], Media!Name(c))
      BY <3>1 DEF WholeUnder
    <3>3. /\ fGot[c] = <<>> \/ Media!Name(c) \in fShared \/ WholeUnder(fGot[c], Media!Name(c))
          /\ fCall[c].of \in Attachments /\ fChatOf[fCall[c].of] # "none"
          /\ fCall[c].kind # "send" => fChatOf[fCall[c].of] = fCall[c].chat
      BY <1>1, <2>1 DEF CallFits
    <3> QED BY <2>2, <2>4, <3>1, <3>2, <3>3 DEF CallFits
  <2>6. ASSUME NEW d \in FileCalls PROVE CallFits(d)'
    <3>1. CASE d = c
      BY <2>5, <3>1
    <3>2. CASE d # c
      BY <1>1, <2>2, <3>2, FilesParts, CallStays
    <3> QED BY <3>1, <3>2
  <2>7. NamesFit' /\ DownloadsFit' /\ PartsAreWritten' /\ fCrashes' \in Nat
    BY <1>1, <2>2, FilesRest
  <2>8. RecordFits'
    BY <1>1, <2>1 DEF RecordFits
  <2> QED BY <2>3, <2>6, <2>7, <2>8 DEF FilesInv
<1> QED
  BY <1>2, <1>3 DEF Media!Merges

\* A crash leaves the files; no name is forgotten that a download had opened.
LEMMA CrashKeepsFiles ==
  ASSUME FilesInv, Media!Crashes PROVE FilesInv'
<1>1. /\ fCrashes' = fCrashes + 1 /\ fRecord' = Media!EmptyDict
      /\ fAt' = [c \in FileCalls |-> IF fAt[c] \in {"idle", "sent"} THEN fAt[c] ELSE "over"]
      /\ UNCHANGED <<fCall, fPos, fFile, fGot, fData, fPart, fDest, fUploaded, fParts, fChatOf,
                     fShared>>
  BY DEF Media!Crashes, Media!files, Media!upload
<1>2. FileTypes /\ NamesFit /\ DownloadsFit /\ fCrashes \in Nat
  BY FilesParts
<1>3. \A c \in FileCalls :
        fAt'[c] = IF fAt[c] \in {"idle", "sent"} THEN fAt[c] ELSE "over"
  BY <1>1
<1>4. \A d : Media!Name(d)' = Media!Name(d)
  BY <1>1 DEF Media!Name
<1>5. FileTypes'
  <2>1. fAt' \in [FileCalls -> FileStages]
    BY <1>1, <1>2 DEF FileTypes, FileStages
  <2> QED BY <1>1, <1>2, <2>1 DEF FileTypes
<1>6. RecordFits'
  BY <1>1 DEF RecordFits, Media!EmptyDict
<1>7. ASSUME NEW c \in FileCalls PROVE CallFits(c)'
  <2>1. CallFits(c) /\ WholeUnder(fGot[c], Media!Name(c))' = WholeUnder(fGot[c], Media!Name(c))
    BY <1>1, <1>4, FilesParts DEF WholeUnder
  <2>2. CASE fAt[c] \in {"idle", "sent"}
    <3>1. fAt'[c] = fAt[c]
      BY <1>3, <2>2
    <3> QED BY <1>1, <1>4, <2>1, <2>2, <3>1 DEF CallFits
  <2>3. CASE fAt[c] \notin {"idle", "sent"}
    <3>1. fAt'[c] = "over"
      BY <1>3, <2>3
    <3>2. fAt[c] # "idle"
      BY <2>3
    <3> QED BY <1>1, <1>4, <2>1, <3>1, <3>2 DEF CallFits
  <2> QED BY <2>2, <2>3
<1>8. NamesFit'
  <2>1. \A d : Used(d) => d \in FileCalls /\ fAt'[d] \notin {"idle", "get"}
    BY <1>3 DEF Used
  <2>2. \A n \in Media!Names :
          /\ fPart[n] # 0 => /\ fPart[n] \in FileCalls /\ fAt'[fPart[n]] \notin {"idle", "get"}
                             /\ Media!Name(fPart[n]) = n /\ fPart[n] # fDest[n]
          /\ fDest[n] # 0 => /\ fDest[n] \in FileCalls /\ fAt'[fDest[n]] \notin {"idle", "get"}
                             /\ Media!Name(fDest[n]) = n
    BY <1>2, <2>1 DEF NamesFit
  <2>3. \A d \in FileCalls : fFile[d] # 0 =>
          /\ fFile[d] \in FileCalls /\ fAt'[fFile[d]] \notin {"idle", "get"}
          /\ Media!Name(fFile[d]) = Media!Name(d)
    BY <1>2, <2>1 DEF NamesFit
  <2> QED BY <1>1, <1>4, <2>2, <2>3 DEF NamesFit, Used
<1>9. DownloadsFit'
  <2>1. \A c \in FileCalls : fAt'[c] # "write"
    BY <1>3
  <2>2. \A n \in Media!Names :
          fDest'[n] # 0 /\ n \notin fShared' => WholeUnder(fData'[fDest'[n]], n)
    BY <1>1, <1>2 DEF DownloadsFit
  <2>3. \A c \in FileCalls : Written(c)'
    BY <2>1 DEF Written
  <2> QED BY <2>1, <2>2, <2>3 DEF DownloadsFit
<1>10. fCrashes' \in Nat /\ fCrashes' # 0
  BY <1>1, <1>2
<1>11. PartsAreWritten'
  BY <1>10 DEF PartsAreWritten
<1> QED BY <1>5, <1>6, <1>7, <1>8, <1>9, <1>10, <1>11 DEF FilesInv

\* A stuttering step changes nothing of it.
LEMMA FilesStutter == FilesInv /\ UNCHANGED Media!vars => FilesInv'
<1> SUFFICES ASSUME FilesInv, UNCHANGED Media!vars PROVE FilesInv'
  OBVIOUS
<1>1. UNCHANGED <<fRecord, fCall, fAt, fPos, fFile, fGot, fData, fPart, fDest, fUploaded, fParts,
                  fChatOf, fShared, fCrashes>>
  BY DEF Media!vars, Media!files, Media!calls, Media!upload, Media!history
<1>2. FileTypes'
  BY <1>1, FilesParts DEF FileTypes
<1>3. RecordFits'
  BY <1>1, FilesParts DEF RecordFits
<1>4. \A c \in FileCalls : CallFits(c)'
  BY <1>1, FilesParts, CallStays
<1>5. NamesFit'
  BY <1>1, FilesParts DEF NamesFit, Used, Media!Name
<1>6. DownloadsFit'
  BY <1>1, FilesParts DEF DownloadsFit, Written, WholeUnder, Media!Name
<1>7. PartsAreWritten' /\ fCrashes' \in Nat
  BY <1>1, FilesParts DEF PartsAreWritten, Media!Name
<1> QED BY <1>2, <1>3, <1>4, <1>5, <1>6, <1>7 DEF FilesInv

\* Every step keeps the invariant of files.
LEMMA NextKeepsFiles == FilesInv /\ [Media!Next]_Media!vars => FilesInv'
<1> SUFFICES ASSUME FilesInv, [Media!Next]_Media!vars PROVE FilesInv'
  OBVIOUS
<1>1. ASSUME NEW m \in Attachments, NEW s \in Chats, Media!Arrives(m, s) PROVE FilesInv'
  BY <1>1, ArrivesKeepsFiles
<1>2. ASSUME NEW c \in FileCalls, NEW m \in Attachments, NEW s \in Chats, Media!Sends(c, m, s)
      PROVE  FilesInv'
  BY <1>2, SendsKeepsFiles
<1>3. ASSUME NEW c \in FileCalls, NEW m \in Attachments, NEW s \in Chats,
             NEW kind \in {"prompt", "view", "fetch"}, Media!Begins(c, kind, m, s)
      PROVE  FilesInv'
  BY <1>3, BeginsKeepsFiles
<1>4. ASSUME NEW c \in FileCalls, Media!Gets(c) PROVE FilesInv'
  BY <1>4, GetsKeepsFiles
<1>5. ASSUME NEW c \in FileCalls, Media!Writes(c) PROVE FilesInv'
  BY <1>5, WritesKeepsFiles
<1>6. ASSUME NEW c \in FileCalls, Media!BreaksOff(c) PROVE FilesInv'
  BY <1>6, BreaksOffKeepsFiles
<1>7. ASSUME NEW c \in FileCalls, Media!Replaces(c) PROVE FilesInv'
  BY <1>7, ReplacesKeepsFiles
<1>8. ASSUME NEW c \in FileCalls, Media!Reads(c) PROVE FilesInv'
  BY <1>8, ReadsKeepsFiles
<1>9. ASSUME NEW c \in FileCalls, Media!Prepares(c) PROVE FilesInv'
  BY <1>9, PreparesKeepsFiles
<1>10. ASSUME NEW c \in FileCalls, Media!PutsPart(c) PROVE FilesInv'
  BY <1>10, PutsPartKeepsFiles
<1>11. ASSUME NEW c \in FileCalls, Media!Merges(c) PROVE FilesInv'
  BY <1>11, MergesKeepsFiles
<1>12. CASE Media!Crashes
  BY <1>12, CrashKeepsFiles
<1>13. CASE UNCHANGED Media!vars
  BY <1>13, FilesStutter
<1> QED
  BY <1>1, <1>2, <1>3, <1>4, <1>5, <1>6, <1>7, <1>8, <1>9, <1>10, <1>11, <1>12, <1>13, Zenon
  DEF Media!Next

\* It holds at the start,
LEMMA StartOfFiles == Media!Init => FilesInv
<1> SUFFICES ASSUME Media!Init PROVE FilesInv
  OBVIOUS
<1>1. /\ fRecord = Media!EmptyDict /\ fChatOf = [m \in Attachments |-> "none"]
      /\ fCall = [c \in FileCalls |-> Media!NoCall] /\ fAt = [c \in FileCalls |-> "idle"]
      /\ fPos = [c \in FileCalls |-> 0] /\ fFile = [c \in FileCalls |-> 0]
      /\ fGot = [c \in FileCalls |-> <<>>] /\ fData = [c \in FileCalls |-> Media!Empty]
      /\ fPart = [n \in Media!Names |-> 0] /\ fDest = [n \in Media!Names |-> 0]
      /\ fUploaded = [c \in FileCalls |-> <<>>] /\ fParts = [c \in FileCalls |-> <<>>]
      /\ fShared = {} /\ fCrashes = 0
  BY DEF Media!Init
<1>2. FileTypes
  <2>1. Media!Empty \in [1 .. FileSize -> Block]
    BY DEF Media!Empty, Block
  <2>2. Media!NoCall \in [kind : {"none", "prompt", "view", "fetch", "send"},
                          of : Attachments \cup {0}, chat : Chats \cup {"none"}]
    BY DEF Media!NoCall
  <2>3. <<>> \in Seq(Block)
    OBVIOUS
  <2> QED BY <1>1, <2>1, <2>2, <2>3 DEF FileTypes, FileStages
<1>3. RecordFits
  BY <1>1 DEF RecordFits, Media!EmptyDict
<1>4. ASSUME NEW c \in FileCalls PROVE CallFits(c)
  <2>1. fAt[c] = "idle" /\ fGot[c] = <<>> /\ fPos[c] = 0 /\ fFile[c] = 0
        /\ fUploaded[c] = <<>> /\ fCall[c] = Media!NoCall
    BY <1>1
  <2> QED BY <2>1 DEF CallFits
<1>5. NamesFit
  BY <1>1 DEF NamesFit
<1>6. DownloadsFit
  BY <1>1 DEF DownloadsFit, Written
<1>7. PartsAreWritten /\ fCrashes \in Nat
  BY <1>1 DEF PartsAreWritten
<1> QED BY <1>2, <1>3, <1>4, <1>5, <1>6, <1>7 DEF FilesInv

\* and says what is to be shown.
LEMMA FilesFitWhole == FilesInv => Media!FilesAreWhole
<1> SUFFICES ASSUME FilesInv PROVE Media!FilesAreWhole
  OBVIOUS
<1>1. ASSUME NEW c \in FileCalls, fGot[c] # <<>>, Media!Name(c) \notin fShared
      PROVE  /\ \E m \in Attachments : FileName(m) = Media!Name(c) /\ fGot[c] = Media!Whole(m)
             /\ fCall[c].kind # "send" => fChatOf[fCall[c].of] = fCall[c].chat
             /\ fAt[c] = "sent" => fUploaded[c] = fGot[c]
  <2>1. CallFits(c)
    BY FilesParts
  <2>2. WholeUnder(fGot[c], Media!Name(c)) /\ fAt[c] # "idle"
    BY <1>1, <2>1 DEF CallFits
  <2> QED BY <2>1, <2>2 DEF CallFits, WholeUnder
<1>2. PartsAreWritten
  BY FilesParts
<1> QED
  BY <1>1, <1>2 DEF Media!FilesAreWhole, PartsAreWritten

\* For every number of messages, chats, calls and crashes, whatever names attachments are kept
\* under and whatever parts the platform asks for: what the model sees and the chat is sent is
\* a whole attachment of the name that was asked for, unless two downloads wrote to that name
\* at a time, and only a crash leaves a part behind: download_to_path and upload_local_file.
THEOREM FilesStayWhole == Media!Spec => []FilesAreWhole
<1>1. Media!Init => FilesInv
  BY StartOfFiles
<1>2. FilesInv /\ [Media!Next]_Media!vars => FilesInv'
  BY NextKeepsFiles
<1>3. FilesInv => FilesAreWhole
  BY FilesFitWhole DEF FilesAreWhole
<1> QED
  BY <1>1, <1>2, <1>3, PTL DEF Media!Spec
=============================================================================
