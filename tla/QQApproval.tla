----------------------------- MODULE QQApproval -----------------------------
(***************************************************************************)
(* Admin approval of shell calls in bub-qq: approval.py, the branch of     *)
(* plugin.py's before_tool_call that asks for it, and the click handler of *)
(* channel.py. A call is put on a card, an admin clicks, a click that      *)
(* allows issues a one-time token and sends the call back to Bub as a      *)
(* command, whose turn uses the token up.                                  *)
(*                                                                         *)
(* Every action is what one coroutine runs between two awaits: of the      *)
(* card's send, of the click's acknowledgement, of the dispatch. Bub runs  *)
(* the dispatched commands as turns of their own.                          *)
(***************************************************************************)
EXTENDS BoundedDict, FiniteSets

CONSTANTS
  Approvals,     \* approval ids
  NoApproval,    \* of a handler that handles no click
  Keys,          \* _token_key: what a token is bound to, [session, who, call]
  Admins,        \* people who may be admins
  Clicks,        \* handlers of clicks that run at a time
  TTL,           \* APPROVAL_TTL_SECONDS
  MaxTime,       \* bound of the clock
  MaxPending,    \* _MAX_PENDING
  MaxTokens,     \* _MAX_TOKENS
  Kept           \* _OUTCOMES_KEPT

ASSUME TimeAssumption == TTL \in Nat /\ MaxTime \in Nat
ASSUME BoundsAssumption ==
  {MaxPending, MaxTokens, Kept} \subseteq Nat \ {0}
ASSUME NoApprovalAssumption == NoApproval \notin Approvals

NoKey == [session |-> "none", who |-> "none", call |-> "none"]
ASSUME NoKeyAssumption == NoKey \notin Keys

VARIABLES
  now,          \* _clock()
  admins,       \* whom is_admin accepts
  key,          \* PendingApproval: what the card asks for
  created,      \* PendingApproval.created_at
  card,         \* where request_approval stands
  seen,         \* cards that reached the chat
  pending,      \* _pending
  click,        \* a click being handled, or lost: [at, id, decision]
  tokens,       \* _tokens: until when, and (history) which approval issued it
  command,      \* the command turn of an approval
  outcomes,     \* _outcomes: a queue of approvals by session
  reported,     \* history: the outcomes recorded of an approval
  told,         \* history: how many messages carried an approval's outcome
  clickedAt,    \* history: when a click decided an approval
  issuedAt,     \* history: when its token was issued
  ran           \* history: how many calls ran on a token of the approval

histVars == <<told, clickedAt, issuedAt>>
vars == <<now, admins, key, created, card, seen, pending, click, tokens, command,
          outcomes, reported, told, clickedAt, issuedAt, ran>>

Never == MaxTime + 1
Sessions == {k.session : k \in Keys}
NoClick == [at |-> "idle", id |-> NoApproval, decision |-> "none"]

Init ==
  /\ now = 0 /\ admins = Admins
  /\ key = [a \in Approvals |-> NoKey]
  /\ created = [a \in Approvals |-> Never]
  /\ card = [a \in Approvals |-> "unused"]
  /\ seen = {}
  /\ pending = EmptyDict /\ tokens = EmptyDict
  /\ click = [c \in Clicks |-> NoClick]
  /\ command = [a \in Approvals |-> "none"]
  /\ outcomes = EmptyDict
  /\ reported = [a \in Approvals |-> <<>>]
  /\ told = [a \in Approvals |-> 0]
  /\ clickedAt = [a \in Approvals |-> Never]
  /\ issuedAt = [a \in Approvals |-> Never]
  /\ ran = [a \in Approvals |-> 0]

Tick ==
  /\ now < MaxTime /\ now' = now + 1
  /\ UNCHANGED <<admins, key, created, card, seen, pending, click, tokens, command,
                 outcomes, reported, histVars, ran>>

\* ,qq.claim and ,qq.admins remove change who is an admin.
AdminsChange(p) ==
  /\ admins' = IF p \in admins THEN admins \ {p} ELSE admins \cup {p}
  /\ UNCHANGED <<now, key, created, card, seen, pending, click, tokens, command,
                 outcomes, reported, histVars, ran>>

-----------------------------------------------------------------------------
\* record_outcome keeps the last ones of a session.
LastOf(queue, n) == SubSeq(queue, Len(queue) + 1 - IF Len(queue) < n THEN Len(queue) ELSE n,
                           Len(queue))

QueueOf(s) == Get(outcomes, s, <<>>)

\* _outcomes holds as many sessions as _pending holds approvals.
RecordOutcome(a, status) ==
  LET s == key[a].session IN
  /\ outcomes' = Put(outcomes, s, LastOf(Append(QueueOf(s), a), Kept), MaxPending)
  /\ reported' = [reported EXCEPT ![a] = Append(@, status)]

Expired(a) == now > created[a] + TTL

\* request_approval up to the send of the card.
RequestApproval(a, k) ==
  /\ card[a] = "unused"
  /\ card' = [card EXCEPT ![a] = "sending"]
  /\ key' = [key EXCEPT ![a] = k]
  /\ created' = [created EXCEPT ![a] = now]
  /\ pending' = Put(pending, a, TRUE, MaxPending)

\* A shell call of the model in a turn of requester k.who: the Guard denies
\* it to others than admins and asks for approval otherwise.
ModelCalls(a, k) ==
  /\ k.who \in admins
  /\ RequestApproval(a, k)
  /\ UNCHANGED <<now, admins, seen, click, tokens, command, outcomes, reported,
                 histVars, ran>>

\* The card is in the chat, whatever its send returns later.
CardArrives(a) ==
  /\ card[a] = "sending" /\ a \notin seen
  /\ seen' = seen \cup {a}
  /\ UNCHANGED <<now, admins, key, created, card, pending, click, tokens, command,
                 outcomes, reported, histVars, ran>>

\* The send of the card returns, or its turn is cancelled.
CardSent(a) ==
  /\ card[a] = "sending" /\ a \in seen
  /\ card' = [card EXCEPT ![a] = "posted"]
  /\ UNCHANGED <<now, admins, key, created, seen, pending, click, tokens, command,
                 outcomes, reported, histVars, ran>>

\* The send fails, for one that was seen too: request_approval takes the
\* approval back and answers "Not run".
CardFails(a) ==
  /\ card[a] = "sending"
  /\ card' = [card EXCEPT ![a] = "failed"]
  /\ pending' = Pop(pending, a)
  /\ UNCHANGED <<now, admins, key, created, seen, click, tokens, command,
                 outcomes, reported, histVars, ran>>

-----------------------------------------------------------------------------
Acknowledges(c, a, decision) ==
  click' = [click EXCEPT ![c] = [at |-> "acking", id |-> a, decision |-> decision]]
Done(c) == click' = [click EXCEPT ![c] = NoClick]

\* begin_approval_click: the approval has expired.
ClickTooLate(a) ==
  /\ Has(pending, a) /\ Expired(a)
  /\ pending' = Pop(pending, a)
  /\ RecordOutcome(a, "expired")
  /\ UNCHANGED <<click, clickedAt>>

\* begin_approval_click: an admin decides; the approval is taken before the
\* acknowledgement is awaited.
ClickTaken(c, a, operator, decision) ==
  /\ Has(pending, a) /\ ~Expired(a) /\ operator \in admins
  /\ pending' = Pop(pending, a)
  /\ clickedAt' = [clickedAt EXCEPT ![a] = now]
  /\ Acknowledges(c, a, decision)
  /\ UNCHANGED <<outcomes, reported>>

\* A click on an approval that is not pending, or by somebody who is no
\* admin, is answered and changes nothing.
Click(c, a, operator) ==
  /\ click[c].at = "idle" /\ a \in seen
  /\ \/ ClickTooLate(a)
     \/ \E decision \in {"allow", "deny"} : ClickTaken(c, a, operator, decision)
  /\ UNCHANGED <<now, admins, key, created, card, seen, tokens, command, told,
                 issuedAt, ran>>

\* put_interaction raises what _handle_interaction does not catch: the
\* approval is gone with its handler.
AckRaises(c) ==
  /\ click[c].at = "acking"
  /\ click' = [click EXCEPT ![c].at = "raised"]
  /\ UNCHANGED <<now, admins, key, created, card, seen, pending, tokens, command,
                 outcomes, reported, histVars, ran>>

\* complete_approval_click after a click that denies.
CompleteDeny(c) ==
  LET a == click[c].id IN
  /\ click[c].at = "acking" /\ click[c].decision = "deny"
  /\ RecordOutcome(a, "denied")
  /\ Done(c)
  /\ UNCHANGED <<now, admins, key, created, card, seen, pending, tokens, command,
                 histVars, ran>>

\* complete_approval_click after one that allows: issue_token, then dispatch.
CompleteAllow(c) ==
  LET a == click[c].id IN
  /\ click[c].at = "acking" /\ click[c].decision = "allow"
  /\ tokens' = Put(tokens, key[a], [until |-> now + TTL, by |-> a], MaxTokens)
  /\ issuedAt' = [issuedAt EXCEPT ![a] = now]
  /\ click' = [click EXCEPT ![c].at = "dispatching"]
  /\ UNCHANGED <<now, admins, key, created, card, seen, pending, command, outcomes,
                 reported, told, clickedAt, ran>>

\* dispatch_approved_command hands the command to Bub.
Dispatched(c) ==
  /\ click[c].at = "dispatching"
  /\ command' = [command EXCEPT ![click[c].id] = "queued"]
  /\ Done(c)
  /\ UNCHANGED <<now, admins, key, created, card, seen, pending, tokens, outcomes,
                 reported, histVars, ran>>

\* It raises: the approval has failed, and its token stays.
DispatchFails(c) ==
  LET a == click[c].id IN
  /\ click[c].at = "dispatching"
  /\ RecordOutcome(a, "failed")
  /\ Done(c)
  /\ UNCHANGED <<now, admins, key, created, card, seen, pending, tokens, command,
                 histVars, ran>>

-----------------------------------------------------------------------------
\* mutant: the token is looked up and stays.
TokenKept(k) == UNCHANGED tokens

\* consume_token uses the token up, expired or not.
TokenPopped(k) == tokens' = Pop(tokens, k)

\* mutant: a token never expires.
TokenIsThere(k) == Has(tokens, k)

TokenIsGood(k) == Has(tokens, k) /\ now <= tokens.value[k].until

Runs(k) ==
  /\ TokenIsGood(k) /\ TokenPopped(k)
  /\ ran' = [ran EXCEPT ![tokens.value[k].by] = @ + 1]

\* The Guard lets the command of an approval run, with a token.
CommandRuns(a) ==
  /\ command[a] = "queued" /\ key[a].who \in admins
  /\ Runs(key[a])
  /\ command' = [command EXCEPT ![a] = "running"]
  /\ UNCHANGED <<now, admins, key, created, card, seen, pending, click, outcomes,
                 reported, histVars>>

\* The Guard refuses it: its requester is no admin any more, or the token is
\* gone. save_state records that when the turn ends.
CommandRefused(a) ==
  /\ command[a] = "queued"
  /\ \/ key[a].who \notin admins /\ UNCHANGED tokens
     \/ /\ key[a].who \in admins /\ ~TokenIsGood(key[a])
        /\ TokenPopped(key[a])
  /\ command' = [command EXCEPT ![a] = "refused"]
  /\ UNCHANGED <<now, admins, key, created, card, seen, pending, click, outcomes,
                 reported, histVars, ran>>

\* The outcome save_state records at the end of a command's turn, which may
\* also end before it reached the Guard.
Statuses(a) ==
  CASE command[a] = "queued"  -> {"failed"}
    [] command[a] = "refused" -> {"refused"}
    [] OTHER                  -> {"ran", "failed"}

CommandEnds(a) ==
  /\ command[a] \in {"queued", "refused", "running"}
  /\ \E status \in Statuses(a) : RecordOutcome(a, status)
  /\ command' = [command EXCEPT ![a] = "done"]
  /\ UNCHANGED <<now, admins, key, created, card, seen, pending, click, tokens,
                 histVars, ran>>

\* An admin types the call as a command: it uses a token of the same call, or
\* asks for approval.
TypedCommand(a, k) ==
  /\ k.who \in admins
  /\ \/ /\ Runs(k)
        /\ UNCHANGED <<key, created, card, pending>>
     \/ /\ ~TokenIsGood(k) /\ TokenPopped(k)
        /\ RequestApproval(a, k)
        /\ UNCHANGED ran
  /\ UNCHANGED <<now, admins, seen, click, command, outcomes, reported, histVars>>

-----------------------------------------------------------------------------
ExpiredOf(s) == {a \in DOMAIN pending.value : key[a].session = s /\ Expired(a)}

\* mutant: an expired approval stays for a later message to find again.
ExpirePendingKept(s) ==
  /\ UNCHANGED pending
  /\ reported' = [a \in Approvals |->
                    IF a \in ExpiredOf(s) THEN Append(reported[a], "expired") ELSE reported[a]]

\* _expire_pending, for the next message of a session that wakes Bub. The
\* approvals that expired are recorded in the order in which they were asked
\* for.
ExpirePending(s) ==
  /\ pending' = [order |-> Among(pending.order, DOMAIN pending.value \ ExpiredOf(s)),
                 value |-> [a \in DOMAIN pending.value \ ExpiredOf(s) |-> TRUE]]
  /\ reported' = [a \in Approvals |->
                    IF a \in ExpiredOf(s) THEN Append(reported[a], "expired") ELSE reported[a]]

Queued(s) == LastOf(QueueOf(s) \o Among(pending.order, ExpiredOf(s)), Kept)

WithExpired(s) ==
  IF ExpiredOf(s) = {} THEN outcomes ELSE Put(outcomes, s, Queued(s), MaxPending)

Copies(a, queue) == Cardinality({i \in 1 .. Len(queue) : queue[i] = a})

\* A command is no JSON object: its message carries nothing.
CommandArrives(s) ==
  /\ ExpirePending(s)
  /\ outcomes' = WithExpired(s)
  /\ UNCHANGED <<now, admins, key, created, card, seen, click, tokens, command,
                 histVars, ran>>

\* A message that the model reads carries the queue: the last outcomes in
\* full, the others as a number.
AttachApprovalOutcomes(s) ==
  /\ ExpirePending(s)
  /\ outcomes' = Pop(WithExpired(s), s)
  /\ told' = [a \in Approvals |-> told[a] + Copies(a, Queued(s))]
  /\ UNCHANGED <<now, admins, key, created, card, seen, click, tokens, command,
                 clickedAt, issuedAt, ran>>

Next ==
  \/ Tick
  \/ \E p \in Admins : AdminsChange(p)
  \/ \E a \in Approvals, k \in Keys : ModelCalls(a, k) \/ TypedCommand(a, k)
  \/ \E a \in Approvals :
       \/ CardArrives(a) \/ CardSent(a) \/ CardFails(a)
       \/ CommandRuns(a) \/ CommandRefused(a) \/ CommandEnds(a)
  \/ \E c \in Clicks, a \in Approvals, p \in Admins : Click(c, a, p)
  \/ \E c \in Clicks :
       \/ AckRaises(c) \/ CompleteDeny(c) \/ CompleteAllow(c)
       \/ Dispatched(c) \/ DispatchFails(c)
  \/ \E s \in Sessions : CommandArrives(s) \/ AttachApprovalOutcomes(s)

Spec == Init /\ [][Next]_vars

-----------------------------------------------------------------------------
OutcomeStatuses == {"ran", "denied", "expired", "refused", "failed"}

TypeOK ==
  /\ now \in 0 .. MaxTime /\ admins \subseteq Admins
  /\ key \in [Approvals -> Keys \cup {NoKey}]
  /\ created \in [Approvals -> 0 .. Never]
  /\ card \in [Approvals -> {"unused", "sending", "posted", "failed"}]
  /\ seen \subseteq Approvals
  /\ IsBoundedDict(pending, MaxPending) /\ DOMAIN pending.value \subseteq Approvals
  /\ IsBoundedDict(tokens, MaxTokens) /\ DOMAIN tokens.value \subseteq Keys
  /\ \A k \in DOMAIN tokens.value :
       tokens.value[k] \in [until : Nat, by : Approvals]
  /\ click \in [Clicks -> [at : {"idle", "acking", "dispatching", "raised"},
                           id : Approvals \cup {NoApproval}, decision : {"none", "allow", "deny"}]]
  /\ command \in [Approvals -> {"none", "queued", "running", "refused", "done"}]
  /\ IsBoundedDict(outcomes, MaxPending) /\ DOMAIN outcomes.value \subseteq Sessions
  /\ \A s \in DOMAIN outcomes.value : outcomes.value[s] \in Seq(Approvals)
  /\ reported \in [Approvals -> Seq(OutcomeStatuses)]
  /\ told \in [Approvals -> Nat] /\ ran \in [Approvals -> Nat]
  /\ clickedAt \in [Approvals -> 0 .. Never]
  /\ issuedAt \in [Approvals -> 0 .. Never]

\* A shell call that ran was allowed on a card, and a card that was allowed
\* lets one call run, however clicks, commands typed by admins, evictions and
\* failures interleave: issue_token and consume_token (approval.py:177-188),
\* the branch of _check_tool_call, and the click handler.
RunsAreApproved ==
  \A a \in Approvals : ran[a] <= 1 /\ (ran[a] = 1 => issuedAt[a] # Never)

\* A call runs within the time a card and then a token are valid for: the
\* click came while the card was, the run while the token was.
RunsAreTimely ==
  [][\A a \in Approvals : ran'[a] > ran[a] =>
        now <= issuedAt[a] + TTL /\ clickedAt[a] <= created[a] + TTL]_vars

\* An approval is reported once, and truly: what is reported as denied or
\* expired never runs on that approval, what is reported as refused did not
\* run as its command, what is reported as run did.
OutcomesAreTrue ==
  \A a \in Approvals :
    /\ Len(reported[a]) <= 1
    /\ \A i \in 1 .. Len(reported[a]) :
         /\ reported[a][i] \in {"denied", "expired"} => ran[a] = 0
         /\ reported[a][i] = "ran" => \E b \in Approvals : key[b] = key[a] /\ ran[b] = 1

Ended(a) ==
  /\ card[a] \in {"sending", "posted"} /\ ~Has(pending, a)
  /\ \A c \in Clicks : click[c].id # a
  /\ command[a] \notin {"queued", "running", "refused"}

PushedOut(a) ==
  Cardinality({b \in Approvals \ {a} :
                 key[b].session = key[a].session /\ reported[b] # <<>>}) >= Kept

\* As many others as may be pending were asked for.
CrowdedOut(a) ==
  Cardinality({b \in Approvals \ {a} : card[b] # "unused"}) >= MaxPending

\* "how each approval ended (...) is added once to the session's next
\* message" (README.md:244): the end of an approval whose click's handler
\* did not raise is queued for the model, or was carried by a message, once,
\* unless as many ends as are kept, or as many approvals as may be pending,
\* pushed it out.
EndsAreToldOnce ==
  \A a \in Approvals :
    LET times == told[a] + Copies(a, QueueOf(key[a].session)) IN
    Ended(a) => times = 1 \/ (times = 0 /\ (PushedOut(a) \/ CrowdedOut(a)))

\* "Not run: the approval card could not be sent." (approval.py:399): what
\* request_approval answers when the send fails stays true.
NotRunIsTrue == \A a \in Approvals : card[a] = "failed" => ran[a] = 0
=============================================================================
