-------------------------- MODULE QQApprovalProofs --------------------------
(***************************************************************************)
(* Proofs about the way from a QQ event to a tool call.                    *)
(* QQApproval: a call runs only on an approval that was allowed, once per  *)
(* approval, and in time, and how it ended is told once.  An approval goes *)
(* one way: pending, being clicked, issued, recorded, queued, told; a      *)
(* token names an approval that was issued and has not run.                *)
(* QQTurns: what needs an admin runs in turns of admins only, and the rate *)
(* windows agree with the turns that got through.                          *)
(* QQAdmins: a code is new until one person has used it.                   *)
(* QQInbound: an event that is remembered has been handled, and the dicts  *)
(* a reply goes by were written together.                                  *)
(***************************************************************************)
EXTENDS MCQQApproval, FiniteSetTheorems, SequenceTheorems, WellFoundedInduction, TLAPS

Types ==
  /\ now \in 0 .. MaxTime
  /\ key \in [Approvals -> Keys \cup {NoKey}]
  /\ created \in [Approvals -> 0 .. Never]
  /\ card \in [Approvals -> {"unused", "sending", "posted", "failed"}]
  /\ click \in [Clicks -> [at : {"idle", "acking", "dispatching", "raised"},
                           id : Approvals \cup {NoApproval},
                           decision : {"none", "allow", "deny"}]]
  /\ clickedAt \in [Approvals -> 0 .. Never]
  /\ issuedAt \in [Approvals -> 0 .. Never]
  /\ ran \in [Approvals -> Nat]

Acking(a) == \E c \in Clicks : click[c].at = "acking" /\ click[c].id = a

\* What is pending was asked for, is in no click and has no token yet.
PendingIsFresh ==
  \A a \in DOMAIN pending.value :
    a \in Approvals /\ card[a] # "unused" /\ ~Acking(a) /\ issuedAt[a] = Never

\* A click holds an approval alone, and was made while its card was valid.
ClicksAreFresh ==
  \A c \in Clicks : click[c].at = "acking" =>
    LET a == click[c].id IN
    /\ a \in Approvals /\ card[a] # "unused" /\ issuedAt[a] = Never
    /\ clickedAt[a] <= created[a] + TTL
    /\ \A d \in Clicks : click[d].at = "acking" /\ click[d].id = a => d = c

\* An issued approval was asked for and clicked in time.
IssuedWasClicked ==
  \A a \in Approvals : issuedAt[a] # Never =>
    card[a] # "unused" /\ clickedAt[a] <= created[a] + TTL

\* A token names an approval of its call that was issued and has not run.
TokensAreBacked ==
  \A k \in DOMAIN tokens.value :
    LET a == tokens.value[k].by IN
    /\ a \in Approvals /\ key[a] = k
    /\ issuedAt[a] # Never /\ ran[a] = 0
    /\ tokens.value[k].until = issuedAt[a] + TTL

IInv == /\ Types /\ PendingIsFresh /\ ClicksAreFresh /\ IssuedWasClicked
        /\ TokensAreBacked /\ RunsAreApproved

\* A write to a bounded dict adds at most the entry it writes.
LEMMA PutAddsOne ==
  ASSUME NEW d, NEW k, NEW v, NEW max, NEW j \in DOMAIN Put(d, k, v, max).value
  PROVE  \/ j = k /\ Put(d, k, v, max).value[j] = v
         \/ j \in DOMAIN d.value /\ Put(d, k, v, max).value[j] = d.value[j]
  BY DEF Put

\* Taking an entry out leaves the others as they are.
LEMMA PopRemovesOne ==
  ASSUME NEW d, NEW k
  PROVE  /\ DOMAIN Pop(d, k).value = DOMAIN d.value \ {k}
         /\ \A j \in DOMAIN d.value \ {k} : Pop(d, k).value[j] = d.value[j]
  BY DEF Pop

\* What the invariant says of dicts holds of dicts with fewer entries.
LEMMA FewerEntries ==
  ASSUME IInv, Types',
         UNCHANGED <<key, created, card, click, clickedAt, issuedAt, ran>>,
         DOMAIN pending'.value \subseteq DOMAIN pending.value,
         \A k \in DOMAIN tokens'.value :
           k \in DOMAIN tokens.value /\ tokens'.value[k] = tokens.value[k]
  PROVE  IInv'
  BY
  DEF IInv, PendingIsFresh, ClicksAreFresh, IssuedWasClicked, TokensAreBacked, RunsAreApproved,
      Acking, Never

LEMMA InitInv == Init => IInv
<1> SUFFICES ASSUME Init PROVE IInv
  OBVIOUS
<1>1. Types
  BY TimeAssumption DEF Init, Types, Never, NoClick
<1>2. PendingIsFresh /\ TokensAreBacked
  BY DEF Init, PendingIsFresh, TokensAreBacked, EmptyDict
<1>3. ClicksAreFresh /\ IssuedWasClicked /\ RunsAreApproved
  BY DEF Init, ClicksAreFresh, IssuedWasClicked, RunsAreApproved, NoClick
<1> QED BY <1>1, <1>2, <1>3 DEF IInv

LEMMA NextTypes == IInv /\ [Next]_vars => Types'
<1> SUFFICES ASSUME IInv, [Next]_vars PROVE Types'
  OBVIOUS
<1> USE TimeAssumption, NoApprovalAssumption
<1>0. now \in 0 .. Never
  BY DEF IInv, Types, Never
<1>r. ASSUME NEW a \in Approvals, NEW k \in Keys, RequestApproval(a, k),
             UNCHANGED <<now, click, clickedAt, issuedAt, ran>>
      PROVE Types'
  <2>1. card' \in [Approvals -> {"unused", "sending", "posted", "failed"}]
    BY <1>r DEF IInv, Types, RequestApproval
  <2>2. key' \in [Approvals -> Keys \cup {NoKey}]
    BY <1>r DEF IInv, Types, RequestApproval
  <2>3. created' \in [Approvals -> 0 .. Never]
    BY <1>0, <1>r DEF IInv, Types, RequestApproval
  <2> QED BY <1>r, <2>1, <2>2, <2>3 DEF IInv, Types, Never
<1>u. ASSUME NEW k, Runs(k) PROVE ran' \in [Approvals -> Nat]
  BY <1>u DEF IInv, Types, Runs, TokensAreBacked, TokenIsGood, Has
<1>1. ASSUME NEW a \in Approvals, NEW k \in Keys, ModelCalls(a, k) PROVE Types'
  BY <1>1, <1>r DEF ModelCalls, histVars
<1>2. ASSUME NEW a \in Approvals, NEW k \in Keys, TypedCommand(a, k) PROVE Types'
  <2>1. CASE Runs(k) /\ UNCHANGED <<key, created, card, pending>>
    BY <1>2, <1>u, <2>1 DEF IInv, Types, TypedCommand, histVars, Never
  <2>2. CASE RequestApproval(a, k) /\ UNCHANGED ran
    BY <1>2, <1>r, <2>2 DEF TypedCommand, histVars
  <2> QED BY <1>2, <2>1, <2>2 DEF TypedCommand
<1>3. ASSUME NEW a \in Approvals, CommandRuns(a) PROVE Types'
  BY <1>3, <1>u DEF IInv, Types, CommandRuns, histVars, Never
<1>4. ASSUME NEW c \in Clicks, NEW a \in Approvals, NEW p \in Admins, Click(c, a, p)
      PROVE Types'
  BY <1>4 DEF IInv, Types, Click, ClickTooLate, ClickTaken, Acknowledges, Never
<1>5. ASSUME NEW c \in Clicks, CompleteAllow(c) PROVE Types'
  <2>1. issuedAt' \in [Approvals -> 0 .. Never]
    BY <1>0, <1>5 DEF IInv, Types, CompleteAllow
  <2>2. click' \in [Clicks -> [at : {"idle", "acking", "dispatching", "raised"},
                              id : Approvals \cup {NoApproval},
                              decision : {"none", "allow", "deny"}]]
    BY <1>5 DEF IInv, Types, CompleteAllow
  <2> QED BY <1>5, <2>1, <2>2 DEF IInv, Types, CompleteAllow, Never
<1>6. ASSUME NEW a \in Approvals, CardArrives(a) \/ CardSent(a) \/ CardFails(a) PROVE Types'
  BY <1>6 DEF IInv, Types, CardArrives, CardSent, CardFails, Never, histVars
<1>7. ASSUME NEW a \in Approvals, CommandRefused(a) \/ CommandEnds(a) PROVE Types'
  BY <1>7 DEF IInv, Types, CommandRefused, CommandEnds, Never, histVars
<1>8. ASSUME NEW c \in Clicks, AckRaises(c) \/ CompleteDeny(c) \/ Dispatched(c)
                                 \/ DispatchFails(c)
      PROVE Types'
  BY <1>8
  DEF IInv, Types, AckRaises, CompleteDeny, Dispatched, DispatchFails, Done, NoClick, Never,
      histVars
<1>9. CASE Tick \/ UNCHANGED vars
  BY <1>9 DEF IInv, Types, Tick, vars, Never, histVars
<1>10. ASSUME NEW p, AdminsChange(p) \/ CommandArrives(p) \/ AttachApprovalOutcomes(p)
       PROVE Types'
  BY <1>10
  DEF IInv, Types, AdminsChange, CommandArrives, AttachApprovalOutcomes, Never, histVars
<1> QED BY <1>1, <1>2, <1>3, <1>4, <1>5, <1>6, <1>7, <1>8, <1>9, <1>10 DEF Next

\* A new approval has no history, so nothing that is said of the others changes.
LEMMA RequestKept ==
  ASSUME IInv, Types', NEW a \in Approvals, NEW k \in Keys, RequestApproval(a, k),
         UNCHANGED <<click, clickedAt, issuedAt, ran>>,
         \A j \in DOMAIN tokens'.value :
           j \in DOMAIN tokens.value /\ tokens'.value[j] = tokens.value[j]
  PROVE  IInv'
<1>1. issuedAt[a] = Never /\ ~Acking(a)
  BY DEF IInv, RequestApproval, IssuedWasClicked, ClicksAreFresh, Acking
<1>2. card' = [card EXCEPT ![a] = "sending"] /\ key' = [key EXCEPT ![a] = k]
      /\ created' = [created EXCEPT ![a] = now]
  BY DEF RequestApproval
<1>3. \A b \in Approvals : (b # a => card'[b] = card[b] /\ key'[b] = key[b]
                                     /\ created'[b] = created[b])
                           /\ card'[a] = "sending"
  BY <1>2 DEF IInv, Types
<1>4. PendingIsFresh'
  <2>1. \A b \in DOMAIN pending'.value : b = a \/ b \in DOMAIN pending.value
    BY PutAddsOne DEF RequestApproval
  <2> QED BY <1>1, <1>3, <2>1 DEF IInv, PendingIsFresh, Acking, Never
<1>5. ClicksAreFresh'
  <2> SUFFICES ASSUME NEW c \in Clicks, click[c].at = "acking"
               PROVE  LET b == click[c].id IN
                      /\ b \in Approvals /\ card'[b] # "unused" /\ issuedAt[b] = Never
                      /\ clickedAt[b] <= created'[b] + TTL
                      /\ \A d \in Clicks : click[d].at = "acking" /\ click[d].id = b => d = c
    BY DEF ClicksAreFresh, Never
  <2> QED BY <1>1, <1>3 DEF IInv, ClicksAreFresh, Acking
<1>6. IssuedWasClicked'
  BY <1>1, <1>3 DEF IInv, IssuedWasClicked, Never
<1>7. TokensAreBacked'
  BY <1>1, <1>3 DEF IInv, TokensAreBacked, Never
<1>8. RunsAreApproved'
  BY DEF IInv, RunsAreApproved, Never
<1> QED BY <1>4, <1>5, <1>6, <1>7, <1>8 DEF IInv

\* The use of a token is the one run of the approval it names.
LEMMA RunsKept ==
  ASSUME IInv, Types', NEW k, Runs(k),
         UNCHANGED <<key, created, card, pending, click, clickedAt, issuedAt>>
  PROVE  IInv'
<1> DEFINE a == tokens.value[k].by
<1>1. a \in Approvals /\ key[a] = k /\ issuedAt[a] # Never /\ ran[a] = 0
  BY DEF IInv, TokensAreBacked, Runs, TokenIsGood, Has
<1>2. ran' = [ran EXCEPT ![a] = 1]
  BY <1>1 DEF Runs, IInv, Types
<1>3. RunsAreApproved'
  BY <1>1, <1>2 DEF IInv, RunsAreApproved, Types, Never
<1>4. TokensAreBacked'
  <2>1. \A j \in DOMAIN tokens'.value :
          j \in DOMAIN tokens.value /\ j # k /\ tokens'.value[j] = tokens.value[j]
    BY PopRemovesOne DEF Runs, TokenPopped
  <2>2. \A j \in DOMAIN tokens.value : j # k => tokens.value[j].by # a
    BY <1>1 DEF IInv, TokensAreBacked
  <2> QED BY <1>1, <1>2, <2>1, <2>2 DEF IInv, TokensAreBacked, Types, Never
<1>5. PendingIsFresh' /\ ClicksAreFresh' /\ IssuedWasClicked'
  BY DEF IInv, PendingIsFresh, ClicksAreFresh, IssuedWasClicked, Acking, Never
<1> QED BY <1>3, <1>4, <1>5 DEF IInv

\* A click takes a pending approval, which no other click can hold.
LEMMA ClickKept ==
  ASSUME IInv, Types', NEW c \in Clicks, NEW a \in Approvals, NEW p \in Admins,
         NEW decision, ClickTaken(c, a, p, decision), click[c].at = "idle",
         UNCHANGED <<key, created, card, tokens, issuedAt, ran>>
  PROVE  IInv'
<1>1. a \in DOMAIN pending.value /\ card[a] # "unused" /\ ~Acking(a) /\ issuedAt[a] = Never
  BY DEF IInv, ClickTaken, Has, PendingIsFresh
<1>2. clickedAt' = [clickedAt EXCEPT ![a] = now] /\ now <= created[a] + TTL
  BY TimeAssumption DEF ClickTaken, Expired, IInv, Types, Never
<1>3. /\ click'[c].at = "acking" /\ click'[c].id = a
      /\ \A d \in Clicks : d # c => click'[d] = click[d]
  BY DEF ClickTaken, Acknowledges, IInv, Types
<1>4. PendingIsFresh'
  <2>1. \A b \in DOMAIN pending'.value : b # a /\ b \in DOMAIN pending.value
    BY PopRemovesOne DEF ClickTaken
  <2> QED BY <1>3, <2>1 DEF IInv, PendingIsFresh, Acking, Never
<1>5. ClicksAreFresh'
  <2> SUFFICES ASSUME NEW d \in Clicks, click'[d].at = "acking"
               PROVE  LET b == click'[d].id IN
                      /\ b \in Approvals /\ card[b] # "unused" /\ issuedAt[b] = Never
                      /\ clickedAt'[b] <= created[b] + TTL
                      /\ \A e \in Clicks : click'[e].at = "acking" /\ click'[e].id = b => e = d
    BY DEF ClicksAreFresh, Never
  <2>1. CASE d = c
    BY <1>1, <1>2, <1>3, <2>1 DEF IInv, Types, Acking
  <2>2. CASE d # c
    <3>1. click'[d] = click[d] /\ click[d].at = "acking" /\ click[d].id # a
      BY <1>1, <1>3, <2>2 DEF Acking
    <3>2. LET b == click[d].id IN
          /\ b \in Approvals /\ card[b] # "unused" /\ issuedAt[b] = Never
          /\ clickedAt[b] <= created[b] + TTL
          /\ \A e \in Clicks : click[e].at = "acking" /\ click[e].id = b => e = d
      BY <3>1, Zenon DEF IInv, ClicksAreFresh
    <3>3. clickedAt'[click[d].id] = clickedAt[click[d].id]
      BY <1>2, <3>1, <3>2 DEF IInv, Types
    <3>4. \A e \in Clicks : click'[e].at = "acking" /\ click'[e].id = click[d].id => e # c
      BY <1>3, <3>1
    <3> QED BY <1>3, <3>1, <3>2, <3>3, <3>4
  <2> QED BY <2>1, <2>2
<1>6. IssuedWasClicked'
  BY <1>1, <1>2 DEF IInv, IssuedWasClicked, Types, Never
<1>7. TokensAreBacked' /\ RunsAreApproved'
  BY DEF IInv, TokensAreBacked, RunsAreApproved, Never
<1> QED BY <1>4, <1>5, <1>6, <1>7 DEF IInv

\* The completion of the click that holds an approval issues its one token.
LEMMA AllowKept ==
  ASSUME IInv, Types', NEW c \in Clicks, CompleteAllow(c)
  PROVE  IInv'
<1> DEFINE a == click[c].id
<1>1. /\ a \in Approvals /\ card[a] # "unused" /\ issuedAt[a] = Never
      /\ clickedAt[a] <= created[a] + TTL
      /\ \A d \in Clicks : click[d].at = "acking" /\ click[d].id = a => d = c
  BY DEF IInv, ClicksAreFresh, CompleteAllow
<1>2. ran[a] = 0 /\ now # Never
  <2>1. ran[a] \in Nat /\ ran[a] <= 1 /\ ran[a] # 1
    BY <1>1 DEF IInv, RunsAreApproved, Types
  <2>2. now # Never
    BY TimeAssumption DEF IInv, Types, Never
  <2> QED BY <2>1, <2>2
<1>3. issuedAt' = [issuedAt EXCEPT ![a] = now]
  BY DEF CompleteAllow
<1>4. /\ click'[c].at = "dispatching"
      /\ \A d \in Clicks : d # c => click'[d] = click[d]
  BY DEF CompleteAllow, IInv, Types
<1>5. a \notin DOMAIN pending.value
  BY DEF IInv, PendingIsFresh, Acking, CompleteAllow
<1>6. PendingIsFresh'
  BY <1>3, <1>4, <1>5 DEF IInv, PendingIsFresh, Types, Acking, CompleteAllow, Never
<1>7. ClicksAreFresh'
  <2> SUFFICES ASSUME NEW d \in Clicks, click'[d].at = "acking"
               PROVE  LET b == click'[d].id IN
                      /\ b \in Approvals /\ card[b] # "unused" /\ issuedAt'[b] = Never
                      /\ clickedAt[b] <= created[b] + TTL
                      /\ \A e \in Clicks : click'[e].at = "acking" /\ click'[e].id = b => e = d
    BY DEF ClicksAreFresh, CompleteAllow, Never
  <2>1. d # c /\ click'[d] = click[d] /\ click[d].id # a
    BY <1>1, <1>4
  <2> QED BY <1>3, <1>4, <2>1 DEF IInv, Types, ClicksAreFresh
<1>8. IssuedWasClicked'
  BY <1>1, <1>3 DEF IInv, IssuedWasClicked, Types, CompleteAllow, Never
<1>9. TokensAreBacked'
  <2> SUFFICES ASSUME NEW k \in DOMAIN tokens'.value
               PROVE  LET b == tokens'.value[k].by IN
                      /\ b \in Approvals /\ key[b] = k
                      /\ issuedAt'[b] # Never /\ ran[b] = 0
                      /\ tokens'.value[k].until = issuedAt'[b] + TTL
    BY DEF TokensAreBacked, CompleteAllow, Never
  <2> DEFINE t == [until |-> now + TTL, by |-> a]
  <2>1. \/ k = key[a] /\ tokens'.value[k] = t
        \/ k \in DOMAIN tokens.value /\ tokens'.value[k] = tokens.value[k]
    BY PutAddsOne DEF CompleteAllow
  <2>2. CASE k = key[a] /\ tokens'.value[k] = t
    BY <1>1, <1>2, <1>3, <2>2 DEF IInv, Types
  <2>3. CASE k \in DOMAIN tokens.value /\ tokens'.value[k] = tokens.value[k]
    BY <1>1, <1>3, <2>3 DEF IInv, Types, TokensAreBacked
  <2> QED BY <2>1, <2>2, <2>3
<1>10. RunsAreApproved'
  BY <1>1, <1>2, <1>3 DEF IInv, RunsAreApproved, Types, CompleteAllow, Never
<1> QED BY <1>6, <1>7, <1>8, <1>9, <1>10 DEF IInv

\* A click that ends without issuing lets its approval go.
LEMMA ClickEndsKept ==
  ASSUME IInv, Types', NEW c \in Clicks, click'[c].at # "acking",
         \A d \in Clicks : d # c => click'[d] = click[d],
         UNCHANGED <<key, created, card, pending, tokens, clickedAt, issuedAt, ran>>
  PROVE  IInv'
<1>2. PendingIsFresh' /\ ClicksAreFresh'
  BY DEF IInv, PendingIsFresh, ClicksAreFresh, Acking, Never
<1>3. IssuedWasClicked' /\ TokensAreBacked' /\ RunsAreApproved'
  BY DEF IInv, IssuedWasClicked, TokensAreBacked, RunsAreApproved, Never
<1> QED BY <1>2, <1>3 DEF IInv

\* A card's send returns: its approval stays asked for.
LEMMA CardKept ==
  ASSUME IInv, Types', NEW a \in Approvals, NEW to, to # "unused",
         card' = [card EXCEPT ![a] = to], DOMAIN pending'.value \subseteq DOMAIN pending.value,
         UNCHANGED <<key, created, click, tokens, clickedAt, issuedAt, ran>>
  PROVE  IInv'
<1>1. \A b \in Approvals : card[b] # "unused" => card'[b] # "unused"
  BY DEF IInv, Types
<1> QED
  BY <1>1
  DEF IInv, PendingIsFresh, ClicksAreFresh, IssuedWasClicked, TokensAreBacked, RunsAreApproved,
      Acking, Never

LEMMA NextInv == IInv /\ [Next]_vars => IInv'
<1> SUFFICES ASSUME IInv, [Next]_vars PROVE IInv'
  OBVIOUS
<1>t. Types'
  BY NextTypes
<1>1. ASSUME NEW a \in Approvals, NEW k \in Keys, ModelCalls(a, k) PROVE IInv'
  BY <1>t, <1>1, RequestKept DEF ModelCalls, histVars
<1>2. ASSUME NEW a \in Approvals, NEW k \in Keys, TypedCommand(a, k) PROVE IInv'
  <2>1. CASE Runs(k) /\ UNCHANGED <<key, created, card, pending>>
    BY <1>t, <1>2, <2>1, RunsKept DEF TypedCommand, histVars
  <2>2. CASE RequestApproval(a, k) /\ UNCHANGED ran /\ TokenPopped(k)
    BY <1>t, <1>2, <2>2, RequestKept, PopRemovesOne DEF TypedCommand, TokenPopped, histVars
  <2> QED BY <1>2, <2>1, <2>2 DEF TypedCommand
<1>3. ASSUME NEW a \in Approvals, CommandRuns(a) PROVE IInv'
  BY <1>t, <1>3, RunsKept DEF CommandRuns, histVars
<1>4. ASSUME NEW c \in Clicks, NEW a \in Approvals, NEW p \in Admins, Click(c, a, p)
      PROVE IInv'
  <2>1. CASE ClickTooLate(a)
    BY <1>t, <1>4, <2>1, FewerEntries, PopRemovesOne DEF Click, ClickTooLate
  <2>2. ASSUME NEW decision, ClickTaken(c, a, p, decision) PROVE IInv'
    BY <1>t, <1>4, <2>2, ClickKept DEF Click
  <2> QED BY <1>4, <2>1, <2>2 DEF Click
<1>5. ASSUME NEW c \in Clicks, CompleteAllow(c) PROVE IInv'
  BY <1>t, <1>5, AllowKept
<1>6. ASSUME NEW c \in Clicks, AckRaises(c) \/ CompleteDeny(c) \/ Dispatched(c)
                                 \/ DispatchFails(c)
      PROVE IInv'
  <2>1. click'[c].at # "acking" /\ \A d \in Clicks : d # c => click'[d] = click[d]
    BY <1>6 DEF AckRaises, CompleteDeny, Dispatched, DispatchFails, Done, NoClick, IInv, Types
  <2> QED
    BY <1>t, <1>6, <2>1, ClickEndsKept
    DEF AckRaises, CompleteDeny, Dispatched, DispatchFails, histVars
<1>7. ASSUME NEW a \in Approvals, CardSent(a) PROVE IInv'
  BY <1>t, <1>7, CardKept DEF CardSent, histVars
<1>8. ASSUME NEW a \in Approvals, CardFails(a) PROVE IInv'
  <2>1. DOMAIN pending'.value \subseteq DOMAIN pending.value
    BY <1>8, PopRemovesOne DEF CardFails
  <2> QED BY <1>t, <1>8, <2>1, CardKept DEF CardFails, histVars
<1>9. ASSUME NEW a \in Approvals, CommandRefused(a) PROVE IInv'
  BY <1>t, <1>9, FewerEntries, PopRemovesOne DEF CommandRefused, TokenPopped, histVars
<1>10. ASSUME NEW a \in Approvals, CardArrives(a) \/ CommandEnds(a) PROVE IInv'
  BY <1>t, <1>10, FewerEntries DEF CardArrives, CommandEnds, histVars
<1>11. CASE Tick \/ UNCHANGED vars
  BY <1>t, <1>11, FewerEntries DEF Tick, vars, histVars
<1>12. ASSUME NEW p, AdminsChange(p) PROVE IInv'
  BY <1>t, <1>12, FewerEntries DEF AdminsChange, histVars
<1>13. ASSUME NEW s, CommandArrives(s) \/ AttachApprovalOutcomes(s) PROVE IInv'
  BY <1>t, <1>13, FewerEntries
  DEF CommandArrives, AttachApprovalOutcomes, ExpirePending, histVars
<1> QED BY <1>1, <1>2, <1>3, <1>4, <1>5, <1>6, <1>7, <1>8, <1>9, <1>10, <1>11, <1>12, <1>13
        DEF Next

\* Every call that runs was allowed on a card, and every allowed card lets
\* one call run: issue_token and consume_token (approval.py) against any
\* number of clicks, commands, evictions and failures.
THEOREM CallsRunOnApproval == Spec => []RunsAreApproved
<1>1. Init => IInv
  BY InitInv
<1>2. IInv /\ [Next]_vars => IInv'
  BY NextInv
<1>3. IInv => RunsAreApproved
  BY DEF IInv
<1> QED BY <1>1, <1>2, <1>3, PTL DEF Spec

\* A step that runs a call uses a token that is good, of an approval that was
\* clicked in time.
LEMMA StepIsTimely ==
  ASSUME IInv, [Next]_vars, NEW a \in Approvals, ran'[a] > ran[a]
  PROVE  now <= issuedAt[a] + TTL /\ clickedAt[a] <= created[a] + TTL
<1>1. \E k : Runs(k)
  <2>1. ran' # ran
    BY DEF IInv, Types
  <2>2. \/ \E b \in Approvals, k \in Keys : TypedCommand(b, k) /\ Runs(k)
        \/ \E b \in Approvals : CommandRuns(b)
    BY <2>1
    DEF Next, vars, Tick, AdminsChange, ModelCalls, TypedCommand, CardArrives, CardSent,
        CardFails, CommandRefused, CommandEnds, Click, AckRaises, CompleteDeny, CompleteAllow,
        Dispatched, DispatchFails, CommandArrives, AttachApprovalOutcomes
  <2> QED BY <2>2 DEF CommandRuns
<1>2. PICK k : Runs(k)
  BY <1>1
<1>3. k \in DOMAIN tokens.value /\ now <= tokens.value[k].until /\ tokens.value[k].by = a
  BY <1>2 DEF Runs, TokenIsGood, Has, IInv, Types
<1> QED BY <1>3 DEF IInv, TokensAreBacked, IssuedWasClicked

\* Every call runs while its token is valid, and its card was clicked while
\* the card was valid (APPROVAL_TTL_SECONDS, approval.py:47).
THEOREM CallsRunInTime == Spec => RunsAreTimely
<1>1. Init => IInv
  BY InitInv
<1>2. IInv /\ [Next]_vars => IInv'
  BY NextInv
<1>3. IInv /\ [Next]_vars =>
        [\A a \in Approvals : ran'[a] > ran[a] =>
            now <= issuedAt[a] + TTL /\ clickedAt[a] <= created[a] + TTL]_vars
  BY StepIsTimely
<1> QED BY <1>1, <1>2, <1>3, PTL DEF Spec, RunsAreTimely

-----------------------------------------------------------------------------
(* Who may have what done: QQTurns *)

TurnStages == {"idle", "llm", "tools", "notice", "denied", "approval", "runs", "over"}

TurnRecs == [session : Guarded!Sessions \cup {"none"},
             kind : {"none", "batch", "command", "inside"},
             senders : Seq(People \cup {Unknown}), at : TurnStages, tool : Resources \cup {"none"}]

\* A turn that names no sender is Bub's own, and only such a one reaches a tool unnamed.
TurnTypes ==
  turn \in [Turns -> TurnRecs]
TurnsAreNamed ==
  \A t \in Turns :
    /\ turn[t].at \in {"llm", "tools", "notice", "denied", "approval", "runs"} =>
         turn[t].kind = "inside" \/ turn[t].senders # <<>>
WaitingTypes == waiting \in [Guarded!Sessions -> Seq(People \cup {Unknown})]

\* Every step keeps the names of who has a word in a turn.
LEMMA NextNamesSenders ==
  ASSUME TurnTypes, TurnsAreNamed, WaitingTypes, [Guarded!Next]_Guarded!vars
  PROVE  TurnTypes' /\ TurnsAreNamed' /\ WaitingTypes'
<1> USE DEF TurnTypes, TurnsAreNamed, WaitingTypes
<1>1. CASE \/ Guarded!Ticks \/ UNCHANGED Guarded!vars
           \/ \E a \in Guarded!Sessions \X People : Guarded!AdminsChange(a)
  BY <1>1 DEF Guarded!Ticks, Guarded!AdminsChange, Guarded!vars, Guarded!context
<1>2. ASSUME NEW s \in Guarded!Sessions, NEW p \in People \cup {Unknown}, Guarded!Arrives(s, p)
      PROVE  TurnTypes' /\ TurnsAreNamed' /\ WaitingTypes'
  BY <1>2 DEF Guarded!Arrives
<1>3. ASSUME NEW t \in Turns, NEW s \in Guarded!Sessions, Guarded!StartsBatch(t, s)
      PROVE  TurnTypes' /\ TurnsAreNamed' /\ WaitingTypes'
  BY <1>3 DEF Guarded!StartsBatch, Guarded!Begins, TurnRecs, TurnStages
<1>4. ASSUME NEW t \in Turns, NEW s \in Guarded!Sessions, Guarded!StartsInside(t, s)
      PROVE  TurnTypes' /\ TurnsAreNamed' /\ WaitingTypes'
  BY <1>4 DEF Guarded!StartsInside, Guarded!Begins, TurnRecs, TurnStages
<1>5. ASSUME NEW t \in Turns, NEW s \in Guarded!Sessions, NEW p \in People,
             Guarded!StartsCommand(t, s, p)
      PROVE  TurnTypes' /\ TurnsAreNamed' /\ WaitingTypes'
  BY <1>5 DEF Guarded!StartsCommand, Guarded!Begins, TurnRecs, TurnStages
<1>6. ASSUME NEW t \in Turns, NEW r \in TurnRecs, turn' = [turn EXCEPT ![t] = r], UNCHANGED waiting,
             \/ turn[t].at \in {"llm", "tools", "denied", "approval", "runs"}
                /\ r.kind = turn[t].kind /\ r.senders = turn[t].senders
             \/ r.at = "over"
      PROVE  TurnTypes' /\ TurnsAreNamed' /\ WaitingTypes'
  BY <1>6
<1>7. ASSUME NEW t \in Turns,
             \/ Guarded!CallsModel(t) \/ Guarded!NoticeEnds(t) \/ Guarded!Finishes(t)
             \/ Guarded!Answers(t) \/ Guarded!AsksLimiter(t)
      PROVE  TurnTypes' /\ TurnsAreNamed' /\ WaitingTypes'
  <2>1. \/ turn' = [turn EXCEPT ![t] = [@ EXCEPT !.at = "tools"]] /\ turn[t].at = "llm"
        \/ turn' = [turn EXCEPT ![t] = [@ EXCEPT !.at = "notice"]] /\ turn[t].at = "llm"
        \/ /\ turn' = [turn EXCEPT ![t] = [@ EXCEPT !.at = "llm", !.tool = "none"]]
           /\ turn[t].at \in {"denied", "approval", "runs"}
        \/ turn' = [turn EXCEPT ![t] = Guarded!Over]
    BY <1>7
    DEF Guarded!CallsModel, Guarded!NoticeEnds, Guarded!Finishes, Guarded!Answers,
        Guarded!AsksLimiter, Guarded!Notify, Guarded!Ends
  <2>2. UNCHANGED waiting
    BY <1>7
    DEF Guarded!CallsModel, Guarded!NoticeEnds, Guarded!Finishes, Guarded!Answers,
        Guarded!AsksLimiter, Guarded!context
  <2>3. ASSUME NEW stage \in {"tools", "notice"},
               turn' = [turn EXCEPT ![t] = [@ EXCEPT !.at = stage]], turn[t].at = "llm"
        PROVE  TurnTypes' /\ TurnsAreNamed' /\ WaitingTypes'
    <3> DEFINE r == [turn[t] EXCEPT !.at = stage]
    <3>1. r \in TurnRecs /\ r.kind = turn[t].kind /\ r.senders = turn[t].senders
      BY DEF TurnRecs, TurnStages
    <3> QED BY <1>6, <2>2, <2>3, <3>1
  <2>5. CASE /\ turn' = [turn EXCEPT ![t] = [@ EXCEPT !.at = "llm", !.tool = "none"]]
             /\ turn[t].at \in {"denied", "approval", "runs"}
    <3> DEFINE r == [turn[t] EXCEPT !.at = "llm", !.tool = "none"]
    <3>1. r \in TurnRecs /\ r.kind = turn[t].kind /\ r.senders = turn[t].senders
      BY DEF TurnRecs, TurnStages
    <3> QED BY <1>6, <2>2, <2>5, <3>1
  <2>6. CASE turn' = [turn EXCEPT ![t] = Guarded!Over]
    <3>0. Guarded!NoTurn \in TurnRecs
      BY DEF TurnRecs, TurnStages, Guarded!NoTurn
    <3>1. Guarded!Over \in TurnRecs /\ Guarded!Over.at = "over"
      BY <3>0 DEF TurnRecs, TurnStages, Guarded!Over
    <3> QED BY <1>6, <2>2, <2>6, <3>1
  <2> QED BY <2>1, <2>3, <2>5, <2>6
<1>8. ASSUME NEW t \in Turns, NEW k \in Resources, NEW path \in Guarded!Paths,
             Guarded!CallsTool(t, k, path)
      PROVE  TurnTypes' /\ TurnsAreNamed' /\ WaitingTypes'
  <2>1. PICK stage \in {"denied", "approval", "runs"}, tool \in {"none", k} :
          turn' = [turn EXCEPT ![t] = [@ EXCEPT !.tool = tool, !.at = stage]]
    BY <1>8 DEF Guarded!CallsTool
  <2> DEFINE r == [turn[t] EXCEPT !.tool = tool, !.at = stage]
  <2>2. r \in TurnRecs /\ r.kind = turn[t].kind /\ r.senders = turn[t].senders
    BY DEF TurnRecs, TurnStages
  <2>3. turn[t].at = "tools" /\ UNCHANGED waiting
    BY <1>8 DEF Guarded!CallsTool, Guarded!context
  <2> QED BY <1>6, <2>1, <2>2, <2>3
<1> QED BY <1>1, <1>2, <1>3, <1>4, <1>5, <1>6, <1>7, <1>8 DEF Guarded!Next

\* A tool that needs an admin is reached by admins alone.
LEMMA StepIsNamed ==
  ASSUME TurnTypes, TurnsAreNamed, [Guarded!Next]_Guarded!vars, NEW t \in Turns,
         turn'[t].at \in {"runs", "approval"}, turn[t].at = "tools",
         turn'[t].tool \in Guarded!NeedsAdmin
  PROVE  /\ turn[t].senders # <<>>
         /\ \A i \in 1 .. Len(turn[t].senders) : <<turn[t].session, turn[t].senders[i]>> \in trusted
<1> USE DEF TurnTypes, TurnRecs, TurnStages
<1>1. PICK u \in Turns, r \in Resources, path \in Guarded!Paths : Guarded!CallsTool(u, r, path)
  <2>1. turn' # turn
    OBVIOUS
  <2>2. ASSUME NEW u \in Turns, Guarded!AsksLimiter(u) PROVE FALSE
    <3>1. \/ turn' = [turn EXCEPT ![u].at = "tools"] \/ turn' = [turn EXCEPT ![u].at = "notice"]
          \/ Guarded!Ends(u)
      BY <2>2 DEF Guarded!AsksLimiter, Guarded!Notify
    <3>2. CASE turn' = [turn EXCEPT ![u].at = "tools"]
      BY <3>2
    <3>3. CASE turn' = [turn EXCEPT ![u].at = "notice"]
      BY <3>3
    <3>4. CASE Guarded!Ends(u)
      BY <3>4 DEF Guarded!Ends, Guarded!Over, Guarded!NoTurn
    <3> QED BY <3>1, <3>2, <3>3, <3>4, Zenon
  <2>3. ASSUME NEW u \in Turns, NEW s \in Guarded!Sessions, NEW k, NEW q, Guarded!Begins(u, s, k, q)
        PROVE  FALSE
    BY <2>3 DEF Guarded!Begins
  <2>4. ASSUME NEW u \in Turns,
               \/ Guarded!CallsModel(u) \/ Guarded!NoticeEnds(u)
               \/ Guarded!Answers(u) \/ Guarded!Finishes(u)
        PROVE  FALSE
    BY <2>4
    DEF Guarded!CallsModel, Guarded!NoticeEnds, Guarded!Answers, Guarded!Finishes, Guarded!Ends,
        Guarded!Over, Guarded!NoTurn
  <2>5. /\ ~Guarded!Ticks /\ ~UNCHANGED Guarded!vars
        /\ \A a \in Guarded!Sessions \X People : ~Guarded!AdminsChange(a)
        /\ (\A s \in Guarded!Sessions, p \in People \cup {Unknown} : ~Guarded!Arrives(s, p))
    BY <2>1 DEF Guarded!Ticks, Guarded!AdminsChange, Guarded!Arrives, Guarded!vars
  <2> QED
    BY <2>2, <2>3, <2>4, <2>5
    DEF Guarded!Next, Guarded!StartsBatch, Guarded!StartsInside, Guarded!StartsCommand
<1>2. u = t
  BY <1>1 DEF Guarded!CallsTool
<1>3. turn'[t].tool = r /\ ~Guarded!Refused(t, r, path)
  BY <1>1, <1>2 DEF Guarded!CallsTool
<1>4. Guarded!IsAdmin(t)
  BY <1>3 DEF Guarded!Refused, Guarded!NeedsAdmin
<1>5. turn[t].kind # "inside" /\ \A p \in Guarded!Senders(t) : <<turn[t].session, p>> \in trusted
  BY <1>4 DEF Guarded!IsAdmin
<1>6. \A i \in 1 .. Len(turn[t].senders) : turn[t].senders[i] \in Guarded!Senders(t)
  BY DEF Guarded!Senders
<1> QED BY <1>5, <1>6 DEF TurnsAreNamed

\* Hence nothing of the kind runs for anybody else.
LEMMA TurnsRunNothing == Guarded!Spec => Guarded!StrangersRunNothing
<1>1. Guarded!Init => TurnTypes /\ TurnsAreNamed /\ WaitingTypes
  BY
  DEF Guarded!Init, TurnTypes, TurnsAreNamed, WaitingTypes, Guarded!NoTurn, TurnRecs, TurnStages
<1>2. TurnTypes /\ TurnsAreNamed /\ WaitingTypes /\ [Guarded!Next]_Guarded!vars
      => (TurnTypes /\ TurnsAreNamed /\ WaitingTypes)'
  BY NextNamesSenders
<1>3. TurnTypes /\ TurnsAreNamed /\ [Guarded!Next]_Guarded!vars =>
      [\A t \in Turns :
        /\ turn'[t].at \in {"runs", "approval"} /\ turn[t].at = "tools"
        /\ turn'[t].tool \in Guarded!NeedsAdmin
        => /\ turn[t].senders # <<>>
           /\ \A i \in 1 .. Len(turn[t].senders) :
                <<turn[t].session, turn[t].senders[i]>> \in trusted]_Guarded!vars
  BY StepIsNamed
<1> QED BY <1>1, <1>2, <1>3, PTL DEF Guarded!Spec, Guarded!StrangersRunNothing

Windowed(k) ==
  LET held == Guarded!Get(calls, k, <<>>) gone == Len(passed[k]) - Len(held) IN
  /\ held \in Seq(Nat) /\ gone \in Nat
  /\ \A i \in 1 .. Len(held) : held[i] = passed[k][gone + i]
  /\ \A i \in 1 .. gone : Guarded!Old(passed[k][i])

NoticeFits(k) ==
  /\ Guarded!Has(notified, k) <=> noticed[k] # <<>>
  /\ Guarded!Has(notified, k) => notified.value[k] = noticed[k][Len(noticed[k])]

TimesInOrder(times) ==
  \A i, j \in 1 .. Len(times) : i <= j => times[i] <= times[j] /\ times[j] <= tNow

RateTypes ==
  /\ tNow \in Nat
  /\ passed \in [Guarded!RateKeys -> Seq(Nat)] /\ noticed \in [Guarded!RateKeys -> Seq(Nat)]
  /\ \A k \in Guarded!RateKeys : TimesInOrder(passed[k]) /\ TimesInOrder(noticed[k])

RateInv ==
  /\ RateTypes
  /\ \A k \in Guarded!RateKeys \ forgotten : Windowed(k) /\ NoticeFits(k)
  /\ Guarded!RateIsKept

\* A time that is noted comes last.
LEMMA AppendKeepsOrder ==
  ASSUME tNow \in Nat, NEW times \in Seq(Nat), TimesInOrder(times)
  PROVE  TimesInOrder(Append(times, tNow)) /\ Append(times, tNow) \in Seq(Nat)
  BY DEF TimesInOrder

\* What is old stays old.
LEMMA TimePasses ==
  ASSUME RateInv, tNow' \in Nat, tNow' >= tNow, UNCHANGED Guarded!limits
  PROVE  RateInv'
<1> USE DEF RateInv, Guarded!limits
<1>1. RateTypes'
  BY DEF RateTypes, TimesInOrder
<1>2. ASSUME NEW k \in Guarded!RateKeys \ forgotten PROVE Windowed(k)' /\ NoticeFits(k)'
  <2>1. NoticeFits(k)'
    BY DEF NoticeFits
  <2>2. Window \in Nat /\ passed[k] \in Seq(Nat)
    BY Admission DEF RateTypes, Guarded!QQTurnsConstants
  <2>3. ASSUME NEW i \in 1 .. Len(passed[k]), Guarded!Old(passed[k][i]) PROVE Guarded!Old(passed[k][i])'
    BY <2>2, <2>3 DEF RateTypes, Guarded!Old
  <2>4. Windowed(k)
    OBVIOUS
  <2>5. Windowed(k)'
    BY <2>2, <2>3, <2>4 DEF Windowed
  <2> QED BY <2>1, <2>5
<1>3. Guarded!RateIsKept'
  BY DEF Guarded!RateIsKept, Guarded!Crowded
<1> QED BY <1>1, <1>2, <1>3

\* A write to a bounded dict leaves what it neither writes nor drops.
LEMMA PutKeeps ==
  ASSUME NEW d, NEW k, NEW v, NEW max, NEW j
  PROVE  LET e == Guarded!Put(d, k, v, max) IN
         /\ j # k /\ j \notin Guarded!Evicted(d, k, max) =>
              /\ Guarded!Has(e, j) <=> Guarded!Has(d, j)
              /\ Guarded!Has(d, j) => e.value[j] = d.value[j]
         /\ j = k /\ j \notin Guarded!Evicted(d, k, max) => Guarded!Has(e, j) /\ e.value[j] = v
  BY DEF Guarded!Put, Guarded!Has

WindowOf(p, w, gone) ==
  /\ p \in Seq(Nat) /\ w \in Seq(Nat) /\ gone \in Nat /\ Len(p) = gone + Len(w)
  /\ \A i \in 1 .. Len(w) : w[i] = p[gone + i]
  /\ \A i \in 1 .. gone : Guarded!Old(p[i])

\* A place in a sequence that grew by one is in the old one, or the last.
LEMMA InOrLast ==
  ASSUME NEW n \in Nat, NEW i \in 1 .. n + 1 PROVE i <= n \/ i = n + 1
  OBVIOUS

\* What leaves the front of a window is old.
LEMMA WindowMoves ==
  ASSUME NEW p, NEW times, NEW gone, WindowOf(p, times, gone), NEW n \in 1 .. Len(times) + 1,
         Guarded!Recent(times, n), tNow \in Nat
  PROVE  WindowOf(p, SubSeq(times, n, Len(times)), gone + n - 1)
<1> DEFINE w == SubSeq(times, n, Len(times))
<1>1. /\ p \in Seq(Nat) /\ times \in Seq(Nat) /\ gone \in Nat /\ Len(times) \in Nat /\ n \in Nat
      /\ n <= Len(times) + 1 /\ n >= 1 /\ Len(p) = gone + Len(times)
  BY DEF WindowOf
<1>a. w \in Seq(Nat)
  BY <1>1, SMTT(30)
<1>b. Len(w) = Len(times) + 1 - n
  BY <1>1
<1>c. \A i \in 1 .. Len(times) + 1 - n : w[i] = times[n - 1 + i]
  <2> SUFFICES ASSUME NEW i \in 1 .. Len(times) + 1 - n PROVE w[i] = times[n - 1 + i]
    OBVIOUS
  <2>1. w[i] = times[n + i - 1]
    BY <1>1
  <2>2. n + i - 1 = n - 1 + i
    BY <1>1
  <2> QED BY <2>1, <2>2
<1>2. w \in Seq(Nat) /\ Len(w) = Len(times) + 1 - n
      /\ \A i \in 1 .. Len(w) : w[i] = times[n - 1 + i]
  BY <1>a, <1>b, <1>c
<1> HIDE DEF w
<1>3. \A i \in 1 .. Len(w) : w[i] = p[(gone + n - 1) + i]
  <2> SUFFICES ASSUME NEW i \in 1 .. Len(w) PROVE w[i] = p[(gone + n - 1) + i]
    OBVIOUS
  <2>1. n - 1 + i \in 1 .. Len(times) /\ gone + (n - 1 + i) = (gone + n - 1) + i
    BY <1>1, <1>2
  <2>2. times[n - 1 + i] = p[gone + (n - 1 + i)]
    BY <2>1 DEF WindowOf
  <2> QED BY <1>2, <2>1, <2>2
<1>4. \A i \in 1 .. (gone + n - 1) : Guarded!Old(p[i])
  <2> SUFFICES ASSUME NEW i \in 1 .. (gone + n - 1) PROVE Guarded!Old(p[i])
    OBVIOUS
  <2>1. CASE i <= gone
    BY <1>1, <2>1 DEF WindowOf
  <2>2. CASE i > gone
    <3>1. i - gone \in 1 .. n - 1 /\ i - gone \in 1 .. Len(times) /\ gone + (i - gone) = i
      BY <1>1, <2>2
    <3>2. Guarded!Old(times[i - gone])
      BY <3>1 DEF Guarded!Recent
    <3>3. times[i - gone] = p[gone + (i - gone)]
      BY <3>1 DEF WindowOf
    <3> QED BY <3>1, <3>2, <3>3
  <2> QED BY <1>1, <2>1, <2>2
<1>5. gone + n - 1 \in Nat /\ Len(p) = (gone + n - 1) + Len(w)
  BY <1>1, <1>2
<1> QED BY <1>1, <1>2, <1>3, <1>4, <1>5 DEF WindowOf, w

\* What is let through is in the window and in the history.
LEMMA WindowGrows ==
  ASSUME NEW p, NEW w, NEW gone, WindowOf(p, w, gone), tNow \in Nat
  PROVE  WindowOf(Append(p, tNow), Append(w, tNow), gone)
<1> DEFINE q == Append(p, tNow)  v == Append(w, tNow)
<1>1. /\ p \in Seq(Nat) /\ w \in Seq(Nat) /\ gone \in Nat /\ Len(w) \in Nat /\ Len(p) \in Nat
      /\ Len(p) = gone + Len(w)
  BY DEF WindowOf
<1>2. q \in Seq(Nat) /\ Len(q) = Len(p) + 1 /\ q[Len(p) + 1] = tNow
      /\ \A i \in 1 .. Len(p) : q[i] = p[i]
  BY <1>1
<1>3. v \in Seq(Nat) /\ Len(v) = Len(w) + 1 /\ v[Len(w) + 1] = tNow
      /\ \A i \in 1 .. Len(w) : v[i] = w[i]
  BY <1>1
<1> HIDE DEF q, v
<1>4. \A i \in 1 .. Len(v) : v[i] = q[gone + i]
  <2> SUFFICES ASSUME NEW i \in 1 .. Len(v) PROVE v[i] = q[gone + i]
    OBVIOUS
  <2>1. CASE i = Len(w) + 1
    <3>1. gone + i = Len(p) + 1
      BY <1>1, <2>1
    <3> QED BY <1>2, <1>3, <2>1, <3>1
  <2>2. CASE i # Len(w) + 1
    <3>1. i \in 1 .. Len(w) /\ gone + i \in 1 .. Len(p)
      BY <1>1, <1>3, <2>2
    <3> QED BY <1>2, <1>3, <3>1 DEF WindowOf
  <2> QED BY <2>1, <2>2
<1>5. \A i \in 1 .. gone : Guarded!Old(q[i])
  <2> SUFFICES ASSUME NEW i \in 1 .. gone PROVE Guarded!Old(q[i])
    OBVIOUS
  <2>1. i \in 1 .. Len(p)
    BY <1>1
  <2> QED BY <1>2, <2>1 DEF WindowOf
<1>6. Len(q) = gone + Len(v)
  BY <1>1, <1>2, <1>3
<1> QED BY <1>1, <1>2, <1>3, <1>4, <1>5, <1>6 DEF WindowOf, q, v

\* Where a window has room, the turn that is a limit before is out of it.
LEMMA NotCrowded ==
  ASSUME NEW p, NEW w, NEW gone, WindowOf(p, w, gone), tNow \in Nat,
         NEW m \in Nat \ {0}, Len(w) < m,
         ~Guarded!Crowded(p, m), Window \in Nat
  PROVE  ~Guarded!Crowded(Append(p, tNow), m)
<1> DEFINE q == Append(p, tNow)
<1>1. p \in Seq(Nat) /\ gone \in Nat /\ Len(p) \in Nat /\ Len(w) \in Nat /\ Len(p) = gone + Len(w)
  BY DEF WindowOf
<1>2. q \in Seq(Nat) /\ Len(q) = Len(p) + 1 /\ q[Len(p) + 1] = tNow
      /\ \A i \in 1 .. Len(p) : q[i] = p[i]
  BY <1>1
<1> HIDE DEF q
<1>0. SUFFICES ASSUME NEW i \in 1 .. Len(q), i + m \in 1 .. Len(q) PROVE ~(q[i + m] - q[i] < Window)
  BY DEF Guarded!Crowded, q
<1>3. CASE i + m <= Len(p)
  <2>1. i \in 1 .. Len(p) /\ i + m \in 1 .. Len(p)
    BY <1>1, <1>2, <1>3
  <2>2. ~(p[i + m] - p[i] < Window)
    BY <2>1 DEF Guarded!Crowded
  <2> QED BY <1>2, <2>1, <2>2
<1>4. CASE i + m = Len(p) + 1
  <2>1. i \in 1 .. gone /\ i \in 1 .. Len(p)
    BY <1>1, <1>4
  <2>2. tNow - p[i] >= Window /\ p[i] \in Nat
    BY <1>1, <2>1 DEF WindowOf, Guarded!Old
  <2>3. q[i + m] = tNow /\ q[i] = p[i]
    BY <1>2, <1>4, <2>1
  <2> QED BY <2>2, <2>3
<1>5. i + m <= Len(p) \/ i + m = Len(p) + 1
  <2> DEFINE j == i + m
  <2>1. j \in 1 .. Len(p) + 1
    BY <1>0, <1>2
  <2> HIDE DEF j
  <2>2. j <= Len(p) \/ j = Len(p) + 1
    BY <1>1, <2>1, InOrLast, Zenon
  <2> QED BY <2>2 DEF j
<1> QED BY <1>3, <1>4, <1>5

\* The limiter keeps the windows of all keys,
LEMMA WindowedKept ==
  ASSUME RateInv, NEW k, NEW t,
         Guarded!Allow(t, k), UNCHANGED tNow, NEW j \in Guarded!RateKeys,
         j \notin forgotten, j \notin Guarded!Evicted(calls, k, MaxKeys)
  PROVE  Windowed(j)' /\ ~Guarded!Crowded(passed'[j], MaxCalls)
<1> DEFINE times == Guarded!Get(calls, k, <<>>)
<1>1. PICK n \in 1 .. Len(times) + 1 :
        LET window == SubSeq(times, n, Len(times)) ok == Guarded!UnderTheLimit(window) IN
        /\ Guarded!Recent(times, n)
        /\ calls' = Guarded!Put(calls, k, IF ok THEN Append(window, tNow) ELSE window, MaxKeys)
        /\ passed' = IF ok THEN [passed EXCEPT ![k] = Append(@, tNow)] ELSE passed
  BY DEF Guarded!Allow
<1> DEFINE window == SubSeq(times, n, Len(times))
           ok == Guarded!UnderTheLimit(window)
           next == IF ok THEN Append(window, tNow) ELSE window
<1>2. Guarded!Recent(times, n) /\ calls' = Guarded!Put(calls, k, next, MaxKeys)
      /\ passed' = IF ok THEN [passed EXCEPT ![k] = Append(@, tNow)] ELSE passed
  BY <1>1
<1>0. /\ Windowed(j) /\ ~Guarded!Crowded(passed[j], MaxCalls) /\ tNow \in Nat
      /\ passed \in [Guarded!RateKeys -> Seq(Nat)]
  BY DEF RateInv, Guarded!RateIsKept, RateTypes
<1>3. CASE j # k
  <2>1. Guarded!Get(calls', j, <<>>) = Guarded!Get(calls, j, <<>>)
    BY <1>2, <1>3, PutKeeps DEF Guarded!Get
  <2>2. passed'[j] = passed[j]
    BY <1>0, <1>2, <1>3
  <2> QED BY <1>0, <2>1, <2>2 DEF Windowed, Guarded!Old
<1>4. CASE j = k
  <2>1. Guarded!Get(calls', j, <<>>) = next
    BY <1>2, <1>4, PutKeeps DEF Guarded!Get
  <2> DEFINE p == passed[k]  gone == Len(p) - Len(times)
  <2>2. WindowOf(p, times, gone)
    BY <1>0, <1>4 DEF Windowed, WindowOf
  <2>3. WindowOf(p, window, gone + n - 1)
    BY <1>0, <1>1, <1>2, <2>2, WindowMoves
  <2>4. passed'[k] = IF ok THEN Append(p, tNow) ELSE p
    BY <1>0, <1>2, <1>4
  <2>5. /\ WindowOf(passed'[k], next, gone + n - 1)
        /\ ~Guarded!Crowded(passed'[k], MaxCalls)
    <3>1. CASE ok
      <4>1. WindowOf(Append(p, tNow), Append(window, tNow), gone + n - 1)
        BY <1>0, <2>3, WindowGrows
      <4>2. ~Guarded!Crowded(Append(p, tNow), MaxCalls)
        <5> HIDE DEF window
        <5>1. Len(window) < MaxCalls /\ MaxCalls \in Nat \ {0} /\ Window \in Nat
          BY <3>1, Admission DEF Guarded!UnderTheLimit, Guarded!QQTurnsConstants
        <5> HIDE DEF p, gone
        <5>2. ~Guarded!Crowded(p, MaxCalls)
          BY <1>0, <1>4 DEF p
        <5> QED BY <1>0, <2>3, <5>1, <5>2, NotCrowded
      <4> QED BY <2>4, <3>1, <4>1, <4>2
    <3>2. CASE ~ok
      BY <1>0, <1>4, <2>3, <2>4, <3>2
    <3> QED BY <3>1, <3>2
  <2> HIDE DEF next, gone, p, times, window
  <2>6. Windowed(j)'
    <3> DEFINE g == gone + n - 1
    <3> HIDE DEF g
    <3>1. WindowOf(passed'[k], next, g)
      BY <2>5 DEF g
    <3>2. Len(passed'[k]) - Len(next) = g /\ g \in Nat
      BY <3>1 DEF WindowOf
    <3> QED BY <1>4, <2>1, <3>1, <3>2 DEF Windowed, WindowOf, Guarded!Old
  <2> QED BY <1>4, <2>5, <2>6
<1> QED BY <1>3, <1>4

\* A notice that comes a window after the last one crowds nobody.
LEMMA ToldOnce ==
  ASSUME NEW p \in Seq(Nat), tNow \in Nat, Window \in Nat, ~Guarded!Crowded(p, 1),
         p # <<>> => tNow - p[Len(p)] >= Window
  PROVE  ~Guarded!Crowded(Append(p, tNow), 1)
<1> DEFINE q == Append(p, tNow)
<1>1. Len(p) \in Nat /\ Len(q) = Len(p) + 1 /\ q[Len(p) + 1] = tNow
      /\ \A i \in 1 .. Len(p) : q[i] = p[i] /\ p[i] \in Nat
  OBVIOUS
<1> HIDE DEF q
<1> SUFFICES ASSUME NEW i \in 1 .. Len(q), i + 1 \in 1 .. Len(q) PROVE ~(q[i + 1] - q[i] < Window)
  BY DEF Guarded!Crowded, q
<1>2. CASE i + 1 <= Len(p)
  <2>1. i \in 1 .. Len(p) /\ i + 1 \in 1 .. Len(p)
    BY <1>1, <1>2
  <2> QED BY <1>1, <2>1 DEF Guarded!Crowded
<1>3. CASE i = Len(p)
  <2>1. Len(p) \in 1 .. Len(p) /\ p # <<>>
    BY <1>3
  <2>2. tNow - p[Len(p)] >= Window /\ q[i + 1] = tNow /\ q[i] = p[Len(p)]
    BY <1>1, <1>3, <2>1
  <2> QED BY <1>1, <2>1, <2>2
<1> QED BY <1>1, <1>2, <1>3

\* _notify_rate_limited what is noted of the notices,
LEMMA NotifyKeeps ==
  ASSUME RateInv, NEW t, NEW k, Guarded!Notify(t, k), UNCHANGED tNow,
         NEW j \in Guarded!RateKeys, j \notin forgotten'
  PROVE  /\ j \notin forgotten /\ j \notin Guarded!Evicted(calls, k, MaxKeys)
         /\ NoticeFits(j)' /\ ~Guarded!Crowded(noticed'[j], 1)
<1>0. /\ tNow \in Nat /\ noticed \in [Guarded!RateKeys -> Seq(Nat)] /\ Window \in Nat
  BY Admission DEF RateInv, RateTypes, Guarded!QQTurnsConstants
<1>1. j \notin forgotten /\ j \notin Guarded!Evicted(calls, k, MaxKeys)
  BY DEF Guarded!Notify
<1>2. NoticeFits(j) /\ ~Guarded!Crowded(noticed[j], 1)
  BY <1>1 DEF RateInv, Guarded!RateIsKept
<1>3. CASE UNCHANGED <<notified, noticed>>
  BY <1>1, <1>2, <1>3 DEF NoticeFits
<1>4. CASE /\ Guarded!Has(notified, k) => tNow - notified.value[k] >= Window
           /\ notified' = Guarded!Put(notified, k, tNow, MaxKeys)
           /\ noticed' = [noticed EXCEPT ![k] = Append(@, tNow)]
           /\ j \notin Guarded!Evicted(notified, k, MaxKeys)
  <2>1. CASE j # k
    <3>1. noticed'[j] = noticed[j]
      BY <1>0, <1>4, <2>1
    <3>2. (Guarded!Has(notified', j) <=> Guarded!Has(notified, j))
          /\ (Guarded!Has(notified, j) => notified'.value[j] = notified.value[j])
      BY <1>4, <2>1, PutKeeps
    <3> QED BY <1>1, <1>2, <3>1, <3>2 DEF NoticeFits
  <2>2. CASE j = k
    <3> DEFINE p == noticed[j]
    <3>1. noticed'[j] = Append(p, tNow)
      BY <1>0, <1>4, <2>2
    <3>2. Guarded!Has(notified', j) /\ notified'.value[j] = tNow
      BY <1>4, <2>2, PutKeeps
    <3>3. p \in Seq(Nat) /\ ~Guarded!Crowded(p, 1) /\ (p # <<>> => tNow - p[Len(p)] >= Window)
      BY <1>0, <1>2, <1>4, <2>2 DEF NoticeFits
    <3> HIDE DEF p
    <3>4. ~Guarded!Crowded(Append(p, tNow), 1)
      BY <1>0, <3>3, ToldOnce
    <3>5. Append(p, tNow) # <<>> /\ Append(p, tNow)[Len(Append(p, tNow))] = tNow
      <4>1. /\ Len(p) \in Nat /\ Len(Append(p, tNow)) = Len(p) + 1
            /\ Append(p, tNow)[Len(p) + 1] = tNow
        BY <1>0, <3>3
      <4>2. \A q : q = <<>> => Len(q) = 0
        OBVIOUS
      <4> QED BY <4>1, <4>2
    <3> QED BY <1>1, <3>1, <3>2, <3>4, <3>5 DEF NoticeFits
  <2> QED BY <2>1, <2>2
<1> QED BY <1>1, <1>3, <1>4 DEF Guarded!Notify

\* and so a first model call all that is said of rates.
LEMMA AsksKeepsRates ==
  ASSUME RateInv, NEW t \in Turns, Guarded!AsksLimiter(t)
  PROVE  RateInv'
<1> DEFINE k == <<turn[t].session, Guarded!Last(t)>>
<1>1. Guarded!Allow(t, k) /\ UNCHANGED tNow
  BY DEF Guarded!AsksLimiter, Guarded!context
<1>2. \/ UNCHANGED <<notified, noticed>>
         /\ forgotten' = forgotten \cup Guarded!Evicted(calls, k, MaxKeys)
      \/ Guarded!Notify(t, k)
  BY DEF Guarded!AsksLimiter
<1> HIDE DEF k
<1>3. passed' = passed \/ passed' = [passed EXCEPT ![k] = Append(@, tNow)]
  BY <1>1 DEF Guarded!Allow
<1>4. noticed' = noticed \/ noticed' = [noticed EXCEPT ![k] = Append(@, tNow)]
  BY <1>2 DEF Guarded!Notify
<1>5. RateTypes'
  <2> USE DEF RateInv, RateTypes
  <2>0. tNow' = tNow /\ tNow \in Nat
    BY <1>1
  <2>1. /\ passed' \in [Guarded!RateKeys -> Seq(Nat)]
        /\ \A j \in Guarded!RateKeys : TimesInOrder(passed'[j])
    BY <1>3, <2>0, AppendKeepsOrder
  <2>2. /\ noticed' \in [Guarded!RateKeys -> Seq(Nat)]
        /\ \A j \in Guarded!RateKeys : TimesInOrder(noticed'[j])
    BY <1>4, <2>0, AppendKeepsOrder
  <2> QED BY <2>0, <2>1, <2>2 DEF TimesInOrder
<1>6. ASSUME NEW j \in Guarded!RateKeys \ forgotten'
      PROVE  /\ Windowed(j)' /\ NoticeFits(j)'
             /\ ~Guarded!Crowded(passed'[j], MaxCalls) /\ ~Guarded!Crowded(noticed'[j], 1)
  <2>1. j \notin forgotten /\ j \notin Guarded!Evicted(calls, k, MaxKeys)
    BY <1>1, <1>2, <1>6, NotifyKeeps
  <2>2. Windowed(j)' /\ ~Guarded!Crowded(passed'[j], MaxCalls)
    BY <1>1, <2>1, WindowedKept
  <2>3. NoticeFits(j)' /\ ~Guarded!Crowded(noticed'[j], 1)
    <3>1. CASE UNCHANGED <<notified, noticed>>
      BY <2>1, <3>1 DEF RateInv, Guarded!RateIsKept, NoticeFits
    <3>2. CASE Guarded!Notify(t, k)
      BY <1>1, <1>6, <3>2, NotifyKeeps
    <3> QED BY <1>2, <3>1, <3>2
  <2> QED BY <2>2, <2>3
<1>7. Guarded!RateIsKept'
  BY <1>1, <1>6 DEF Guarded!RateIsKept, Guarded!Crowded
<1> QED BY <1>5, <1>6, <1>7 DEF RateInv

\* The limit on turns and on notices holds.
LEMMA RatesKept == Guarded!Spec => []Guarded!RateIsKept
<1>1. Guarded!Init => RateInv
  BY
  DEF Guarded!Init, RateInv, RateTypes, Guarded!RateIsKept, Windowed, NoticeFits, TimesInOrder,
      Guarded!Crowded, Guarded!EmptyDict, Guarded!Get, Guarded!Has
<1>2. ASSUME RateInv, [Guarded!Next]_Guarded!vars PROVE RateInv'
  <2>1. CASE Guarded!Ticks
    <3>1. tNow' \in Nat /\ tNow' >= tNow
      BY <1>2, <2>1 DEF Guarded!Ticks, RateInv, RateTypes
    <3> QED BY <1>2, <2>1, <3>1, TimePasses DEF Guarded!Ticks
  <2>2. CASE UNCHANGED <<tNow, Guarded!limits>>
    BY <1>2, <2>2, TimePasses DEF RateInv, RateTypes
  <2>3. ASSUME NEW t \in Turns, Guarded!AsksLimiter(t) PROVE RateInv'
    BY <1>2, <2>3, AsksKeepsRates
  <2> QED
    BY <1>2, <2>1, <2>2, <2>3
    DEF Guarded!Next, Guarded!vars, Guarded!context, Guarded!AdminsChange, Guarded!Arrives,
        Guarded!StartsBatch, Guarded!StartsInside, Guarded!StartsCommand, Guarded!Begins,
        Guarded!CallsModel, Guarded!NoticeEnds, Guarded!Answers, Guarded!Finishes,
        Guarded!CallsTool
<1>3. RateInv => Guarded!RateIsKept
  BY DEF RateInv
<1> QED BY <1>1, <1>2, <1>3, PTL DEF Guarded!Spec

-----------------------------------------------------------------------------
(* Admins and their codes: QQAdmins *)

\* QQAdmins counts as this module counts.
LEMMA SameCount ==
  \A S : Registry!IsFiniteSet(S) = IsFiniteSet(S) /\ Registry!Cardinality(S) = Cardinality(S)
  BY DEF Registry!IsFiniteSet, IsFiniteSet, Registry!Cardinality, Cardinality

\* The codes are numbered from 1.
LEMMA CodesAreNumbers ==
  /\ Codes \subseteq Nat /\ Cardinality(Codes) \in Nat
  /\ Codes = 1 .. Cardinality(Codes)
  BY Admission, SameCount, FS_CardinalityType DEF Registry!QQAdminsConstants

CodeRecs ==
  [kind : {"none", "bootstrap", "group"}, expires : Nat, by : Registry!Identities \cup {"none"}]
NoticeRecs == [to : Registry!Identities \cup {"none"}, about : Registry!Identities, code : Codes]
NewBootstrap == [kind |-> "bootstrap", expires |-> aNow + BootstrapTTL, by |-> "none"]
ClaimedIds == UNION {used[c] : c \in Codes}

AdminTypes ==
  /\ aNow \in Nat /\ minted \in 0 .. Cardinality(Codes)
  /\ code \in [Codes -> CodeRecs] /\ used \in [Codes -> SUBSET Registry!Identities]
  /\ failures \in [Registry!Identities -> Seq(Nat)]
  /\ notices \in Seq(NoticeRecs) /\ noticesTold \subseteq NoticeRecs /\ starts \in Nat

NewCodesAreFresh ==
  \A c \in Codes : /\ code[c] # Registry!NoCode => c <= minted /\ used[c] = {}
                   /\ c > minted => used[c] = {}
CodesAreUsedOnce == \A c \in Codes : used[c] = {} \/ \E i \in Registry!Identities : used[c] = {i}
AdminsWereClaimed ==
  /\ registered \cup onDisk \subseteq ClaimedIds
  /\ \A c \in Codes : code[c].kind = "group" => code[c].by \in ClaimedIds
NotesAreTrue ==
  /\ \A i \in 1 .. Len(notices) : used[notices[i].code] = {notices[i].about}
       /\ notices[i].to \in ClaimedIds
  /\ \A n \in noticesTold : used[n.code] = {n.about} /\ n.to \in ClaimedIds
OneBootstrap ==
  /\ \A c, d \in Codes : Registry!Live(c, "bootstrap") /\ Registry!Live(d, "bootstrap") => c = d
  /\ \A c \in Codes : Registry!Live(c, "bootstrap") => registered \cap PrivateIds = {}
FewFailures == \A i \in Registry!Identities : Len(failures[i]) < MaxFailures

AdminsInv ==
  /\ AdminTypes /\ NewCodesAreFresh /\ CodesAreUsedOnce /\ AdminsWereClaimed /\ NotesAreTrue
  /\ OneBootstrap /\ FewFailures

\* A code is minted where none of the log is good.
LEMMA BecomesMints ==
  ASSUME AdminTypes, NEW codes \in [Codes -> CodeRecs], NEW bare, Registry!Becomes(codes, bare),
         \A c \in Codes : codes[c] # Registry!NoCode => c <= minted
  PROVE  \/ code' = codes /\ minted' = minted
         \/ /\ bare /\ minted + 1 \in Codes /\ minted' = minted + 1
            /\ code' = [codes EXCEPT ![minted + 1] = NewBootstrap]
            /\ \A c \in Codes : ~(codes[c].kind = "bootstrap" /\ codes[c].expires > aNow)
<1>1. CASE Registry!Minted(codes, bare) = codes
  BY <1>1 DEF Registry!Becomes
<1>2. CASE Registry!Minted(codes, bare) # codes
  <2>1. /\ bare /\ minted # Cardinality(Codes)
        /\ \A c \in Codes : ~(codes[c].kind = "bootstrap" /\ codes[c].expires > aNow)
        /\ Registry!Minted(codes, bare) = [codes EXCEPT ![minted + 1] = NewBootstrap]
    BY <1>2, SameCount DEF Registry!Minted, NewBootstrap
  <2>2. minted + 1 \in Codes
    <3>1. Cardinality(Codes) \in Nat /\ Codes = 1 .. Cardinality(Codes)
      BY Admission, SameCount, FS_CardinalityType DEF Registry!QQAdminsConstants
    <3> QED BY <2>1, <3>1 DEF AdminTypes
  <2> QED BY <1>2, <2>1, <2>2 DEF Registry!Becomes
<1> QED BY <1>1, <1>2

\* Steps that mint or forget codes and register nobody keep the invariant,
LEMMA CodesChange ==
  ASSUME AdminsInv, NEW codes \in [Codes -> CodeRecs], NEW bare, Registry!Becomes(codes, bare),
         \A c \in Codes : codes[c] = code[c] \/ codes[c] = Registry!NoCode,
         UNCHANGED <<aNow, used, noticesTold>>, starts' \in Nat,
         registered' \cup onDisk' \subseteq registered \cup onDisk,
         notices' = notices \/ notices' = <<>>,
         bare => registered' = {},
         registered' \subseteq registered \/ codes = [c \in Codes |-> Registry!NoCode],
         failures' \in [Registry!Identities -> Seq(Nat)], FewFailures'
  PROVE  AdminsInv'
<1> USE DEF AdminsInv
<1>0. /\ aNow \in Nat /\ minted \in Nat /\ code \in [Codes -> CodeRecs] /\ Codes \subseteq Nat
      /\ ClaimedIds' = ClaimedIds
  BY CodesAreNumbers DEF AdminTypes, Registry!QQAdminsConstants, ClaimedIds
<1>a. \A c \in Codes : codes[c] # Registry!NoCode => c <= minted
  BY DEF NewCodesAreFresh
<1>1. \/ code' = codes /\ minted' = minted
      \/ /\ bare /\ minted + 1 \in Codes /\ minted' = minted + 1
         /\ code' = [codes EXCEPT ![minted + 1] = NewBootstrap]
         /\ \A c \in Codes : ~(codes[c].kind = "bootstrap" /\ codes[c].expires > aNow)
  BY <1>a, BecomesMints
<1>b. NewBootstrap \in CodeRecs /\ NewBootstrap.kind = "bootstrap" /\ NewBootstrap # Registry!NoCode
  BY <1>0, Admission DEF NewBootstrap, CodeRecs, Registry!QQAdminsConstants, Registry!NoCode
<1>2. AdminTypes'
  <2>1. minted' \in 0 .. Cardinality(Codes)
    BY <1>1, CodesAreNumbers DEF AdminTypes
  <2>2. code' \in [Codes -> CodeRecs]
    BY <1>1, <1>b
  <2>3. notices' \in Seq(NoticeRecs)
    <3>1. CASE notices' = notices
      BY <3>1 DEF AdminTypes
    <3>2. CASE notices' = <<>>
      BY <3>2
    <3> QED BY <3>1, <3>2
  <2> QED BY <2>1, <2>2, <2>3 DEF AdminTypes
<1>3. NewCodesAreFresh'
  <2> SUFFICES ASSUME NEW c \in Codes
               PROVE  /\ code'[c] # Registry!NoCode => c <= minted' /\ used[c] = {}
                      /\ c > minted' => used[c] = {}
    BY DEF NewCodesAreFresh
  <2> QED BY <1>0, <1>1, <1>a DEF NewCodesAreFresh
<1>4. CodesAreUsedOnce'
  BY DEF CodesAreUsedOnce
<1>5. AdminsWereClaimed'
  <2>1. \A c \in Codes : code'[c].kind = "group" => code'[c] = code[c]
    BY <1>1, <1>b DEF Registry!NoCode
  <2> QED BY <1>0, <2>1 DEF AdminsWereClaimed
<1>6. NotesAreTrue'
  <2>1. CASE notices' = notices
    BY <1>0, <2>1 DEF NotesAreTrue
  <2>2. CASE notices' = <<>>
    BY <1>0, <2>2 DEF NotesAreTrue
  <2> QED BY <2>1, <2>2
<1>7. OneBootstrap'
  <2>1. \A c \in Codes : Registry!Live(c, "bootstrap")' =>
           (code'[c] = code[c] /\ Registry!Live(c, "bootstrap")) \/ (bare /\ c = minted + 1)
    BY <1>1, <1>b DEF Registry!Live, Registry!NoCode
  <2>2. CASE code' = codes
    <3>1. \A c \in Codes : Registry!Live(c, "bootstrap")'
                    => Registry!Live(c, "bootstrap") /\ codes[c] # Registry!NoCode
      BY <2>2 DEF Registry!Live, Registry!NoCode
    <3>2. CASE registered' \subseteq registered
      BY <3>1, <3>2 DEF OneBootstrap
    <3>3. CASE codes = [c \in Codes |-> Registry!NoCode]
      BY <3>1, <3>3 DEF OneBootstrap
    <3> QED BY <3>2, <3>3
  <2>3. CASE /\ bare /\ code' = [codes EXCEPT ![minted + 1] = NewBootstrap]
             /\ \A c \in Codes : ~(codes[c].kind = "bootstrap" /\ codes[c].expires > aNow)
    <3>1. \A c \in Codes : Registry!Live(c, "bootstrap")' => c = minted + 1
      BY <2>3 DEF Registry!Live
    <3> QED BY <2>3, <3>1 DEF OneBootstrap
  <2> QED BY <1>1, <2>2, <2>3
<1> QED BY <1>2, <1>3, <1>4, <1>5, <1>6, <1>7

\* failed attempts stay below the limit,
LEMMA FailsKeeps ==
  ASSUME AdminsInv, NEW i \in Registry!Identities, Registry!Fails(i)
  PROVE  failures' \in [Registry!Identities -> Seq(Nat)] /\ FewFailures'
<1>0. /\ aNow \in Nat /\ failures \in [Registry!Identities -> Seq(Nat)] /\ FewFailures
      /\ MaxFailures \in Nat \ {0}
  BY Admission DEF AdminsInv, AdminTypes, Registry!QQAdminsConstants
<1>1. PICK n \in 1 .. Len(failures[i]) + 1 :
        LET window == Append(SubSeq(failures[i], n, Len(failures[i])), aNow) IN
        IF Len(window) >= MaxFailures
        THEN failures' = [failures EXCEPT ![i] = <<>>]
        ELSE failures' = [failures EXCEPT ![i] = window]
  BY DEF Registry!Fails
<1> DEFINE s == SubSeq(failures[i], n, Len(failures[i]))  window == Append(s, aNow)
<1>2. s \in Seq(Nat)
  BY <1>0, <1>1
<1> HIDE DEF s
<1>3. window \in Seq(Nat) /\ Len(window) \in Nat
  BY <1>0, <1>2
<1>4. IF Len(window) >= MaxFailures
      THEN failures' = [failures EXCEPT ![i] = <<>>]
      ELSE failures' = [failures EXCEPT ![i] = window]
  BY <1>1 DEF s
<1> HIDE DEF window
<1>5. CASE failures' = [failures EXCEPT ![i] = <<>>]
  BY <1>0, <1>5 DEF FewFailures
<1>6. CASE failures' = [failures EXCEPT ![i] = window] /\ Len(window) < MaxFailures
  BY <1>0, <1>3, <1>6 DEF FewFailures
<1> QED BY <1>0, <1>3, <1>4, <1>5, <1>6

\* who registers uses a code up,
LEMMA RegistersKeeps ==
  ASSUME AdminsInv, NEW i \in Registry!Identities, NEW c \in Codes, Registry!Registers(i, c)
  PROVE  AdminsInv'
<1> USE DEF AdminsInv
<1>0. /\ aNow \in Nat /\ code \in [Codes -> CodeRecs]
      /\ used \in [Codes -> SUBSET Registry!Identities]
      /\ notices \in Seq(NoticeRecs) /\ Codes \subseteq Nat /\ MaxFailures \in Nat \ {0}
      /\ failures \in [Registry!Identities -> Seq(Nat)]
  BY Admission, CodesAreNumbers DEF AdminTypes, Registry!QQAdminsConstants
<1>1. /\ used' = [used EXCEPT ![c] = @ \cup {i}] /\ code' = [code EXCEPT ![c] = Registry!NoCode]
      /\ failures' = [failures EXCEPT ![i] = <<>>]
      /\ UNCHANGED <<aNow, minted, noticesTold, starts>>
      /\ registered' = registered \cup {i} /\ onDisk' \subseteq registered \cup {i} \cup onDisk
  BY DEF Registry!Registers, Registry!Spent, Registry!Published
<1>2. code[c].kind \in {"bootstrap", "group"} /\ used[c] = {} /\ code[c] # Registry!NoCode
  BY DEF Registry!Registers, Registry!Live, NewCodesAreFresh, Registry!NoCode
<1>3. used'[c] = {i} /\ \A d \in Codes : d # c => used'[d] = used[d]
  BY <1>0, <1>1, <1>2
<1>4. ClaimedIds' = ClaimedIds \cup {i}
  BY <1>2, <1>3 DEF ClaimedIds
<1>5. Registry!NoCode \in CodeRecs
  BY DEF Registry!NoCode, CodeRecs
<1>n. \/ notices' = notices /\ code[c].kind = "bootstrap"
      \/ /\ code[c].kind = "group"
         /\ notices' = Append(notices, [to |-> code[c].by, about |-> i, code |-> c])
  BY <1>2 DEF Registry!Registers
<1>6. AdminTypes'
  <2>1. [to |-> code[c].by, about |-> i, code |-> c] \in NoticeRecs
    BY <1>0 DEF NoticeRecs, CodeRecs
  <2>2. notices' \in Seq(NoticeRecs)
    <3> DEFINE n == [to |-> code[c].by, about |-> i, code |-> c]
    <3>1. n \in NoticeRecs /\ (notices' = notices \/ notices' = Append(notices, n))
      BY <1>n, <2>1
    <3>2. notices \in Seq(NoticeRecs)
      BY <1>0
    <3> HIDE DEF n
    <3>3. Append(notices, n) \in Seq(NoticeRecs)
      BY <3>1, <3>2
    <3> QED BY <3>1, <3>2, <3>3
  <2>3. failures' \in [Registry!Identities -> Seq(Nat)]
    BY <1>0, <1>1
  <2>4. used' \in [Codes -> SUBSET Registry!Identities] /\ code' \in [Codes -> CodeRecs]
    BY <1>0, <1>1, <1>5
  <2> QED BY <1>1, <2>2, <2>3, <2>4 DEF AdminTypes
<1>7. NewCodesAreFresh'
  <2>1. c <= minted /\ minted \in Nat /\ c \in Nat
    BY <1>0, <1>2, CodesAreNumbers DEF NewCodesAreFresh, AdminTypes
  <2>2. code'[c] = Registry!NoCode /\ \A d \in Codes : d # c => code'[d] = code[d]
    BY <1>0, <1>1
  <2> QED BY <1>1, <1>3, <2>1, <2>2 DEF NewCodesAreFresh
<1>8. CodesAreUsedOnce'
  BY <1>3 DEF CodesAreUsedOnce
<1>9. AdminsWereClaimed'
  <2>1. \A d \in Codes : code'[d].kind = "group" => code'[d] = code[d]
    BY <1>0, <1>1 DEF Registry!NoCode
  <2> QED BY <1>1, <1>4, <2>1 DEF AdminsWereClaimed
<1>10. NotesAreTrue'
  <2>1. \A n \in NoticeRecs : used[n.code] = {n.about} => used'[n.code] = {n.about}
    BY <1>2, <1>3 DEF NoticeRecs
  <2>2. \A n \in noticesTold : used'[n.code] = {n.about} /\ n.to \in ClaimedIds'
    BY <1>4, <2>1 DEF NotesAreTrue, AdminTypes
  <2>3. \A j \in 1 .. Len(notices) :
          used'[notices[j].code] = {notices[j].about} /\ notices[j].to \in ClaimedIds'
    <3>1. \A j \in 1 .. Len(notices) : notices[j] \in NoticeRecs
      BY <1>0
    <3> QED BY <1>4, <2>1, <3>1 DEF NotesAreTrue
  <2>4. CASE notices' = notices
    BY <1>1, <2>2, <2>3, <2>4 DEF NotesAreTrue
  <2>5. CASE /\ code[c].kind = "group"
             /\ notices' = Append(notices, [to |-> code[c].by, about |-> i, code |-> c])
    <3> DEFINE n == [to |-> code[c].by, about |-> i, code |-> c]
    <3>1. used'[n.code] = {n.about} /\ n.to \in ClaimedIds'
      BY <1>3, <1>4, <2>5 DEF AdminsWereClaimed
    <3> HIDE DEF n
    <3>2. /\ Len(notices') = Len(notices) + 1 /\ notices'[Len(notices) + 1] = n
          /\ Len(notices) \in Nat
          /\ \A j \in 1 .. Len(notices) : notices'[j] = notices[j]
      BY <1>0, <2>5 DEF n
    <3>3. \A j \in 1 .. Len(notices') : j \in 1 .. Len(notices) \/ j = Len(notices) + 1
      BY <3>2
    <3>4. \A j \in 1 .. Len(notices') :
            used'[notices'[j].code] = {notices'[j].about} /\ notices'[j].to \in ClaimedIds'
      BY <2>3, <3>1, <3>2, <3>3
    <3> QED BY <1>1, <2>2, <3>4 DEF NotesAreTrue
  <2> QED BY <1>n, <2>4, <2>5
<1>11. OneBootstrap'
  <2>1. \A d \in Codes : Registry!Live(d, "bootstrap")' => Registry!Live(d, "bootstrap") /\ d # c
    BY <1>0, <1>1 DEF Registry!Live, Registry!NoCode
  <2>2. CASE i \in PrivateIds /\ Registry!Live(c, "bootstrap")
    BY <2>1, <2>2 DEF OneBootstrap
  <2>3. CASE i \in GroupIds
    BY <1>1, <2>1, <2>3, Admission DEF OneBootstrap, Registry!QQAdminsConstants
  <2> QED BY <2>2, <2>3 DEF Registry!Registers
<1>12. FewFailures'
  BY <1>0, <1>1 DEF FewFailures
<1> QED BY <1>6, <1>7, <1>8, <1>9, <1>10, <1>11, <1>12

\* and an admin issues one that nobody has used.
LEMMA IssuesKeeps ==
  ASSUME AdminsInv, NEW i \in Registry!Identities, Registry!Issues(i)
  PROVE  AdminsInv'
<1> USE DEF AdminsInv
<1> DEFINE m == minted + 1
           b == [kind |-> "group", expires |-> aNow + GroupTTL, by |-> i]
<1>0. /\ aNow \in Nat /\ code \in [Codes -> CodeRecs] /\ Codes \subseteq Nat /\ minted \in Nat
      /\ m \in Codes /\ m \in 0 .. Cardinality(Codes)
  BY CodesAreNumbers, SameCount DEF AdminTypes, Registry!Issues
<1>1. /\ minted' = m /\ code' = [code EXCEPT ![m] = b] /\ i \in registered
      /\ UNCHANGED <<aNow, failures, used, registered, onDisk, notices, noticesTold, starts>>
  BY DEF Registry!Issues, Registry!MayAsk, Registry!people, Registry!answers
<1>2. b \in CodeRecs /\ b.kind = "group" /\ b.by = i
  BY <1>0, Admission DEF CodeRecs, Registry!QQAdminsConstants
<1> HIDE DEF b
<1>3. ClaimedIds' = ClaimedIds
  BY <1>1 DEF ClaimedIds
<1>4. AdminTypes'
  BY <1>0, <1>1, <1>2 DEF AdminTypes
<1>5. NewCodesAreFresh'
  <2>1. \A d \in Codes : d # m => code'[d] = code[d]
    BY <1>0, <1>1
  <2>2. used[m] = {} /\ \A d \in Codes : d \in Nat
    BY <1>0 DEF NewCodesAreFresh
  <2> QED BY <1>0, <1>1, <2>1, <2>2 DEF NewCodesAreFresh
<1>6. CodesAreUsedOnce' /\ NotesAreTrue' /\ FewFailures'
  BY <1>1, <1>3 DEF CodesAreUsedOnce, NotesAreTrue, FewFailures
<1>7. AdminsWereClaimed'
  BY <1>0, <1>1, <1>2, <1>3 DEF AdminsWereClaimed
<1>8. OneBootstrap'
  BY <1>0, <1>1, <1>2 DEF OneBootstrap, Registry!Live
<1> QED BY <1>4, <1>5, <1>6, <1>7, <1>8

\* Every step keeps the invariant.
LEMMA NextKeepsAdmins ==
  ASSUME AdminsInv, [Registry!Next]_Registry!vars
  PROVE  AdminsInv'
<1>0. /\ aNow \in Nat /\ code \in [Codes -> CodeRecs]
      /\ failures \in [Registry!Identities -> Seq(Nat)]
      /\ FewFailures /\ Registry!NoCode \in CodeRecs /\ MaxFailures \in Nat \ {0}
  BY Admission DEF AdminsInv, AdminTypes, Registry!NoCode, CodeRecs, Registry!QQAdminsConstants
<1>1. CASE Registry!Ticks
  <2>1. \A c \in Codes : Registry!Live(c, "bootstrap")' => Registry!Live(c, "bootstrap")
    BY <1>0, <1>1 DEF Registry!Live, Registry!Ticks, CodeRecs
  <2>2. OneBootstrap'
    BY <1>1, <2>1 DEF AdminsInv, OneBootstrap, Registry!Ticks, Registry!people
  <2>3. /\ UNCHANGED <<code, minted, failures, registered, onDisk, used, notices, noticesTold,
                      starts>>
        /\ aNow' \in Nat /\ ClaimedIds' = ClaimedIds
    BY <1>0, <1>1 DEF Registry!Ticks, ClaimedIds, Registry!people, Registry!answers
  <2>4. AdminTypes' /\ NewCodesAreFresh' /\ CodesAreUsedOnce' /\ FewFailures'
    BY <2>3 DEF AdminsInv, AdminTypes, NewCodesAreFresh, CodesAreUsedOnce, FewFailures
  <2>5. AdminsWereClaimed' /\ NotesAreTrue'
    BY <2>3 DEF AdminsInv, AdminsWereClaimed, NotesAreTrue
  <2> QED BY <2>2, <2>4, <2>5 DEF AdminsInv
<1>2. CASE Registry!Notifies
  <2>1. /\ notices \in Seq(NoticeRecs) /\ notices # <<>> /\ notices' = Tail(notices)
        /\ noticesTold' \subseteq noticesTold \cup {Head(notices)}
    BY <1>2 DEF Registry!Notifies, AdminsInv, AdminTypes
  <2>2. /\ UNCHANGED <<aNow, code, minted, failures, registered, onDisk, used, starts>>
        /\ ClaimedIds' = ClaimedIds
    BY <1>2 DEF Registry!Notifies, Registry!people, ClaimedIds
  <2>3. /\ notices' \in Seq(NoticeRecs) /\ Head(notices) = notices[1] /\ 1 \in 1 .. Len(notices)
        /\ \A j \in 1 .. Len(notices') : notices'[j] = notices[j + 1] /\ j + 1 \in 1 .. Len(notices)
    BY <2>1
  <2>4. NotesAreTrue'
    <3>0. NotesAreTrue
      BY DEF AdminsInv
    <3>1. ASSUME NEW j \in 1 .. Len(notices')
          PROVE  used[notices'[j].code] = {notices'[j].about} /\ notices'[j].to \in ClaimedIds
      <4>1. notices'[j] = notices[j + 1] /\ j + 1 \in 1 .. Len(notices)
        BY <2>3
      <4> QED BY <3>0, <4>1, Zenon DEF NotesAreTrue
    <3>2. ASSUME NEW n \in noticesTold'
          PROVE  used[n.code] = {n.about} /\ n.to \in ClaimedIds
      <4>1. CASE n \in noticesTold
        BY <3>0, <4>1, Zenon DEF NotesAreTrue
      <4>2. CASE n = notices[1]
        BY <2>3, <3>0, <4>2, Zenon DEF NotesAreTrue
      <4> QED BY <2>1, <2>3, <4>1, <4>2, Zenon
    <3> QED BY <2>2, <3>1, <3>2, Zenon DEF NotesAreTrue
  <2>5. noticesTold' \subseteq NoticeRecs
    BY <2>1, <2>3 DEF AdminsInv, AdminTypes
  <2> QED
    BY <2>2, <2>3, <2>4, <2>5
    DEF AdminsInv, AdminTypes, NewCodesAreFresh, CodesAreUsedOnce, AdminsWereClaimed,
        OneBootstrap, Registry!Live, FewFailures
<1>3. CASE Registry!Restarts
  <2> DEFINE codes == [c \in Codes |-> Registry!NoCode]
  <2>1. codes \in [Codes -> CodeRecs] /\ \A c \in Codes : codes[c] = Registry!NoCode
    BY <1>0
  <2>2. failures' \in [Registry!Identities -> Seq(Nat)] /\ FewFailures'
    BY <1>0, <1>3 DEF Registry!Restarts, FewFailures
  <2>3. /\ Registry!Becomes(codes, onDisk = {})
        /\ UNCHANGED <<aNow, used, noticesTold>> /\ notices' = <<>>
        /\ registered' = onDisk /\ onDisk' = onDisk /\ starts' \in Nat
    BY <1>3 DEF Registry!Restarts, AdminsInv, AdminTypes
  <2> QED BY <2>1, <2>2, <2>3, CodesChange
<1>4. ASSUME NEW i \in Registry!Identities, NEW c \in Codes \cup {0},
             Registry!ClaimsWrong(i, c) PROVE AdminsInv'
  <2> DEFINE codes == IF c = 0 THEN code ELSE [code EXCEPT ![c] = Registry!NoCode]
  <2>1. /\ codes \in [Codes -> CodeRecs]
        /\ \A d \in Codes : codes[d] = code[d] \/ codes[d] = Registry!NoCode
    BY <1>0
  <2>2. Registry!Becomes(codes, registered = {}) /\ Registry!Fails(i)
        /\ UNCHANGED <<aNow, used, noticesTold, notices, registered, onDisk>> /\ starts' \in Nat
    BY <1>4 DEF Registry!ClaimsWrong, Registry!people, Registry!answers, AdminsInv, AdminTypes
  <2> HIDE DEF codes
  <2>3. failures' \in [Registry!Identities -> Seq(Nat)] /\ FewFailures'
    BY <2>2, FailsKeeps
  <2> QED BY <2>1, <2>2, <2>3, CodesChange
<1>5. ASSUME NEW i \in Registry!Identities, NEW c \in Codes, Registry!Exposes(i, c) PROVE AdminsInv'
  <2> DEFINE codes == [code EXCEPT ![c] = Registry!NoCode]
  <2>1. /\ codes \in [Codes -> CodeRecs]
        /\ \A d \in Codes : codes[d] = code[d] \/ codes[d] = Registry!NoCode
    BY <1>0
  <2>2. Registry!Becomes(codes, registered = {})
        /\ UNCHANGED <<aNow, used, noticesTold, notices, registered, onDisk, failures>>
        /\ starts' \in Nat
    BY <1>5 DEF Registry!Exposes, Registry!people, Registry!answers, AdminsInv, AdminTypes
  <2> HIDE DEF codes
  <2> QED BY <1>0, <2>1, <2>2, CodesChange DEF FewFailures
<1>6. ASSUME NEW i \in Registry!Identities, NEW t \in Registry!Identities,
             Registry!Removes(i, t) PROVE AdminsInv'
  <2>1. /\ Registry!Becomes(code, registered' = {})
        /\ UNCHANGED <<aNow, used, noticesTold, notices, failures>>
        /\ registered' = registered \ {t} /\ (onDisk' = registered \ {t} \/ onDisk' = onDisk)
        /\ starts' \in Nat
    BY <1>6 DEF Registry!Removes, Registry!Published, Registry!answers, AdminsInv, AdminTypes
  <2> QED BY <1>0, <2>1, CodesChange DEF FewFailures
<1>7. CASE UNCHANGED Registry!vars
  <2>1. UNCHANGED <<aNow, code, minted, failures, registered, onDisk, used, notices, noticesTold,
                   starts>>
        /\ ClaimedIds' = ClaimedIds
    BY <1>7 DEF Registry!vars, Registry!people, Registry!answers, ClaimedIds
  <2>2. AdminTypes' /\ NewCodesAreFresh' /\ CodesAreUsedOnce' /\ FewFailures'
    BY <2>1 DEF AdminsInv, AdminTypes, NewCodesAreFresh, CodesAreUsedOnce, FewFailures
  <2>3. AdminsWereClaimed' /\ NotesAreTrue' /\ OneBootstrap'
    BY <2>1 DEF AdminsInv, AdminsWereClaimed, NotesAreTrue, OneBootstrap, Registry!Live
  <2> QED BY <2>2, <2>3 DEF AdminsInv
<1> QED BY <1>1, <1>2, <1>3, <1>4, <1>5, <1>6, <1>7, RegistersKeeps, IssuesKeeps DEF Registry!Next

\* The initial states satisfy it.
LEMMA InitAdmins == ASSUME Registry!Init PROVE AdminsInv
<1> USE Admission DEF Registry!Init
<1>1. Cardinality(Codes) \in Nat
  BY SameCount, FS_CardinalityType DEF Registry!QQAdminsConstants
<1>2. AdminTypes
  <2>1. code \in [Codes -> CodeRecs]
    BY DEF Registry!QQAdminsConstants, CodeRecs, Registry!NoCode
  <2>2. minted \in 0 .. Cardinality(Codes)
    BY CodesAreNumbers DEF Registry!QQAdminsConstants
  <2> QED BY <1>1, <2>1, <2>2 DEF AdminTypes
<1>3. NewCodesAreFresh /\ CodesAreUsedOnce /\ AdminsWereClaimed /\ NotesAreTrue
  BY
  DEF NewCodesAreFresh, CodesAreUsedOnce, AdminsWereClaimed, NotesAreTrue, Registry!NoCode,
      Registry!QQAdminsConstants
<1>4. OneBootstrap /\ FewFailures
  BY DEF OneBootstrap, FewFailures, Registry!Live, Registry!NoCode, Registry!QQAdminsConstants
<1> QED BY <1>2, <1>3, <1>4 DEF AdminsInv

\* It says that every admin has claimed.
LEMMA AdminsInvClaims == ASSUME AdminsInv PROVE Registry!AdminsHaveClaimed
<1>1. \A c \in Codes : Cardinality(used[c]) <= 1
  <2> SUFFICES ASSUME NEW c \in Codes PROVE Cardinality(used[c]) <= 1
    OBVIOUS
  <2>1. CASE used[c] = {}
    BY <2>1, FS_EmptySet
  <2>2. ASSUME NEW i \in Registry!Identities, used[c] = {i} PROVE Cardinality(used[c]) <= 1
    <3>1. Cardinality({i}) = 1
      BY FS_Singleton
    <3> QED BY <2>2, <3>1
  <2> QED BY <2>1, <2>2 DEF AdminsInv, CodesAreUsedOnce
<1> QED
  BY <1>1, SameCount
  DEF AdminsInv, Registry!AdminsHaveClaimed, AdminsWereClaimed, NotesAreTrue, OneBootstrap,
      ClaimedIds

\* No step registers who is locked out.
LEMMA LockedStep ==
  ASSUME AdminsInv, [Registry!Next]_Registry!vars, ~UNCHANGED Registry!vars
  PROVE  /\ \A i \in Registry!Identities :
               Registry!IsLocked(i) /\ starts' = starts => i \notin registered' \ registered
         /\ \A i \in Registry!Identities : Len(failures'[i]) < MaxFailures
<1>1. \A i \in Registry!Identities : Len(failures'[i]) < MaxFailures
  BY NextKeepsAdmins DEF AdminsInv, FewFailures
<1>2. ASSUME NEW i \in Registry!Identities, Registry!IsLocked(i), starts' = starts,
             i \in registered' \ registered
      PROVE  FALSE
  <2>1. ~Registry!Restarts /\ registered' # registered
    BY <1>2 DEF Registry!Restarts, AdminsInv, AdminTypes
  <2>2. \/ \E j \in Registry!Identities, c \in Codes : Registry!Registers(j, c)
        \/ \E j \in Registry!Identities, t \in Registry!Identities : Registry!Removes(j, t)
    BY <2>1
    DEF Registry!Next, Registry!Ticks, Registry!Notifies, Registry!ClaimsWrong, Registry!Exposes,
        Registry!Issues, Registry!people
  <2> QED BY <1>2, <2>2
    DEF Registry!Registers, Registry!Removes, Registry!Published, Registry!MayTry
<1> QED BY <1>1, <1>2

\* Every admin has registered with a code of its own,
LEMMA AdminsClaim == Registry!Spec => []Registry!AdminsHaveClaimed
  BY InitAdmins, NextKeepsAdmins, AdminsInvClaims, PTL DEF Registry!Spec
\* and nobody does who has failed too often.
LEMMA LockedOut == Registry!Spec => Registry!LockedStayOut
<1>1. AdminsInv /\ [Registry!Next]_Registry!vars =>
        [/\ \A i \in Registry!Identities :
              Registry!IsLocked(i) /\ starts' = starts => i \notin registered' \ registered
         /\ \A i \in Registry!Identities : Len(failures'[i]) < MaxFailures]_Registry!vars
  BY LockedStep
<1> QED BY InitAdmins, NextKeepsAdmins, <1>1, PTL DEF Registry!Spec, Registry!LockedStayOut

-----------------------------------------------------------------------------
(* What comes in: QQInbound *)

Here(e) == e \in Events /\ event[e].kind \in In!Kinds

EventRecs == {In!NoEvent} \cup [kind : In!Kinds, chat : Chats, stamped : BOOLEAN]

InboundTypes ==
  /\ event \in [Events -> EventRecs]
  /\ of \in [Deliveries -> Events \cup {0}]
  /\ at \in [Deliveries -> {"idle", "due", "notice", "hand", "ack", "over"}]
  /\ given \in [Events -> Nat]

DeliveriesAreKnown ==
  \A d \in Deliveries :
    /\ at[d] \in {"due", "ack"} => Here(of[d])
    /\ at[d] = "ack" => event[of[d]].kind \in {"click", "query"}

SeenWasHandled ==
  /\ \A e \in DOMAIN known.value :
       Here(e) /\ (given[e] > 0 \/ event[e].kind \in {"blocked", "admin"})
  /\ \A e \in Events :
       /\ given[e] > 0 => event[e].kind \in {"message", "click"}
       /\ event[e].kind = "message" /\ e \notin dropped =>
            given[e] <= 1 /\ (given[e] = 1 => In!Has(known, e))

RepliesFit ==
  /\ latest.order = stamp.order /\ DOMAIN latest.value = DOMAIN stamp.value
  /\ \A c \in DOMAIN latest.value :
       LET e == latest.value[c] IN
       Here(e) /\ event[e].chat = c /\ stamp.value[c] = IF event[e].stamped THEN e ELSE 0
  /\ \A e \in DOMAIN byId.value : Here(e) /\ byId.value[e] = event[e].chat

FileIsSetting == saved => file = setting

InboundInv ==
  InboundTypes /\ DeliveriesAreKnown /\ SeenWasHandled /\ RepliesFit /\ FileIsSetting

\* remember_session writes three dicts that fit together.
LEMMA RemembersKeeps ==
  ASSUME RepliesFit, NEW e, Here(e), In!Remembers(e), UNCHANGED event
  PROVE  RepliesFit'
<1> DEFINE c == event[e].chat  v == IF event[e].stamped THEN e ELSE 0
<1>1. /\ latest' = In!Put(latest, c, e, StateSize) /\ stamp' = In!Put(stamp, c, v, StateSize)
      /\ byId' = In!Put(byId, e, c, StateSize)
  BY DEF In!Remembers, In!Stamped
<1>2. In!Written(latest, c) = In!Written(stamp, c)
  BY DEF RepliesFit, In!Written
<1>3. In!Evicted(latest, c, StateSize) = In!Evicted(stamp, c, StateSize)
  BY <1>2 DEF In!Evicted
<1>4. latest'.order = stamp'.order
  BY <1>1, <1>2, <1>3 DEF In!Put
<1>5. DOMAIN latest'.value = DOMAIN stamp'.value
  BY <1>1, <1>3 DEF In!Put, RepliesFit
<1>6. \A b \in DOMAIN latest'.value :
        LET f == latest'.value[b] IN
        Here(f) /\ event[f].chat = b /\ stamp'.value[b] = IF event[f].stamped THEN f ELSE 0
  <2> SUFFICES ASSUME NEW b \in DOMAIN latest'.value
               PROVE  LET f == latest'.value[b] IN
                      /\ Here(f) /\ event[f].chat = b
                      /\ stamp'.value[b] = IF event[f].stamped THEN f ELSE 0
    OBVIOUS
  <2>1. b \in DOMAIN stamp'.value
    BY <1>5
  <2>2. CASE b = c
    <3>1. latest'.value[b] = e /\ stamp'.value[b] = v
      BY <1>1, <2>1, <2>2 DEF In!Put
    <3> QED BY <2>2, <3>1
  <2>3. CASE b # c
    <3>1. b \in DOMAIN latest.value /\ latest'.value[b] = latest.value[b]
          /\ stamp'.value[b] = stamp.value[b]
      BY <1>1, <2>1, <2>3 DEF In!Put
    <3> QED BY <3>1 DEF RepliesFit
  <2> QED BY <2>2, <2>3
<1>7. \A f \in DOMAIN byId'.value : Here(f) /\ byId'.value[f] = event[f].chat
  <2> SUFFICES ASSUME NEW f \in DOMAIN byId'.value PROVE Here(f) /\ byId'.value[f] = event[f].chat
    OBVIOUS
  <2>1. \/ f = e /\ byId'.value[f] = c
        \/ f \in DOMAIN byId.value /\ byId'.value[f] = byId.value[f]
    BY <1>1 DEF In!Put
  <2> QED BY <2>1 DEF RepliesFit
<1> QED BY <1>4, <1>5, <1>6, <1>7 DEF RepliesFit, Here

\* An event that is noted as seen is handled by the same step.
LEMMA SeenKeeps ==
  ASSUME InboundInv, NEW e, Here(e), UNCHANGED event, ~In!Has(known, e),
         known' = In!Seen(e), dropped' = dropped \cup In!Evicted(known, e, DedupeSize),
         \/ given' = [given EXCEPT ![e] = @ + 1] /\ event[e].kind = "message"
         \/ given' = given /\ event[e].kind \in {"blocked", "admin"}
  PROVE  SeenWasHandled'
<1> USE DEF InboundInv
<1>1. /\ given \in [Events -> Nat] /\ e \in Events /\ given' \in [Events -> Nat]
      /\ \A f \in Events : f # e => given'[f] = given[f]
      /\ given'[e] >= given[e]
  BY DEF InboundTypes, Here
<1>2. /\ \A f \in DOMAIN known'.value : f = e \/ f \in DOMAIN known.value
      /\ \A f \in DOMAIN known.value \cup {e} :
           f \in DOMAIN known'.value \/ f \in In!Evicted(known, e, DedupeSize)
  BY DEF In!Seen, In!Put
<1>3. \A f \in DOMAIN known'.value :
        Here(f) /\ (given'[f] > 0 \/ event[f].kind \in {"blocked", "admin"})
  <2> SUFFICES ASSUME NEW f \in DOMAIN known'.value
               PROVE  Here(f) /\ (given'[f] > 0 \/ event[f].kind \in {"blocked", "admin"})
    OBVIOUS
  <2>1. CASE f = e
    BY <1>1, <2>1
  <2>2. CASE f # e
    BY <1>1, <1>2, <2>2 DEF SeenWasHandled, Here
  <2> QED BY <2>1, <2>2
<1>4. ASSUME NEW f \in Events
      PROVE  /\ given'[f] > 0 => event[f].kind \in {"message", "click"}
             /\ event[f].kind = "message" /\ f \notin dropped' =>
                  given'[f] <= 1 /\ (given'[f] = 1 => In!Has(known', f))
  <2>1. CASE f = e
    <3>1. given'[f] > 0 => event[f].kind \in {"message", "click"}
      BY <1>1, <2>1 DEF SeenWasHandled
    <3>2. event[f].kind = "message" /\ f \notin dropped' => given[f] = 0
      BY <1>1, <2>1 DEF SeenWasHandled
    <3>3. f \notin dropped' => In!Has(known', f)
      BY <1>2, <2>1 DEF In!Has
    <3> QED BY <1>1, <2>1, <3>1, <3>2, <3>3
  <2>2. CASE f # e
    <3>1. f \notin dropped' => (In!Has(known, f) => In!Has(known', f)) /\ f \notin dropped
      BY <1>2 DEF In!Has
    <3> QED BY <1>1, <2>2, <3>1 DEF SeenWasHandled
  <2> QED BY <2>1, <2>2
<1> QED BY <1>3, <1>4 DEF SeenWasHandled, Here

\* QQ sends an event, again perhaps.
LEMMA PostsKeeps ==
  ASSUME InboundInv, NEW e \in Events, In!Posts(e)
  PROVE  InboundInv'
<1> USE DEF InboundInv
<1>1. PICK d \in Deliveries :
        at[d] = "idle" /\ at' = [at EXCEPT ![d] = "due"] /\ of' = [of EXCEPT ![d] = e]
  BY DEF In!Posts
<1>2. /\ UNCHANGED <<known, latest, stamp, byId, given, dropped, setting, file, saved>>
      /\ \/ event[e] # In!NoEvent /\ UNCHANGED event
         \/ /\ event[e] = In!NoEvent
            /\ \E k \in In!Kinds, c \in Chats, s \in BOOLEAN :
                 event' = [event EXCEPT ![e] = [kind |-> k, chat |-> c, stamped |-> s]]
  BY DEF In!Posts, In!state, In!store
<1>3. /\ event' \in [Events -> EventRecs]
      /\ \A f \in Events : event'[f] = event[f] \/ event[f] = In!NoEvent
      /\ event'[e].kind \in In!Kinds
  BY <1>2 DEF InboundTypes, EventRecs
<1>4. \A f : Here(f) => Here(f)' /\ event'[f] = event[f]
  BY <1>3 DEF Here, In!NoEvent, In!Kinds
<1>5. InboundTypes'
  BY <1>1, <1>2, <1>3 DEF InboundTypes
<1>6. DeliveriesAreKnown'
  <2> SUFFICES ASSUME NEW b \in Deliveries
               PROVE  /\ at'[b] \in {"due", "ack"} => Here(of[b])'
                      /\ at'[b] = "ack" => event'[of'[b]].kind \in {"click", "query"}
    BY DEF DeliveriesAreKnown
  <2>1. CASE b = d
    BY <1>1, <1>3, <2>1 DEF InboundTypes, Here
  <2>2. CASE b # d
    BY <1>1, <1>4, <2>2 DEF InboundTypes, DeliveriesAreKnown
  <2> QED BY <2>1, <2>2
<1>7. SeenWasHandled'
  <2>1. \A f \in DOMAIN known.value :
          Here(f)' /\ (given[f] > 0 \/ event'[f].kind \in {"blocked", "admin"})
    BY <1>4 DEF SeenWasHandled
  <2>2. \A f \in Events : given[f] > 0 => event'[f].kind \in {"message", "click"}
    BY <1>4 DEF SeenWasHandled, Here, In!Kinds
  <2>3. \A f \in Events : event'[f].kind = "message" /\ f \notin dropped =>
                            given[f] <= 1 /\ (given[f] = 1 => In!Has(known, f))
    <3> SUFFICES ASSUME NEW f \in Events, event'[f].kind = "message", f \notin dropped
                 PROVE  given[f] <= 1 /\ (given[f] = 1 => In!Has(known, f))
      OBVIOUS
    <3>1. CASE event'[f] = event[f]
      BY <3>1 DEF SeenWasHandled
    <3>2. CASE event[f] = In!NoEvent
      BY <3>2 DEF SeenWasHandled, In!NoEvent, InboundTypes
    <3> QED BY <1>3, <3>1, <3>2
  <2> QED BY <1>2, <2>1, <2>2, <2>3 DEF SeenWasHandled, In!Has
<1>8. RepliesFit'
  BY <1>2, <1>4 DEF RepliesFit
<1>9. FileIsSetting'
  BY <1>2 DEF FileIsSetting
<1> QED BY <1>5, <1>6, <1>7, <1>8, <1>9

\* A delivery goes on, and each part of the state is kept.
LEMMA Goes ==
  ASSUME InboundInv, UNCHANGED <<event, of>>,
         NEW d \in Deliveries, NEW to \in {"notice", "hand", "ack", "over"},
         at' = [at EXCEPT ![d] = to], to = "ack" =>
           Here(of[d]) /\ event[of[d]].kind \in {"click", "query"},
         given' \in [Events -> Nat], SeenWasHandled', RepliesFit', FileIsSetting'
  PROVE  InboundInv'
<1>1. InboundTypes'
  BY DEF InboundInv, InboundTypes
<1>2. DeliveriesAreKnown'
  BY DEF InboundInv, InboundTypes, DeliveriesAreKnown, Here
<1> QED BY <1>1, <1>2 DEF InboundInv

\* The deduper is left alone,
LEMMA SameSeen ==
  ASSUME InboundInv, UNCHANGED <<event, known, given, dropped>> PROVE SeenWasHandled'
  BY DEF InboundInv, SeenWasHandled, Here, In!Has
\* the contexts of replies,
LEMMA SameReplies ==
  ASSUME InboundInv, UNCHANGED <<event, latest, stamp, byId>> PROVE RepliesFit'
  BY DEF InboundInv, RepliesFit, Here
\* the store.
LEMMA SameStore ==
  ASSUME InboundInv, UNCHANGED In!store PROVE FileIsSetting'
  BY DEF InboundInv, FileIsSetting, In!store

\* A message is dropped, answered or handed over.
LEMMA RunsMessageKeeps ==
  ASSUME InboundInv, NEW d \in Deliveries, In!RunsMessage(d) PROVE InboundInv'
<1> DEFINE e == of[d]
<1>1. Here(e) /\ given \in [Events -> Nat] /\ e \in Events
  BY DEF InboundInv, DeliveriesAreKnown, In!RunsMessage, InboundTypes, Here
<1>2. UNCHANGED <<event, of, In!store>>
  BY DEF In!RunsMessage
<1>3. FileIsSetting'
  BY <1>2, SameStore
<1>4. CASE at' = [at EXCEPT ![d] = "over"] /\ UNCHANGED In!state
  <2>1. UNCHANGED <<known, given, dropped, latest, stamp, byId>>
    BY <1>4 DEF In!state
  <2> QED BY <1>1, <1>2, <1>3, <1>4, <2>1, Goes, SameSeen, SameReplies
<1>5. CASE /\ In!Admits(d, IF event[e].kind = "admin" THEN "notice" ELSE "hand")
           /\ event[e].kind \in {"message", "blocked", "admin"} /\ ~In!Has(known, e)
  <2>1. known' = In!Seen(e) /\ dropped' = dropped \cup In!Evicted(known, e, DedupeSize)
    BY <1>5 DEF In!Admits
  <2>2. CASE event[e].kind = "blocked"
    <3>1. at' = [at EXCEPT ![d] = "over"] /\ UNCHANGED <<latest, stamp, byId, given>>
      BY <1>5, <2>2 DEF In!Admits
    <3>2. SeenWasHandled'
      BY <1>1, <1>2, <1>5, <2>1, <2>2, <3>1, SeenKeeps
    <3> QED BY <1>1, <1>2, <1>3, <3>1, <3>2, Goes, SameReplies
  <2>3. CASE event[e].kind = "admin"
    <3>1. at' = [at EXCEPT ![d] = "notice"] /\ given' = given /\ In!Remembers(e)
      BY <1>5, <2>3 DEF In!Admits
    <3>2. SeenWasHandled'
      BY <1>1, <1>2, <1>5, <2>1, <2>3, <3>1, SeenKeeps
    <3>3. RepliesFit'
      BY <1>1, <1>2, <3>1, RemembersKeeps DEF InboundInv
    <3> QED BY <1>1, <1>2, <1>3, <3>1, <3>2, <3>3, Goes
  <2>4. CASE event[e].kind = "message"
    <3>1. at' = [at EXCEPT ![d] = "hand"] /\ given' = [given EXCEPT ![e] = @ + 1] /\ In!Remembers(e)
      BY <1>5, <2>4 DEF In!Admits
    <3>2. SeenWasHandled'
      BY <1>1, <1>2, <1>5, <2>1, <2>4, <3>1, SeenKeeps
    <3>3. RepliesFit'
      BY <1>1, <1>2, <3>1, RemembersKeeps DEF InboundInv
    <3>4. given' \in [Events -> Nat]
      BY <1>1, <3>1
    <3> QED BY <1>2, <1>3, <3>1, <3>2, <3>3, <3>4, Goes
  <2> QED BY <1>5, <2>2, <2>3, <2>4
<1> QED BY <1>4, <1>5 DEF In!RunsMessage, In!IsMessage

\* A click is acknowledged and handed over.
LEMMA AcksKeeps ==
  ASSUME InboundInv, NEW d \in Deliveries, In!Acks(d) PROVE InboundInv'
<1> DEFINE e == of[d]
<1>1. Here(e) /\ given \in [Events -> Nat] /\ e \in Events /\ event[e].kind \in {"click", "query"}
  BY DEF InboundInv, DeliveriesAreKnown, In!Acks, InboundTypes, Here
<1>2. UNCHANGED <<event, of, known, dropped, In!store>>
  BY DEF In!Acks
<1>3. FileIsSetting'
  BY <1>2, SameStore
<1>4. CASE event[e].kind = "click"
  <2>1. /\ at' = [at EXCEPT ![d] = "hand"] /\ In!Remembers(e)
        /\ given' = [given EXCEPT ![e] = @ + 1]
    BY <1>4 DEF In!Acks
  <2>2. RepliesFit'
    BY <1>1, <1>2, <2>1, RemembersKeeps DEF InboundInv
  <2>3. SeenWasHandled'
    <3>1. given' \in [Events -> Nat] /\ \A f \in Events : f # e => given'[f] = given[f]
      BY <1>1, <2>1
    <3>2. given'[e] > 0
      BY <1>1, <2>1
    <3> QED BY <1>1, <1>2, <1>4, <3>1, <3>2 DEF InboundInv, SeenWasHandled, Here, In!Has
  <2>4. given' \in [Events -> Nat]
    BY <1>1, <2>1
  <2> QED BY <1>2, <1>3, <2>1, <2>2, <2>3, <2>4, Goes
<1>5. CASE event[e].kind # "click"
  <2>1. at' = [at EXCEPT ![d] = "over"] /\ UNCHANGED <<latest, stamp, byId, given>>
    BY <1>5 DEF In!Acks
  <2> QED BY <1>1, <1>2, <1>3, <2>1, Goes, SameSeen, SameReplies
<1> QED BY <1>4, <1>5

\* Every step keeps the invariant.
LEMMA NextKeepsInbound ==
  ASSUME InboundInv, [In!Next]_In!vars
  PROVE  InboundInv'
<1>0. given \in [Events -> Nat]
  BY DEF InboundInv, InboundTypes
<1>1. ASSUME NEW e \in Events, In!Posts(e) PROVE InboundInv'
  BY <1>1, PostsKeeps
<1>2. CASE In!Stops \/ UNCHANGED In!vars
  <2>1. UNCHANGED <<event, of, at, given, known, dropped, latest, stamp, byId, In!store>>
    BY <1>2 DEF In!Stops, In!vars, In!flow, In!state
  <2>2. InboundTypes' /\ DeliveriesAreKnown'
    BY <2>1 DEF InboundInv, InboundTypes, DeliveriesAreKnown, Here
  <2> QED BY <2>1, <2>2, SameSeen, SameReplies, SameStore DEF InboundInv
<1>3. CASE In!Restarts
  <2>1. InboundTypes'
    BY <1>3 DEF In!Restarts, InboundInv, InboundTypes
  <2>2. DeliveriesAreKnown'
    BY <1>3 DEF In!Restarts, DeliveriesAreKnown, InboundInv, InboundTypes
  <2>3. SeenWasHandled'
    BY <1>3 DEF In!Restarts, SeenWasHandled, InboundInv, In!EmptyDict
  <2>4. RepliesFit' /\ FileIsSetting'
    BY <1>3 DEF In!Restarts, RepliesFit, FileIsSetting, In!EmptyDict
  <2> QED BY <2>1, <2>2, <2>3, <2>4 DEF InboundInv
<1>4. ASSUME NEW d \in Deliveries, In!Ends(d) PROVE InboundInv'
  <2>1. UNCHANGED <<event, of, given, known, dropped, latest, stamp, byId, In!store>>
        /\ at' = [at EXCEPT ![d] = "over"]
    BY <1>4 DEF In!Ends, In!state
  <2> QED BY <1>0, <2>1, Goes, SameSeen, SameReplies, SameStore
<1>5. ASSUME NEW d \in Deliveries, In!RunsToggle(d) PROVE InboundInv'
  <2>1. UNCHANGED <<event, of, given, known, dropped, latest, stamp, byId>>
        /\ at' = [at EXCEPT ![d] = "over"]
    BY <1>5 DEF In!RunsToggle, In!state
  <2>2. FileIsSetting'
    BY <1>5 DEF In!RunsToggle, In!Saves, FileIsSetting
  <2> QED BY <1>0, <2>1, <2>2, Goes, SameSeen, SameReplies
<1>6. ASSUME NEW d \in Deliveries, In!RunsInteraction(d) PROVE InboundInv'
  <2>1. UNCHANGED <<event, of, given, known, dropped, latest, stamp, byId>>
        /\ at' = [at EXCEPT ![d] = "ack"]
        /\ Here(of[d]) /\ event[of[d]].kind \in {"click", "query"}
    BY <1>6 DEF In!RunsInteraction, In!state, InboundInv, DeliveriesAreKnown
  <2>2. FileIsSetting'
    BY <1>6 DEF In!RunsInteraction, In!Saves, FileIsSetting, InboundInv, In!store
  <2> QED BY <1>0, <2>1, <2>2, Goes, SameSeen, SameReplies
<1> QED
  BY <1>1, <1>2, <1>3, <1>4, <1>5, <1>6, RunsMessageKeeps, AcksKeeps DEF In!Next

\* The initial states satisfy it.
LEMMA InitInbound == ASSUME In!Init PROVE InboundInv
  BY
  DEF In!Init, InboundInv, InboundTypes, EventRecs, DeliveriesAreKnown, SeenWasHandled,
      RepliesFit, FileIsSetting, In!EmptyDict, In!Has, In!NoEvent, In!Kinds

\* It implies what is promised of events and replies.
LEMMA InboundInvKeeps == ASSUME InboundInv PROVE In!HandedOnce /\ In!ContextIsKept
<1>1. In!HandedOnce
  BY DEF InboundInv, SeenWasHandled, In!HandedOnce, In!Has, InboundTypes
<1>2. In!ContextIsKept
  BY DEF InboundInv, RepliesFit, FileIsSetting, In!ContextIsKept
<1> QED BY <1>1, <1>2

\* Messages are handed over once and replies find what they need.
LEMMA EventsKept == In!Spec => [](In!HandedOnce /\ In!ContextIsKept)
  BY InitInbound, NextKeepsInbound, InboundInvKeeps, PTL DEF In!Spec

-----------------------------------------------------------------------------

\* What TLC explores, one part at a time, are behaviours of each part.
LEMMA PartsRunAlone == PartsSpec => In!Spec /\ Registry!Spec /\ Guarded!Spec
<1>1. PartsInit => In!Init /\ Registry!Init /\ Guarded!Init
  BY DEF PartsInit
<1>2. [PartsNext]_allVars => [In!Next]_In!vars
  <2> SUFFICES ASSUME [PartsNext]_allVars PROVE [In!Next]_In!vars
    OBVIOUS
  <2>1. CASE UNCHANGED inVars
    BY <2>1 DEF inVars, In!vars, In!flow, In!state, In!store
  <2>2. CASE InboundNext
    BY <2>2 DEF InboundNext, OfInbound, In!Next
  <2> QED
    BY <2>1, <2>2
    DEF PartsNext, ApprovalNext, AdminsNext, TurnsNext, OfApproval, OfAdmins, OfTurns, allVars
<1>3. [PartsNext]_allVars => [Registry!Next]_Registry!vars
  <2> SUFFICES ASSUME [PartsNext]_allVars PROVE [Registry!Next]_Registry!vars
    OBVIOUS
  <2>1. CASE UNCHANGED adminVars
    BY <2>1 DEF adminVars, Registry!vars, Registry!people, Registry!answers
  <2>2. CASE AdminsNext
    BY <2>2 DEF AdminsNext, OfAdmins, Registry!Next
  <2> QED
    BY <2>1, <2>2
    DEF PartsNext, ApprovalNext, InboundNext, TurnsNext, OfApproval, OfInbound, OfTurns, allVars
<1>4. [PartsNext]_allVars => [Guarded!Next]_Guarded!vars
  <2> SUFFICES ASSUME [PartsNext]_allVars PROVE [Guarded!Next]_Guarded!vars
    OBVIOUS
  <2>1. CASE UNCHANGED turnVars
    BY <2>1 DEF turnVars, Guarded!vars, Guarded!context, Guarded!limits
  <2>2. CASE TurnsNext
    BY <2>2 DEF TurnsNext, OfTurns, Guarded!Next, Mine, Tools, Guarded!Sessions
  <2> QED
    BY <2>1, <2>2
    DEF PartsNext, ApprovalNext, InboundNext, AdminsNext, OfApproval, OfInbound, OfAdmins, allVars
<1> QED
  BY <1>1, <1>2, <1>3, <1>4, PTL DEF PartsSpec, In!Spec, Registry!Spec, Guarded!Spec

\* A message is handed over once, replies find their context, every admin has a code of its
\* own and nobody is served more often than the limit allows, for any number of events,
\* deliveries, people, codes and turns and any sizes of the dicts: QQInboundDeduper.seen,
\* remember_session, AdminRegistry._claim, SlidingWindowRateLimiter.allow.
THEOREM AdmissionKept == In!Spec /\ Registry!Spec /\ Guarded!Spec => []AdmissionIsKept
<1>1. In!HandedOnce /\ In!ContextIsKept /\ Registry!AdminsHaveClaimed /\ Guarded!RateIsKept
      => AdmissionIsKept
  BY DEF AdmissionIsKept
<1> QED BY <1>1, EventsKept, AdminsClaim, RatesKept, PTL

\* Who has failed too often registers nothing until the lockout is over, and what needs an
\* admin runs only in turns in which nobody but admins has a word, whoever merges messages,
\* comes, goes or is locked out meanwhile: _record_failure, _batch_senders, is_admin.
THEOREM StrangersStayOut == Registry!Spec /\ Guarded!Spec => StrangersRunNothing
  BY LockedOut, TurnsRunNothing DEF StrangersRunNothing

-----------------------------------------------------------------------------
(***************************************************************************)
(* How an approval ended is told once.  An approval that was asked for is  *)
(* pending, in a click, with its command, or recorded, one at a time; what *)
(* is recorded is queued until it is told or pushed out.                   *)
(***************************************************************************)
Distinct(q) == \A i, j \in 1 .. Len(q) : q[i] = q[j] => i = j
Lists(q, x) == \E i \in 1 .. Len(q) : q[i] = x

AskedFor == {a \in Approvals : card[a] # "unused"}
Clicked(a) == \E c \in Clicks : click[c].id = a
Going == {"queued", "running", "refused"}

OutcomeTypes ==
  /\ command \in [Approvals -> {"none", "queued", "running", "refused", "done"}]
  /\ reported \in [Approvals -> Seq(OutcomeStatuses)]
  /\ told \in [Approvals -> {0, 1}]
  /\ IsBoundedDict(pending, MaxPending) /\ pending.order \in Seq(Approvals)
  /\ IsBoundedDict(outcomes, MaxPending) /\ outcomes.order \in Seq(Sessions)
  /\ \A s \in DOMAIN outcomes.value : outcomes.value[s] \in Seq(Approvals)

\* What nobody asked for has no history.
UnusedAreNew ==
  /\ IsFiniteSet(AskedFor)
  /\ \A a \in Approvals :
       IF card[a] = "unused"
       THEN command[a] = "none" /\ reported[a] = <<>> /\ told[a] = 0 /\ ~Clicked(a)
       ELSE key[a] \in Keys

\* An approval is in one place: pending, in a click, with its command.
StagesExclude ==
  /\ \A a \in Approvals :
       /\ Has(pending, a) => ~Clicked(a) /\ command[a] = "none" /\ reported[a] = <<>>
       /\ Clicked(a) => command[a] = "none" /\ reported[a] = <<>>
       /\ command[a] \in Going => reported[a] = <<>>
  /\ \A c \in Clicks :
       /\ click[c].at = "idle" <=> click[c].id = NoApproval
       /\ \A d \in Clicks : click[c].id # NoApproval /\ click[d].id = click[c].id => d = c

RanFor(a) == \E b \in Approvals : key[b] = key[a] /\ ran[b] = 1

\* One outcome is recorded of an approval: denied and expired ones were not
\* issued, one that ran has a call that did.
ReportsAreTrue ==
  \A a \in Approvals :
    /\ Len(reported[a]) <= 1
    /\ \A i \in 1 .. Len(reported[a]) :
         /\ reported[a][i] \in {"denied", "expired"} => issuedAt[a] = Never
         /\ reported[a][i] = "ran" => RanFor(a)
    /\ command[a] = "running" => RanFor(a)

\* A queue holds what was recorded of its session and not told.
QueuesFit ==
  \A s \in DOMAIN outcomes.value :
    LET q == outcomes.value[s] IN
    /\ q # <<>> /\ Len(q) <= Kept /\ Distinct(q)
    /\ \A i \in 1 .. Len(q) :
         reported[q[i]] # <<>> /\ told[q[i]] = 0 /\ key[q[i]].session = s

\* What is recorded was told, waits, or was pushed out.
EndsAreKept ==
  \A a \in Approvals :
    /\ told[a] = 1 => reported[a] # <<>>
    /\ reported[a] # <<>> =>
         told[a] = 1 \/ Lists(QueueOf(key[a].session), a) \/ PushedOut(a) \/ CrowdedOut(a)

\* An approval with a card is in one of its places, or pushed out.
NothingVanishes ==
  \A a \in Approvals : card[a] \in {"sending", "posted"} =>
    \/ Has(pending, a) \/ Clicked(a) \/ command[a] \in Going
    \/ reported[a] # <<>> \/ CrowdedOut(a)

OutcomesInv ==
  /\ IInv /\ OutcomeTypes /\ UnusedAreNew /\ StagesExclude /\ ReportsAreTrue
  /\ QueuesFit /\ EndsAreKept /\ NothingVanishes

\* Induction by the least counterexample, as the library's theorem on numbers takes an operator.
LEMMA NatOrder == \E R : IsWellFoundedOn(R, Nat) /\ \A x, y \in Nat : x < y => <<x, y>> \in R
<1>1. IsWellFoundedOn(OpToRel(<, Nat), Nat)
  BY NatLessThanWellFounded, Zenon
<1>2. \A x, y \in Nat : x < y => <<x, y>> \in OpToRel(<, Nat)
  BY DEF OpToRel
<1> QED BY <1>1, <1>2, Zenon

\* A set of numbers has a least one.
LEMMA LeastOf ==
  ASSUME NEW S, S \subseteq Nat, S # {} PROVE \E m \in S : \A k \in S : m <= k
<1>1. PICK R : IsWellFoundedOn(R, Nat) /\ \A x, y \in Nat : x < y => <<x, y>> \in R
  BY NatOrder
<1>2. \A T \in SUBSET Nat : T # {} => \E x \in T : \A y \in T : ~ (<<y, x>> \in R)
  <2>1. IsWellFoundedOn(R, Nat)
    BY <1>1
  <2> TAKE T \in SUBSET Nat
  <2> HAVE T # {}
  <2>2. T \subseteq Nat
    OBVIOUS
  <2> QED BY <2>1, <2>2, WFMin
<1>3. PICK x \in S : \A y \in S : ~ (<<y, x>> \in R)
  BY <1>2
<1>4. \A y \in S : ~(y < x)
  BY <1>1, <1>3
<1> QED BY <1>3, <1>4

\* f[m] is what a filter keeps of the first m elements.
Filters(f, n, seq, S, T) ==
  /\ f \in [0 .. n -> Seq(T)] /\ f[0] = <<>>
  /\ \A m \in 1 .. n :
       f[m] = IF seq[m] \in S THEN Append(f[m - 1], seq[m]) ELSE f[m - 1]

LEMMA FilterGrows ==
  ASSUME NEW T, NEW seq \in Seq(T), NEW S, NEW n \in 1 .. Len(seq), NEW f,
         Filters(f, n - 1, seq, S, T)
  PROVE  \E g : Filters(g, n, seq, S, T)
<1> DEFINE last == IF seq[n] \in S THEN Append(f[n - 1], seq[n]) ELSE f[n - 1]
           g == [m \in 0 .. n |-> IF m = n THEN last ELSE f[m]]
<1>1. n \in Nat /\ n - 1 \in 0 .. n - 1 /\ seq[n] \in T
  OBVIOUS
<1>2. f \in [0 .. n - 1 -> Seq(T)] /\ f[n - 1] \in Seq(T)
  BY <1>1 DEF Filters
<1>3. last \in Seq(T)
  BY <1>1, <1>2
<1>4. \A m \in 0 .. n - 1 : g[m] = f[m]
  BY <1>1
<1>5. g[n] = last
  BY <1>1
<1> HIDE DEF last
<1>6. g \in [0 .. n -> Seq(T)]
  BY <1>1, <1>2, <1>3
<1> HIDE DEF g
<1>7. g[0] = <<>>
  BY <1>1, <1>4 DEF Filters
<1>8. ASSUME NEW m \in 1 .. n
      PROVE  g[m] = IF seq[m] \in S THEN Append(g[m - 1], seq[m]) ELSE g[m - 1]
  <2>1. CASE m = n
    BY <1>1, <1>4, <1>5, <2>1 DEF last
  <2>2. CASE m # n
    <3>1. m \in 1 .. n - 1 /\ m - 1 \in 0 .. n - 1
      BY <1>1, <2>2
    <3>2. f[m] = IF seq[m] \in S THEN Append(f[m - 1], seq[m]) ELSE f[m - 1]
      BY <3>1 DEF Filters
    <3>3. g[m] = f[m] /\ g[m - 1] = f[m - 1]
      BY <1>4, <3>1
    <3> QED BY <3>2, <3>3
  <2> QED BY <2>1, <2>2
<1> QED BY <1>6, <1>7, <1>8 DEF Filters

LEMMA FilterExists ==
  ASSUME NEW T, NEW seq \in Seq(T), NEW S
  PROVE  \E f : Filters(f, Len(seq), seq, S, T)
<1> DEFINE bad == {n \in 0 .. Len(seq) : ~ \E f : Filters(f, n, seq, S, T)}
<1> SUFFICES ASSUME bad # {} PROVE FALSE
  <2> Len(seq) \in 0 .. Len(seq)
    OBVIOUS
  <2> QED OBVIOUS
<1>1. bad \subseteq Nat
  OBVIOUS
<1>2. PICK n \in bad : \A k \in bad : n <= k
  <2> HIDE DEF bad
  <2> QED BY <1>1, LeastOf
<1>3. n # 0
  <2>1. Filters([m \in 0 .. 0 |-> <<>>], 0, seq, S, T)
    BY DEF Filters
  <2> QED BY <1>2, <2>1
<1>4. n \in 1 .. Len(seq) /\ n - 1 \in 0 .. Len(seq) /\ ~(n <= n - 1)
  BY <1>2, <1>3
<1>5. n - 1 \notin bad
  <2> HIDE DEF bad
  <2> QED BY <1>2, <1>4
<1>6. PICK f : Filters(f, n - 1, seq, S, T)
  BY <1>4, <1>5
<1>7. \E g : Filters(g, n, seq, S, T)
  BY <1>4, <1>6, FilterGrows
<1> QED BY <1>2, <1>7

\* Among is the last value of its filter.
LEMMA AmongFilters ==
  ASSUME NEW T, NEW seq \in Seq(T), NEW S
  PROVE  \E f : Filters(f, Len(seq), seq, S, T) /\ Among(seq, S) = f[Len(seq)]
<1> DEFINE l == Len(seq)
           At(f, n) == IF n = 0 THEN <<>>
                       ELSE IF seq[n] \in S THEN Append(f[n - 1], seq[n]) ELSE f[n - 1]
           Solves(f) == f = [n \in 0 .. l |-> At(f, n)]
           g == CHOOSE f : Solves(f)
<1>1. l \in Nat
  OBVIOUS
<1>2. PICK f : Filters(f, l, seq, S, T)
  BY FilterExists
<1>3. Solves(f)
  <2>1. ASSUME NEW n \in 0 .. l PROVE f[n] = At(f, n)
    <3>1. CASE n = 0
      BY <1>2, <3>1 DEF Filters
    <3>2. CASE n # 0
      <4>1. n \in 1 .. l
        BY <1>1, <3>2
      <4>2. f[n] = IF seq[n] \in S THEN Append(f[n - 1], seq[n]) ELSE f[n - 1]
        BY <1>2, <4>1 DEF Filters
      <4> QED BY <3>2, <4>2
    <3> QED BY <3>1, <3>2
  <2>2. f \in [0 .. l -> Seq(T)]
    BY <1>2 DEF Filters
  <2> HIDE DEF At
  <2> QED BY <2>1, <2>2
<1>4. Solves(g)
  <2> HIDE DEF Solves
  <2> QED BY <1>3
<1>5. Among(seq, S) = g[l]
  BY DEF Among
<1> HIDE DEF g
<1>6. g[0] = <<>> /\ DOMAIN g = 0 .. l
      /\ \A n \in 1 .. l : g[n] = IF seq[n] \in S THEN Append(g[n - 1], seq[n]) ELSE g[n - 1]
  <2>1. DOMAIN g = 0 .. l /\ \A n \in 0 .. l : g[n] = At(g, n)
    <3> HIDE DEF At
    <3> QED BY <1>4, Zenon
  <2>2. g[0] = <<>>
    <3>1. 0 \in 0 .. l
      BY <1>1
    <3>2. g[0] = At(g, 0)
      BY <2>1, <3>1, Zenon
    <3> QED BY <3>2
  <2>3. ASSUME NEW n \in 1 .. l
        PROVE  g[n] = IF seq[n] \in S THEN Append(g[n - 1], seq[n]) ELSE g[n - 1]
    <3>1. n \in 0 .. l /\ n # 0
      BY <1>1
    <3>2. g[n] = At(g, n)
      BY <2>1, <3>1, Zenon
    <3> QED BY <3>1, <3>2
  <2> QED BY <2>1, <2>2, <2>3
<1>7. \A n \in 0 .. l : g[n] \in Seq(T)
  <2> DEFINE bad == {n \in 0 .. l : g[n] \notin Seq(T)}
  <2> SUFFICES ASSUME bad # {} PROVE FALSE
    OBVIOUS
  <2>1. PICK m \in bad : \A k \in bad : m <= k
    <3>1. bad \subseteq Nat
      OBVIOUS
    <3> HIDE DEF bad
    <3> QED BY <3>1, LeastOf
  <2>2. m \in 1 .. l /\ g[m] \notin Seq(T)
    <3>1. m \in 0 .. l /\ g[m] \notin Seq(T)
      BY <2>1
    <3>2. g[0] \in Seq(T)
      BY <1>6
    <3>3. m # 0
      BY <3>1, <3>2
    <3> QED BY <1>1, <3>1, <3>3
  <2>3. g[m - 1] \in Seq(T)
    <3>1. m - 1 \in 0 .. l /\ ~ (m <= m - 1)
      BY <1>1, <2>2
    <3>2. m - 1 \notin bad
      <4> HIDE DEF bad
      <4> QED BY <2>1, <3>1
    <3> QED BY <3>1, <3>2
  <2>4. seq[m] \in T
    BY <2>2
  <2>5. Append(g[m - 1], seq[m]) \in Seq(T)
    BY <2>3, <2>4, AppendProperties
  <2> QED BY <1>6, <2>2, <2>3, <2>5
<1>8. g = [n \in 0 .. l |-> g[n]]
  BY <1>4, <1>6
<1>9. Filters(g, l, seq, S, T)
  BY <1>6, <1>7, <1>8 DEF Filters
<1> QED BY <1>5, <1>9

\* What a sequence kept of the first n elements of another one.
Keeping(q, n, seq, S) ==
  /\ Len(q) <= n
  /\ \A i \in 1 .. Len(q) : \E j \in 1 .. n : q[i] = seq[j] /\ seq[j] \in S
  /\ \A j \in 1 .. n : seq[j] \in S => Lists(q, seq[j])
  /\ Distinct(seq) => Distinct(q)

LEMMA FilterKeeps ==
  ASSUME NEW T, NEW seq \in Seq(T), NEW S, NEW n \in 1 .. Len(seq), NEW q \in Seq(T),
         Keeping(q, n - 1, seq, S), NEW r, r = IF seq[n] \in S THEN Append(q, seq[n]) ELSE q
  PROVE  Keeping(r, n, seq, S)
<1>1. n \in Nat /\ n - 1 \in Nat /\ seq[n] \in T /\ Len(q) \in Nat /\ Len(seq) \in Nat
  OBVIOUS
<1>2. CASE seq[n] \notin S
  <2>1. r = q
    BY <1>2
  <2>2. \A j \in 1 .. n : j # n => j \in 1 .. n - 1
    BY <1>1
  <2>3. \A j \in 1 .. n - 1 : j \in 1 .. n
    BY <1>1
  <2> QED BY <1>1, <1>2, <2>1, <2>2, <2>3 DEF Keeping
<1>3. CASE seq[n] \in S
  <2>1. r = Append(q, seq[n])
    BY <1>3
  <2>2. /\ Len(r) = Len(q) + 1 /\ r[Len(q) + 1] = seq[n]
        /\ \A i \in 1 .. Len(q) : r[i] = q[i]
    BY <1>1, <2>1, AppendProperties
  <2> DEFINE m == Len(q)
  <2>3. m \in Nat /\ m <= n - 1 /\ Len(r) = m + 1 /\ r[m + 1] = seq[n]
        /\ \A i \in 1 .. m : r[i] = q[i]
    BY <1>1, <2>2 DEF Keeping
  <2>4. \A i \in 1 .. m : \E j \in 1 .. n - 1 : r[i] = seq[j] /\ seq[j] \in S
    BY <2>3 DEF Keeping
  <2>5. \A j \in 1 .. n - 1 : seq[j] \in S => \E i \in 1 .. m : r[i] = seq[j]
    BY <2>3 DEF Keeping, Lists
  <2>6. Distinct(seq) => \A i, j \in 1 .. m : r[i] = r[j] => i = j
    BY <2>3 DEF Keeping, Distinct
  <2> HIDE DEF m
  <2>7. Len(r) <= n
    BY <1>1, <2>3
  <2>8. \A i \in 1 .. Len(r) : \E j \in 1 .. n : r[i] = seq[j] /\ seq[j] \in S
    <3> SUFFICES ASSUME NEW i \in 1 .. Len(r)
                 PROVE  \E j \in 1 .. n : r[i] = seq[j] /\ seq[j] \in S
      OBVIOUS
    <3>1. CASE i = m + 1
      BY <1>1, <1>3, <2>3, <3>1
    <3>2. CASE i # m + 1
      <4>1. i \in 1 .. m
        BY <2>3, <3>2
      <4>2. PICK j \in 1 .. n - 1 : r[i] = seq[j] /\ seq[j] \in S
        BY <2>4, <4>1
      <4>3. j \in 1 .. n
        BY <1>1
      <4> QED BY <4>2, <4>3
    <3> QED BY <3>1, <3>2
  <2>9. \A j \in 1 .. n : seq[j] \in S => Lists(r, seq[j])
    <3> SUFFICES ASSUME NEW j \in 1 .. n, seq[j] \in S PROVE Lists(r, seq[j])
      OBVIOUS
    <3>1. CASE j = n
      <4>1. m + 1 \in 1 .. Len(r)
        BY <2>3
      <4> QED BY <2>3, <3>1, <4>1 DEF Lists
    <3>2. CASE j # n
      <4>1. j \in 1 .. n - 1
        BY <1>1, <3>2
      <4>2. PICK i \in 1 .. m : r[i] = seq[j]
        BY <2>5, <4>1
      <4>3. i \in 1 .. Len(r)
        BY <2>3
      <4> QED BY <4>2, <4>3 DEF Lists
    <3> QED BY <3>1, <3>2
  <2>10. Distinct(seq) => Distinct(r)
    <3> SUFFICES ASSUME Distinct(seq), NEW i \in 1 .. Len(r), NEW j \in 1 .. Len(r), r[i] = r[j]
                 PROVE  i = j
      BY DEF Distinct
    <3>0. \A k \in 1 .. m : r[k] # r[m + 1]
      <4> SUFFICES ASSUME NEW k \in 1 .. m, r[k] = r[m + 1] PROVE FALSE
        OBVIOUS
      <4>1. PICK h \in 1 .. n - 1 : r[k] = seq[h]
        BY <2>4
      <4>2. h \in 1 .. Len(seq) /\ h # n /\ n \in 1 .. Len(seq)
        <5> DEFINE l == Len(seq)
        <5>1. l \in Nat /\ n \in 1 .. l
          BY <1>1
        <5> HIDE DEF l
        <5>2. h \in 1 .. l /\ h # n
          BY <1>1, <4>1, <5>1
        <5> QED BY <5>1, <5>2 DEF l
      <4>3. seq[h] = seq[n]
        BY <2>3, <4>1
      <4> QED BY <4>2, <4>3 DEF Distinct
    <3>1. (i = m + 1 \/ i \in 1 .. m) /\ (j = m + 1 \/ j \in 1 .. m)
      <4>1. i \in 1 .. m + 1 /\ j \in 1 .. m + 1
        BY <2>3
      <4> QED BY <2>3, <4>1
    <3> QED BY <2>6, <3>0, <3>1
  <2> QED BY <2>7, <2>8, <2>9, <2>10 DEF Keeping
<1> QED BY <1>2, <1>3

\* Among keeps the elements that are in the set, in distinct places when they were.
LEMMA AmongFacts ==
  ASSUME NEW T, NEW seq \in Seq(T), NEW S
  PROVE  /\ Among(seq, S) \in Seq(T)
         /\ Keeping(Among(seq, S), Len(seq), seq, S)
<1>1. PICK f : Filters(f, Len(seq), seq, S, T) /\ Among(seq, S) = f[Len(seq)]
  BY AmongFilters
<1> DEFINE l == Len(seq)
           bad == {n \in 0 .. l : ~Keeping(f[n], n, seq, S)}
<1>2. l \in Nat /\ f \in [0 .. l -> Seq(T)]
  BY <1>1 DEF Filters
<1>3. bad = {}
  <2> SUFFICES ASSUME bad # {} PROVE FALSE
    OBVIOUS
  <2>1. PICK m \in bad : \A k \in bad : m <= k
    <3>1. bad \subseteq Nat
      OBVIOUS
    <3> HIDE DEF bad
    <3> QED BY <3>1, LeastOf
  <2>2. m # 0
    <3>1. Keeping(<<>>, 0, seq, S)
      BY DEF Keeping, Distinct
    <3> QED BY <1>1, <2>1, <3>1 DEF Filters
  <2>3. m \in 1 .. l /\ m - 1 \in 0 .. l /\ ~(m <= m - 1)
    BY <1>2, <2>1, <2>2
  <2>4. m - 1 \notin bad
    <3> HIDE DEF bad
    <3> QED BY <2>1, <2>3
  <2>5. Keeping(f[m - 1], m - 1, seq, S)
    BY <2>3, <2>4
  <2>6. f[m] = IF seq[m] \in S THEN Append(f[m - 1], seq[m]) ELSE f[m - 1]
    BY <1>1, <2>3 DEF Filters
  <2>7. f[m - 1] \in Seq(T)
    BY <1>2, <2>3
  <2>8. Keeping(f[m], m, seq, S)
    BY <2>3, <2>5, <2>6, <2>7, FilterKeeps
  <2> QED BY <2>1, <2>8
<1>4. l \in 0 .. l /\ l \notin bad
  BY <1>2, <1>3
<1> QED BY <1>1, <1>2, <1>4

\* The order of a bounded dict lists its keys, once.
LEMMA OrderLists ==
  ASSUME NEW d, NEW max
  PROVE  IsBoundedDict(d, max) <=>
           Len(d.order) <= max /\ Distinct(d.order) /\ (\A x : Lists(d.order, x) <=> Has(d, x))
<1>1. (\A x : Lists(d.order, x) <=> Has(d, x)) <=>
        {d.order[i] : i \in 1 .. Len(d.order)} = DOMAIN d.value
  BY Zenon DEF Lists, Has
<1> QED BY <1>1, Zenon DEF IsBoundedDict, Distinct

LEMMA OthersList ==
  ASSUME NEW T, NEW seq \in Seq(T), Distinct(seq), NEW k
  PROVE  /\ Others(seq, k) \in Seq(T) /\ Len(Others(seq, k)) <= Len(seq)
         /\ Distinct(Others(seq, k))
         /\ \A x : Lists(Others(seq, k), x) <=> Lists(seq, x) /\ x # k
<1> DEFINE S == {seq[i] : i \in 1 .. Len(seq)} \ {k}
           o == Among(seq, S)
<1>1. o \in Seq(T) /\ Keeping(o, Len(seq), seq, S)
  BY AmongFacts
<1>2. Others(seq, k) = o
  BY DEF Others
<1> HIDE DEF o
<1>3. Len(o) <= Len(seq) /\ Distinct(o)
  BY <1>1 DEF Keeping
<1>4. ASSUME NEW x, Lists(o, x) PROVE Lists(seq, x) /\ x # k
  <2>1. PICK i \in 1 .. Len(o) : o[i] = x
    BY <1>4 DEF Lists
  <2>2. PICK j \in 1 .. Len(seq) : x = seq[j] /\ seq[j] \in S
    BY <1>1, <2>1 DEF Keeping
  <2> QED BY <2>2 DEF Lists
<1>5. ASSUME NEW x, Lists(seq, x), x # k PROVE Lists(o, x)
  <2>1. PICK j \in 1 .. Len(seq) : seq[j] = x
    BY <1>5 DEF Lists
  <2>2. seq[j] \in S
    BY <1>5, <2>1
  <2> HIDE DEF S
  <2> QED BY <1>1, <2>1, <2>2 DEF Keeping
<1> QED BY <1>1, <1>2, <1>3, <1>4, <1>5

\* A pop keeps a bounded dict one.
LEMMA PopKeepsDict ==
  ASSUME NEW T, NEW d, NEW k, NEW max \in Nat, IsBoundedDict(d, max), d.order \in Seq(T)
  PROVE  /\ IsBoundedDict(Pop(d, k), max) /\ Pop(d, k).order \in Seq(T)
         /\ \A j : Has(Pop(d, k), j) <=> Has(d, j) /\ j # k
         /\ \A j : Has(Pop(d, k), j) => Pop(d, k).value[j] = d.value[j]
<1> DEFINE e == Pop(d, k)
<1>1. Len(d.order) <= max /\ Distinct(d.order) /\ \A x : Lists(d.order, x) <=> Has(d, x)
  BY OrderLists
<1>2. e.order = Others(d.order, k)
  BY DEF Pop
<1>3. \A j : Has(e, j) <=> Has(d, j) /\ j # k
  BY DEF Pop, Has
<1>4. \A j : Has(e, j) => e.value[j] = d.value[j]
  BY DEF Pop, Has
<1> HIDE DEF e
<1>5. /\ e.order \in Seq(T) /\ Len(e.order) <= Len(d.order) /\ Distinct(e.order)
      /\ \A x : Lists(e.order, x) <=> Lists(d.order, x) /\ x # k
  BY <1>1, <1>2, OthersList
<1>6. Len(e.order) <= max
  BY <1>1, <1>5
<1>7. IsBoundedDict(e, max)
  <2>1. \A x : Lists(e.order, x) <=> Has(e, x)
    BY <1>1, <1>3, <1>5
  <2> QED BY <1>5, <1>6, <2>1, OrderLists
<1> QED BY <1>3, <1>4, <1>5, <1>7 DEF e

\* What an element appended to distinct others, and the rest without the first, list.
LEMMA AppendLists ==
  ASSUME NEW T, NEW o \in Seq(T), Distinct(o), NEW k \in T, ~Lists(o, k),
         NEW w, w = Append(o, k)
  PROVE  /\ w \in Seq(T) /\ Len(w) = Len(o) + 1 /\ Distinct(w)
         /\ \A x : Lists(w, x) <=> Lists(o, x) \/ x = k
<1> DEFINE m == Len(o)
<1>1. w \in Seq(T) /\ Len(w) = m + 1 /\ w[m + 1] = k /\ \A i \in 1 .. m : w[i] = o[i]
  BY AppendProperties
<1>2. m \in Nat
  OBVIOUS
<1>3. \A i \in 1 .. m : o[i] # k
  BY DEF Lists
<1>4. \A i, j \in 1 .. m : o[i] = o[j] => i = j
  BY DEF Distinct
<1>5. \A x : Lists(o, x) <=> \E i \in 1 .. m : o[i] = x
  BY DEF Lists
<1>6. \A x : Lists(w, x) <=> \E i \in 1 .. m + 1 : w[i] = x
  BY <1>1 DEF Lists
<1> HIDE DEF m
<1>7. \A i : i \in 1 .. m + 1 <=> i \in 1 .. m \/ i = m + 1
  BY <1>2
<1>8. Distinct(w)
  <2> SUFFICES ASSUME NEW i \in 1 .. m + 1, NEW j \in 1 .. m + 1, w[i] = w[j] PROVE i = j
    BY <1>1 DEF Distinct
  <2>1. (i = m + 1 \/ i \in 1 .. m) /\ (j = m + 1 \/ j \in 1 .. m)
    BY <1>7
  <2> QED BY <1>1, <1>3, <1>4, <2>1
<1>9. \A x : Lists(w, x) <=> Lists(o, x) \/ x = k
  BY <1>1, <1>5, <1>6, <1>7
<1> QED BY <1>1, <1>8, <1>9 DEF m

LEMMA TailLists ==
  ASSUME NEW T, NEW w \in Seq(T), w # <<>>, Distinct(w)
  PROVE  /\ Tail(w) \in Seq(T) /\ Len(Tail(w)) = Len(w) - 1 /\ Distinct(Tail(w))
         /\ \A x : Lists(Tail(w), x) <=> Lists(w, x) /\ x # Head(w)
<1> DEFINE t == Tail(w)  m == Len(w)
<1>1. t \in Seq(T) /\ Len(t) = m - 1 /\ \A i \in 1 .. Len(t) : t[i] = w[i + 1]
  BY HeadTailProperties
<1>2. m \in Nat /\ m >= 1 /\ w[1] = Head(w)
  BY EmptySeq
<1>3. \A i, j \in 1 .. m : w[i] = w[j] => i = j
  BY DEF Distinct
<1>4. \A x : Lists(w, x) <=> \E i \in 1 .. m : w[i] = x
  BY DEF Lists
<1>5. \A x : Lists(t, x) <=> \E i \in 1 .. m - 1 : t[i] = x
  BY <1>1 DEF Lists
<1> HIDE DEF m, t
<1>6. \A i \in 1 .. m - 1 : i + 1 \in 1 .. m /\ i + 1 # 1 /\ t[i] = w[i + 1]
  BY <1>1, <1>2
<1>7. \A i \in 1 .. m : i # 1 => i - 1 \in 1 .. m - 1 /\ (i - 1) + 1 = i
  BY <1>2
<1>8. Distinct(t)
  <2> SUFFICES ASSUME NEW i \in 1 .. m - 1, NEW j \in 1 .. m - 1, t[i] = t[j] PROVE i = j
    BY <1>1 DEF Distinct
  <2>1. i + 1 = j + 1
    BY <1>3, <1>6
  <2> QED BY <1>2, <2>1
<1>9. ASSUME NEW x, Lists(t, x) PROVE Lists(w, x) /\ x # Head(w)
  <2>1. PICK i \in 1 .. m - 1 : t[i] = x
    BY <1>5, <1>9
  <2>2. 1 \in 1 .. m
    BY <1>2
  <2> QED BY <1>2, <1>3, <1>4, <1>6, <2>1, <2>2
<1>10. ASSUME NEW x, Lists(w, x), x # Head(w) PROVE Lists(t, x)
  <2>1. PICK i \in 1 .. m : w[i] = x
    BY <1>4, <1>10
  <2>2. i # 1
    BY <1>2, <1>10, <2>1
  <2>3. t[i - 1] = x /\ i - 1 \in 1 .. m - 1
    BY <1>6, <1>7, <2>1, <2>2
  <2> QED BY <1>5, <2>3
<1> QED BY <1>1, <1>8, <1>9, <1>10 DEF t, m

\* e is d after a write: a bounded dict, which is full when the write dropped an entry.
Wrote(e, d, k, v, max, T) ==
  /\ IsBoundedDict(e, max) /\ e.order \in Seq(T)
  /\ Has(e, k) /\ e.value[k] = v
  /\ \A j : j # k /\ Has(e, j) => Has(d, j) /\ e.value[j] = d.value[j]
  /\ \A j : Has(d, j) /\ ~Has(e, j) => Len(e.order) = max

LEMMA PutKeepsDict ==
  ASSUME NEW T, NEW d, NEW k \in T, NEW v, NEW max \in Nat \ {0}, IsBoundedDict(d, max),
         d.order \in Seq(T), NEW e, e = Put(d, k, v, max)
  PROVE  Wrote(e, d, k, v, max, T)
<1> DEFINE o == Others(d.order, k)
           w == Written(d, k)
<1>1. Len(d.order) <= max /\ Distinct(d.order) /\ \A x : Lists(d.order, x) <=> Has(d, x)
  BY OrderLists
<1>2. /\ o \in Seq(T) /\ Len(o) <= max /\ Distinct(o)
      /\ \A x : Lists(o, x) <=> Has(d, x) /\ x # k
  <2>1. /\ o \in Seq(T) /\ Len(o) <= Len(d.order) /\ Distinct(o)
        /\ \A x : Lists(o, x) <=> Lists(d.order, x) /\ x # k
    BY <1>1, OthersList
  <2>2. Len(o) \in Nat /\ Len(d.order) \in Nat
    BY <2>1
  <2> QED BY <1>1, <2>1, <2>2
<1>3. w = Append(o, k)
  BY DEF Written
<1> HIDE DEF o, w
<1>4. /\ w \in Seq(T) /\ Len(w) = Len(o) + 1 /\ Distinct(w)
      /\ \A x : Lists(w, x) <=> Lists(o, x) \/ x = k
  <2>1. ~Lists(o, k)
    BY <1>2
  <2>2. o \in Seq(T) /\ Distinct(o)
    BY <1>2
  <2> QED BY <1>3, <2>1, <2>2, AppendLists
<1>5. \A x : Lists(w, x) <=> Has(d, x) \/ x = k
  BY <1>2, <1>4
<1>6. Len(o) \in Nat /\ Len(w) \in Nat
  BY <1>2, <1>4
<1>7. CASE Len(w) <= max
  <2>1. Evicted(d, k, max) = {}
    BY <1>6, <1>7 DEF Evicted, w
  <2>2. e.order = w
    BY <2>1 DEF Put, w
  <2>3. e.value = [j \in DOMAIN d.value \cup {k} |-> IF j = k THEN v ELSE d.value[j]]
    BY <2>1 DEF Put
  <2>4. \A x : Has(e, x) <=> Has(d, x) \/ x = k
    BY <2>3 DEF Has
  <2>5. IsBoundedDict(e, max)
    BY <1>4, <1>5, <1>7, <2>2, <2>4, OrderLists
  <2>6. Has(e, k) /\ e.value[k] = v
    BY <2>3, <2>4
  <2>7. \A j : j # k /\ Has(e, j) => Has(d, j) /\ e.value[j] = d.value[j]
    BY <2>3, <2>4 DEF Has
  <2> QED BY <1>4, <2>2, <2>4, <2>5, <2>6, <2>7 DEF Wrote
<1>8. CASE Len(w) > max
  <2>1. Evicted(d, k, max) = {Head(w)}
    BY <1>8 DEF Evicted, w
  <2>2. e.order = Tail(w)
    BY <2>1 DEF Put, w
  <2>3. e.value = [j \in (DOMAIN d.value \cup {k}) \ {Head(w)} |->
                     IF j = k THEN v ELSE d.value[j]]
    BY <2>1 DEF Put
  <2>4. w # <<>> /\ Len(w) = max + 1
    BY <1>2, <1>4, <1>6, <1>8
  <2>5. /\ Tail(w) \in Seq(T) /\ Len(Tail(w)) = max /\ Distinct(Tail(w))
        /\ \A x : Lists(Tail(w), x) <=> Lists(w, x) /\ x # Head(w)
    BY <1>4, <2>4, TailLists
  <2>6. \A x : Has(e, x) <=> (Has(d, x) \/ x = k) /\ x # Head(w)
    BY <2>3 DEF Has
  <2>7. k # Head(w)
    <3>1. Len(o) >= 1
      BY <1>4, <1>6, <2>4
    <3>2. Head(w) = o[1]
      <4>1. w[1] = o[1]
        BY <1>2, <1>3, <3>1, AppendProperties
      <4>2. Head(w) = w[1]
        BY <1>4, <2>4
      <4> QED BY <4>1, <4>2
    <3>3. Lists(o, o[1])
      BY <1>6, <3>1 DEF Lists
    <3> QED BY <1>2, <3>2, <3>3
  <2>8. IsBoundedDict(e, max)
    <3>1. \A x : Lists(e.order, x) <=> Has(e, x)
      BY <1>5, <2>2, <2>5, <2>6
    <3>2. Len(e.order) <= max /\ Distinct(e.order)
      BY <2>2, <2>5
    <3> QED BY <3>1, <3>2, OrderLists
  <2>9. Has(e, k) /\ e.value[k] = v
    BY <2>3, <2>6, <2>7
  <2>10. \A j : j # k /\ Has(e, j) => Has(d, j) /\ e.value[j] = d.value[j]
    BY <2>3, <2>6 DEF Has
  <2> QED BY <2>2, <2>5, <2>8, <2>9, <2>10 DEF Wrote
<1> QED BY <1>6, <1>7, <1>8

\* The last n of a queue are distinct when its elements are, and what is not of them has n
\* after it.
LEMMA LastOfKeeps ==
  ASSUME NEW T, NEW q \in Seq(T), Distinct(q), NEW n \in Nat \ {0}, NEW l, l = LastOf(q, n)
  PROVE  /\ l \in Seq(T) /\ Len(l) <= n /\ Distinct(l)
         /\ \A x : Lists(l, x) => Lists(q, x)
         /\ \A x : Lists(q, x) /\ ~Lists(l, x) => Len(l) = n
         /\ q # <<>> => l # <<>>
<1> DEFINE m == Len(q)
           c == IF m < n THEN m ELSE n
           start == m + 1 - c
<1>1. m \in Nat /\ c \in Nat /\ c <= m /\ c <= n /\ (c = m \/ c = n) /\ start \in Nat /\ start >= 1
      /\ start <= m + 1 /\ m - start + 1 = c
  <2>1. m \in Nat
    OBVIOUS
  <2> HIDE DEF m
  <2>2. c \in Nat /\ c <= m /\ c <= n /\ (c = m \/ c = n)
    BY <2>1
  <2> HIDE DEF c
  <2> QED BY <2>1, <2>2
<1>2. \A i \in 1 .. m : q[i] \in T
  OBVIOUS
<1>3. \A i, j \in 1 .. m : q[i] = q[j] => i = j
  BY DEF Distinct
<1>4. \A x : Lists(q, x) <=> \E i \in 1 .. m : q[i] = x
  BY DEF Lists
<1>5. q # <<>> => m # 0
  BY EmptySeq
<1>6. l = SubSeq(q, start, m)
  BY DEF LastOf
<1> HIDE DEF m, c, start
<1>7. l \in Seq(T) /\ Len(l) = c /\ \A i \in 1 .. c : l[i] = q[start + i - 1]
  <2>1. \A i \in start .. m : q[i] \in T
    BY <1>1, <1>2
  <2>2. /\ l \in Seq(T) /\ Len(l) = IF start <= m THEN m - start + 1 ELSE 0
        /\ \A i \in 1 .. m - start + 1 : l[i] = q[start + i - 1]
    BY <1>1, <1>6, <2>1, SubSeqProperties
  <2>3. Len(l) = c
    BY <1>1, <2>2
  <2> QED BY <1>1, <2>2, <2>3
<1>8. \A x : Lists(l, x) <=> \E i \in 1 .. c : l[i] = x
  BY <1>7 DEF Lists
<1>9. \A i \in 1 .. c : start + i - 1 \in 1 .. m
  BY <1>1
<1>10. Distinct(l)
  <2> SUFFICES ASSUME NEW i \in 1 .. c, NEW j \in 1 .. c, l[i] = l[j] PROVE i = j
    BY <1>7 DEF Distinct
  <2>1. start + i - 1 = start + j - 1
    BY <1>3, <1>7, <1>9
  <2> QED BY <1>1, <2>1
<1>11. \A x : Lists(l, x) => Lists(q, x)
  BY <1>4, <1>7, <1>8, <1>9
<1>12. ASSUME NEW x, Lists(q, x), ~Lists(l, x) PROVE Len(l) = n
  <2> SUFFICES ASSUME c # n PROVE FALSE
    BY <1>7
  <2>1. c = m /\ start = 1
    BY <1>1 DEF start
  <2>2. PICK i \in 1 .. m : q[i] = x
    BY <1>4, <1>12
  <2>3. l[i] = q[i]
    <3>1. start + i - 1 = i
      BY <1>1, <2>1
    <3> QED BY <1>7, <2>1, <3>1
  <2> QED BY <1>8, <1>12, <2>1, <2>2, <2>3
<1>13. q # <<>> => l # <<>>
  <2> SUFFICES ASSUME q # <<>> PROVE Len(l) # 0
    BY EmptySeq, <1>7
  <2> QED BY <1>1, <1>5, <1>7
<1> QED BY <1>1, <1>7, <1>10, <1>11, <1>12, <1>13

\* A queue of distinct approvals counts one of them once.
LEMMA CopiesAre ==
  ASSUME NEW T, NEW q \in Seq(T), Distinct(q), NEW x
  PROVE  Copies(x, q) = IF Lists(q, x) THEN 1 ELSE 0
<1> DEFINE P == {i \in 1 .. Len(q) : q[i] = x}
<1>1. Copies(x, q) = Cardinality(P)
  BY DEF Copies
<1>2. CASE Lists(q, x)
  <2>1. PICK i \in 1 .. Len(q) : q[i] = x
    BY <1>2 DEF Lists
  <2>2. P = {i}
    BY <2>1 DEF Distinct
  <2> QED BY <1>1, <1>2, <2>2, FS_Singleton
<1>3. CASE ~Lists(q, x)
  <2>1. P = {}
    BY <1>3 DEF Lists
  <2> QED BY <1>1, <1>3, <2>1, FS_EmptySet
<1> QED BY <1>2, <1>3

\* n different things are in a finite set of as many.
LEMMA AsMany ==
  ASSUME NEW n \in Nat, NEW S, IsFiniteSet(S), NEW f \in [1 .. n -> S],
         \A i, j \in 1 .. n : f[i] = f[j] => i = j
  PROVE  Cardinality(S) >= n
<1>1. f \in Injection(1 .. n, S)
  BY DEF Injection, IsInjective
<1>2. Cardinality(1 .. n) <= Cardinality(S)
  BY <1>1, FS_Injection
<1>3. Cardinality(1 .. n) = n
  BY FS_Interval
<1>4. Cardinality(S) \in Nat
  BY FS_CardinalityType
<1> QED BY <1>2, <1>3, <1>4

\* A larger finite set has as many elements, without a, at least.
LEMMA MoreOthers ==
  ASSUME NEW S, NEW R, IsFiniteSet(R), S \subseteq R, NEW n \in Nat, Cardinality(S) >= n
  PROVE  Cardinality(R) >= n
<1>1. IsFiniteSet(S) /\ Cardinality(S) <= Cardinality(R)
  BY FS_Subset
<1>2. Cardinality(S) \in Nat /\ Cardinality(R) \in Nat
  BY <1>1, FS_CardinalityType
<1> QED BY <1>1, <1>2

\* What was asked for stays so, and keeps what it asks for.
Steady ==
  /\ IsFiniteSet(AskedFor')
  /\ \A a \in Approvals :
       card[a] # "unused" => card'[a] # "unused" /\ key'[a] = key[a] /\ key[a] \in Keys

\* Who was crowded or pushed out stays so.
LEMMA StaysCrowded ==
  ASSUME Steady, NEW a \in Approvals, CrowdedOut(a), MaxPending \in Nat PROVE CrowdedOut(a)'
<1> DEFINE S == {b \in Approvals \ {a} : card[b] # "unused"}
           R == {b \in Approvals \ {a} : card'[b] # "unused"}
<1>1. S \subseteq R /\ R \subseteq AskedFor'
  BY DEF Steady, AskedFor
<1>2. IsFiniteSet(R)
  BY <1>1, FS_Subset DEF Steady
<1>3. Cardinality(S) >= MaxPending
  BY DEF CrowdedOut
<1> HIDE DEF S
<1>4. Cardinality(R) >= MaxPending
  <2> HIDE DEF R
  <2> QED BY <1>1, <1>2, <1>3, MoreOthers
<1> QED BY <1>4 DEF CrowdedOut

LEMMA StaysPushed ==
  ASSUME Steady, UnusedAreNew, NEW a \in Approvals, card[a] # "unused", PushedOut(a),
         \A b \in Approvals : reported[b] # <<>> => reported'[b] # <<>>,
         \A b \in Approvals : reported'[b] # <<>> => card'[b] # "unused", Kept \in Nat
  PROVE  PushedOut(a)'
<1> DEFINE S == {b \in Approvals \ {a} : key[b].session = key[a].session /\ reported[b] # <<>>}
           R == {b \in Approvals \ {a} : key'[b].session = key'[a].session
                                         /\ reported'[b] # <<>>}
<1>1. \A b \in S : card[b] # "unused"
  BY DEF UnusedAreNew
<1>2. S \subseteq R
  BY <1>1 DEF Steady
<1>3. Cardinality(S) >= Kept
  BY DEF PushedOut
<1> HIDE DEF S
<1>4. IsFiniteSet(R)
  <2>1. R \subseteq AskedFor'
    BY DEF AskedFor
  <2> HIDE DEF R
  <2> QED BY <2>1, FS_Subset DEF Steady
<1>5. Cardinality(R) >= Kept
  <2> HIDE DEF R
  <2> QED BY <1>2, <1>3, <1>4, MoreOthers
<1> QED BY <1>5 DEF PushedOut

\* A full queue without an approval of its session has pushed it out,
LEMMA QueuePushes ==
  ASSUME Steady, NEW a \in Approvals, NEW q \in Seq(Approvals), Distinct(q), Len(q) = Kept,
         ~Lists(q, a), Kept \in Nat,
         \A b \in Approvals : reported'[b] # <<>> => card'[b] # "unused",
         \A i \in 1 .. Len(q) :
           key'[q[i]].session = key'[a].session /\ reported'[q[i]] # <<>>
  PROVE  PushedOut(a)'
<1> DEFINE R == {b \in Approvals \ {a} : key'[b].session = key'[a].session
                                         /\ reported'[b] # <<>>}
           f == [i \in 1 .. Kept |-> q[i]]
<1>1. \A i \in 1 .. Kept : q[i] \in Approvals /\ q[i] # a
  BY DEF Lists
<1>2. f \in [1 .. Kept -> R]
  BY <1>1
<1>3. \A i, j \in 1 .. Kept : f[i] = f[j] => i = j
  BY DEF Distinct
<1>4. IsFiniteSet(R)
  <2>1. R \subseteq AskedFor'
    BY DEF AskedFor
  <2> HIDE DEF R
  <2> QED BY <2>1, FS_Subset DEF Steady
<1>5. Cardinality(R) >= Kept
  <2> HIDE DEF R, f
  <2> QED BY <1>2, <1>3, <1>4, AsMany
<1> QED BY <1>5 DEF PushedOut

\* and so has a full dict, of approvals or of sessions that have one each.
LEMMA DictCrowds ==
  ASSUME Steady, NEW a \in Approvals, MaxPending \in Nat,
         NEW f \in [1 .. MaxPending -> AskedFor' \ {a}],
         \A i, j \in 1 .. MaxPending : f[i] = f[j] => i = j
  PROVE  CrowdedOut(a)'
<1> DEFINE S == AskedFor' \ {a}
<1>1. IsFiniteSet(S)
  BY FS_RemoveElement DEF Steady
<1>2. Cardinality(S) >= MaxPending
  <2>1. f \in [1 .. MaxPending -> S]
    OBVIOUS
  <2> HIDE DEF S
  <2> QED BY <1>1, <2>1, AsMany
<1>3. S = {b \in Approvals \ {a} : card'[b] # "unused"}
  BY DEF AskedFor
<1> QED BY <1>2, <1>3 DEF CrowdedOut

LEMMA ConcatLists ==
  ASSUME NEW T, NEW p \in Seq(T), NEW q \in Seq(T), Distinct(p), Distinct(q),
         \A x : ~(Lists(p, x) /\ Lists(q, x)), NEW r, r = p \o q
  PROVE  /\ r \in Seq(T) /\ Distinct(r) /\ Len(r) = Len(p) + Len(q)
         /\ \A x : Lists(r, x) <=> Lists(p, x) \/ Lists(q, x)
<1> DEFINE m == Len(p)  n == Len(q)
<1>1. /\ r \in Seq(T) /\ Len(r) = m + n
      /\ \A i \in 1 .. m + n : r[i] = IF i <= m THEN p[i] ELSE q[i - m]
  BY ConcatProperties
<1>2. m \in Nat /\ n \in Nat
  OBVIOUS
<1>3. (\A i, j \in 1 .. m : p[i] = p[j] => i = j) /\ (\A i, j \in 1 .. n : q[i] = q[j] => i = j)
  BY DEF Distinct
<1>4. /\ \A x : Lists(p, x) <=> \E i \in 1 .. m : p[i] = x
      /\ \A x : Lists(q, x) <=> \E i \in 1 .. n : q[i] = x
      /\ \A x : Lists(r, x) <=> \E i \in 1 .. m + n : r[i] = x
  BY <1>1 DEF Lists
<1> HIDE DEF m, n
<1>5. ASSUME NEW i \in 1 .. m PROVE i \in 1 .. m + n /\ r[i] = p[i]
  <2>1. i \in 1 .. m + n /\ i <= m
    BY <1>2
  <2> QED BY <1>1, <2>1
<1>6. ASSUME NEW i \in 1 .. n PROVE m + i \in 1 .. m + n /\ r[m + i] = q[i]
  <2>1. m + i \in 1 .. m + n /\ ~(m + i <= m) /\ (m + i) - m = i
    BY <1>2
  <2> QED BY <1>1, <2>1
<1>7. ASSUME NEW i \in 1 .. m + n, i \notin 1 .. m
      PROVE  i - m \in 1 .. n /\ r[i] = q[i - m] /\ i \in Nat
  <2>1. i - m \in 1 .. n /\ ~(i <= m) /\ i \in Nat
    BY <1>2, <1>7
  <2> QED BY <1>1, <2>1
<1>8. \A i \in 1 .. m, j \in 1 .. n : p[i] # q[j]
  BY <1>4
<1>9. Distinct(r)
  <2> SUFFICES ASSUME NEW i \in 1 .. m + n, NEW j \in 1 .. m + n, r[i] = r[j] PROVE i = j
    BY <1>1 DEF Distinct
  <2>1. CASE i \in 1 .. m /\ j \in 1 .. m
    BY <1>3, <1>5, <2>1
  <2>2. CASE i \in 1 .. m /\ j \notin 1 .. m
    BY <1>5, <1>7, <1>8, <2>2
  <2>3. CASE i \notin 1 .. m /\ j \in 1 .. m
    BY <1>5, <1>7, <1>8, <2>3
  <2>4. CASE i \notin 1 .. m /\ j \notin 1 .. m
    <3>1. i - m = j - m
      <4>1. i - m \in 1 .. n /\ j - m \in 1 .. n /\ q[i - m] = q[j - m]
        BY <1>7, <2>4
      <4> QED BY <1>3, <4>1, Zenon
    <3>2. i \in Nat /\ j \in Nat
      BY <1>7, <2>4
    <3> QED BY <1>2, <3>1, <3>2
  <2> QED BY <2>1, <2>2, <2>3, <2>4
<1>10. \A x : Lists(r, x) <=> Lists(p, x) \/ Lists(q, x)
  <2> SUFFICES ASSUME NEW x PROVE Lists(r, x) <=> Lists(p, x) \/ Lists(q, x)
    OBVIOUS
  <2>1. ASSUME Lists(r, x) PROVE Lists(p, x) \/ Lists(q, x)
    <3>1. PICK i \in 1 .. m + n : r[i] = x
      BY <1>4, <2>1
    <3>2. CASE i \in 1 .. m
      BY <1>4, <1>5, <3>1, <3>2
    <3>3. CASE i \notin 1 .. m
      BY <1>4, <1>7, <3>1, <3>3
    <3> QED BY <3>2, <3>3
  <2>2. ASSUME Lists(p, x) PROVE Lists(r, x)
    BY <1>4, <1>5, <2>2
  <2>3. ASSUME Lists(q, x) PROVE Lists(r, x)
    BY <1>4, <1>6, <2>3
  <2> QED BY <2>1, <2>2, <2>3
<1> QED BY <1>1, <1>9, <1>10 DEF m, n

\* Approvals of a session of which nothing is recorded yet.
Fresh(s, new) ==
  /\ new \subseteq Approvals
  /\ \A x \in new : card[x] # "unused" /\ key[x].session = s /\ reported[x] = <<>>

\* l is the queue of a session after new ones came, cut to the last.
Fills(l, s, new) ==
  /\ l \in Seq(Approvals) /\ Len(l) <= Kept /\ Distinct(l)
  /\ \A x : Lists(l, x) => Lists(QueueOf(s), x) \/ x \in new
  /\ \A x : (Lists(QueueOf(s), x) \/ x \in new) /\ ~Lists(l, x) => Len(l) = Kept
  /\ new # {} => l # <<>>

LEMMA QueueFacts ==
  ASSUME OutcomesInv, NEW s
  PROVE  /\ QueueOf(s) \in Seq(Approvals) /\ Distinct(QueueOf(s))
         /\ \A x : Lists(QueueOf(s), x) =>
              /\ Has(outcomes, s) /\ x \in Approvals /\ reported[x] # <<>> /\ told[x] = 0
              /\ card[x] # "unused" /\ key[x].session = s
<1>1. CASE Has(outcomes, s)
  <2> DEFINE q == outcomes.value[s]
  <2>1. QueueOf(s) = q
    BY <1>1 DEF QueueOf, Get
  <2>2. q \in Seq(Approvals) /\ Distinct(q)
        /\ \A i \in 1 .. Len(q) : reported[q[i]] # <<>> /\ told[q[i]] = 0 /\ key[q[i]].session = s
    BY <1>1, Zenon DEF OutcomesInv, OutcomeTypes, QueuesFit, Has
  <2> HIDE DEF q
  <2>3. ASSUME NEW x, Lists(q, x)
        PROVE  /\ x \in Approvals /\ reported[x] # <<>> /\ told[x] = 0
               /\ card[x] # "unused" /\ key[x].session = s
    <3>1. PICK i \in 1 .. Len(q) : q[i] = x
      BY <2>3 DEF Lists
    <3>2. x \in Approvals /\ reported[x] # <<>> /\ told[x] = 0 /\ key[x].session = s
      BY <2>2, <3>1
    <3> QED BY <3>2 DEF OutcomesInv, UnusedAreNew
  <2> QED BY <1>1, <2>1, <2>2, <2>3
<1>2. CASE ~Has(outcomes, s)
  <2>1. QueueOf(s) = <<>>
    BY <1>2 DEF QueueOf, Get
  <2> QED BY <2>1 DEF Distinct, Lists
<1> QED BY <1>1, <1>2

LEMMA FullFills ==
  ASSUME NEW s, NEW new, NEW full \in Seq(Approvals), Distinct(full), Kept \in Nat \ {0},
         \A x : Lists(full, x) <=> Lists(QueueOf(s), x) \/ x \in new
  PROVE  Fills(LastOf(full, Kept), s, new)
<1> DEFINE l == LastOf(full, Kept)
<1>1. /\ l \in Seq(Approvals) /\ Len(l) <= Kept /\ Distinct(l)
      /\ \A x : Lists(l, x) => Lists(full, x)
      /\ \A x : Lists(full, x) /\ ~Lists(l, x) => Len(l) = Kept
      /\ full # <<>> => l # <<>>
  BY LastOfKeeps
<1> HIDE DEF l
<1>2. new # {} => full # <<>>
  BY DEF Lists
<1>3. Fills(l, s, new)
  BY <1>1, <1>2 DEF Fills
<1> QED BY <1>3 DEF l

\* A recorded outcome goes to the end of its session's queue.
LEMMA RecordFills ==
  ASSUME OutcomesInv, NEW a \in Approvals, reported[a] = <<>>, NEW s
  PROVE  Fills(LastOf(Append(QueueOf(s), a), Kept), s, {a})
<1> DEFINE q == QueueOf(s)
<1>1. q \in Seq(Approvals) /\ Distinct(q) /\ ~Lists(q, a)
  BY QueueFacts
<1> HIDE DEF q
<1>2. /\ Append(q, a) \in Seq(Approvals) /\ Distinct(Append(q, a))
      /\ \A x : Lists(Append(q, a), x) <=> Lists(q, x) \/ x = a
  BY <1>1, AppendLists
<1>3. Fills(LastOf(Append(q, a), Kept), s, {a})
  <2>1. \A x : Lists(Append(q, a), x) <=> Lists(QueueOf(s), x) \/ x \in {a}
    BY <1>2 DEF q
  <2>2. Kept \in Nat \ {0}
    BY BoundsAssumption
  <2> QED BY <1>2, <2>1, <2>2, FullFills
<1> QED BY <1>3 DEF q

\* So do those that expired.
LEMMA ExpiredFill ==
  ASSUME OutcomesInv, NEW s
  PROVE  Fresh(s, ExpiredOf(s)) /\ Fills(Queued(s), s, ExpiredOf(s))
<1> DEFINE q == QueueOf(s)  new == ExpiredOf(s)  late == Among(pending.order, new)
<1>1. q \in Seq(Approvals) /\ Distinct(q) /\ \A x : Lists(q, x) => reported[x] # <<>>
  BY QueueFacts
<1>2. \A x \in new : Has(pending, x) /\ key[x].session = s
  BY DEF ExpiredOf, Has
<1>3. Fresh(s, new)
  <2>1. \A x \in new : x \in Approvals /\ card[x] # "unused"
    BY <1>2 DEF OutcomesInv, IInv, PendingIsFresh, Has
  <2>2. \A x \in new : reported[x] = <<>>
    BY <1>2, <2>1 DEF OutcomesInv, StagesExclude
  <2> QED BY <1>2, <2>1, <2>2 DEF Fresh
<1>4. /\ pending.order \in Seq(Approvals) /\ Distinct(pending.order)
      /\ \A x : Lists(pending.order, x) <=> Has(pending, x)
  BY OrderLists DEF OutcomesInv, OutcomeTypes
<1>5. late \in Seq(Approvals) /\ Keeping(late, Len(pending.order), pending.order, new)
  BY <1>4, AmongFacts
<1> HIDE DEF late, q, new
<1>6. Distinct(late) /\ \A x : Lists(late, x) <=> x \in new
  <2>1. Distinct(late)
    BY <1>4, <1>5 DEF Keeping
  <2>2. ASSUME NEW x, Lists(late, x) PROVE x \in new
    BY <1>5, <2>2 DEF Lists, Keeping
  <2>3. ASSUME NEW x \in new PROVE Lists(late, x)
    <3>1. PICK j \in 1 .. Len(pending.order) : pending.order[j] = x
      BY <1>2, <1>4, <2>3 DEF Lists
    <3> QED BY <1>5, <3>1 DEF Keeping
  <2> QED BY <2>1, <2>2, <2>3
<1>7. \A x : ~(Lists(q, x) /\ Lists(late, x))
  BY <1>1, <1>3, <1>6 DEF Fresh
<1>8. /\ q \o late \in Seq(Approvals) /\ Distinct(q \o late)
      /\ \A x : Lists(q \o late, x) <=> Lists(q, x) \/ Lists(late, x)
  BY <1>1, <1>5, <1>6, <1>7, ConcatLists
<1>9. Fills(LastOf(q \o late, Kept), s, new)
  <2>1. \A x : Lists(q \o late, x) <=> Lists(QueueOf(s), x) \/ x \in new
    BY <1>6, <1>8 DEF q
  <2>2. Kept \in Nat \ {0}
    BY BoundsAssumption
  <2> QED BY <1>8, <2>1, <2>2, FullFills
<1>10. Queued(s) = LastOf(q \o late, Kept)
  BY DEF Queued, q, late, new
<1> QED BY <1>3, <1>9, <1>10 DEF new

\* A queue of the next state lists what was recorded of its session.
LEMMA FillsAre ==
  ASSUME OutcomesInv, NEW s, NEW new, Fresh(s, new), NEW l, Fills(l, s, new), NEW x, Lists(l, x)
  PROVE  /\ x \in Approvals /\ card[x] # "unused" /\ key[x].session = s /\ told[x] = 0
         /\ reported[x] # <<>> \/ x \in new
<1>1. Lists(QueueOf(s), x) \/ x \in new
  BY DEF Fills
<1>2. CASE Lists(QueueOf(s), x)
  BY <1>2, QueueFacts
<1>3. CASE x \in new
  <2>1. x \in Approvals /\ card[x] # "unused" /\ key[x].session = s /\ reported[x] = <<>>
    BY <1>3 DEF Fresh
  <2>2. told[x] = 0
    BY <2>1 DEF OutcomesInv, OutcomeTypes, EndsAreKept
  <2> QED BY <1>3, <2>1, <2>2
<1> QED BY <1>1, <1>2, <1>3

\* A full dict of queues without the session of an approval crowds it out.
LEMMA Squeezed ==
  ASSUME Steady, MaxPending \in Nat, NEW m, IsBoundedDict(m, MaxPending),
         m.order \in Seq(Sessions), Len(m.order) = MaxPending,
         \A t : Has(m, t) => \E b \in Approvals : card'[b] # "unused" /\ key'[b].session = t,
         NEW a \in Approvals, ~Has(m, key'[a].session)
  PROVE  CrowdedOut(a)'
<1> DEFINE f == [i \in 1 .. MaxPending |->
                   CHOOSE b \in Approvals : card'[b] # "unused" /\ key'[b].session = m.order[i]]
<1>1. Distinct(m.order) /\ \A x : Lists(m.order, x) <=> Has(m, x)
  BY OrderLists
<1>2. ASSUME NEW i \in 1 .. MaxPending
      PROVE  /\ f[i] \in Approvals /\ card'[f[i]] # "unused" /\ key'[f[i]].session = m.order[i]
             /\ f[i] # a
  <2>1. Has(m, m.order[i])
    BY <1>1 DEF Lists
  <2>2. \E b \in Approvals : card'[b] # "unused" /\ key'[b].session = m.order[i]
    BY <2>1
  <2>3. f[i] = CHOOSE b \in Approvals : card'[b] # "unused" /\ key'[b].session = m.order[i]
    OBVIOUS
  <2> HIDE DEF f
  <2>4. f[i] \in Approvals /\ card'[f[i]] # "unused" /\ key'[f[i]].session = m.order[i]
    BY <2>2, <2>3
  <2> QED BY <2>1, <2>4
<1>3. DOMAIN f = 1 .. MaxPending /\ f = [i \in DOMAIN f |-> f[i]]
  OBVIOUS
<1> HIDE DEF f
<1>4. f \in [1 .. MaxPending -> AskedFor' \ {a}]
  BY <1>2, <1>3 DEF AskedFor
<1>5. \A i, j \in 1 .. MaxPending : f[i] = f[j] => i = j
  BY <1>1, <1>2 DEF Distinct
<1> QED BY <1>4, <1>5, DictCrowds

\* A write to _outcomes leaves the queues of other sessions, or drops one that is then
\* crowded out.
WritesQueue(m, s, l) ==
  /\ IsBoundedDict(m, MaxPending) /\ m.order \in Seq(Sessions)
  /\ Has(m, s) /\ m.value[s] = l /\ l # <<>>
  /\ \A t : t # s /\ Has(m, t) => Has(outcomes, t) /\ m.value[t] = outcomes.value[t]
  /\ \A a \in Approvals :
       Has(outcomes, key'[a].session) /\ ~Has(m, key'[a].session) => CrowdedOut(a)'

LEMMA PutSqueezes ==
  ASSUME OutcomesInv, Steady, NEW s \in Sessions, NEW new, new # {}, Fresh(s, new),
         NEW l, Fills(l, s, new), NEW m, m = Put(outcomes, s, l, MaxPending)
  PROVE  WritesQueue(m, s, l)
<1>1. MaxPending \in Nat \ {0}
  BY BoundsAssumption
<1>2. IsBoundedDict(outcomes, MaxPending) /\ outcomes.order \in Seq(Sessions)
  BY DEF OutcomesInv, OutcomeTypes
<1>3. /\ IsBoundedDict(m, MaxPending) /\ m.order \in Seq(Sessions)
      /\ Has(m, s) /\ m.value[s] = l
      /\ \A t : t # s /\ Has(m, t) => Has(outcomes, t) /\ m.value[t] = outcomes.value[t]
      /\ \A t : Has(outcomes, t) /\ ~Has(m, t) => Len(m.order) = MaxPending
  <2>1. Wrote(m, outcomes, s, l, MaxPending, Sessions)
    BY <1>1, <1>2, PutKeepsDict
  <2> QED BY <2>1 DEF Wrote
<1>4. l # <<>>
  BY DEF Fills
<1>5. ASSUME NEW t, Has(m, t)
      PROVE  \E b \in Approvals : card'[b] # "unused" /\ key'[b].session = t
  <2>1. \E b \in Approvals : card[b] # "unused" /\ key[b].session = t
    <3>1. CASE t = s
      <4>1. Lists(l, l[1])
        BY <1>4, EmptySeq DEF Lists, Fills
      <4> QED BY <3>1, <4>1, FillsAre
    <3>2. CASE t # s
      <4>1. Has(outcomes, t)
        BY <1>3, <1>5, <3>2
      <4>2. QueueOf(t) # <<>>
        BY <4>1 DEF QueueOf, Get, OutcomesInv, QueuesFit, Has
      <4>3. Lists(QueueOf(t), QueueOf(t)[1])
        <5>1. QueueOf(t) \in Seq(Approvals)
          BY QueueFacts
        <5> QED BY <4>2, <5>1, EmptySeq DEF Lists
      <4> QED BY <4>3, QueueFacts
    <3> QED BY <3>1, <3>2
  <2> QED BY <2>1 DEF Steady
<1>6. ASSUME NEW a \in Approvals, Has(outcomes, key'[a].session), ~Has(m, key'[a].session)
      PROVE  CrowdedOut(a)'
  BY <1>1, <1>3, <1>5, <1>6, Squeezed
<1> QED BY <1>3, <1>4, <1>6 DEF WritesQueue

\* A step that records the ends of new approvals of a session, whose queue then is l, or
\* would be and is carried by a message.
RecordsIn(s, new) ==
  /\ IsBoundedDict(outcomes', MaxPending) /\ outcomes'.order \in Seq(Sessions)
  /\ \A t : t # s /\ Has(outcomes', t) =>
       Has(outcomes, t) /\ outcomes'.value[t] = outcomes.value[t]
  /\ \A a \in Approvals :
       key'[a].session # s /\ Has(outcomes, key'[a].session) /\ ~Has(outcomes', key'[a].session)
         => CrowdedOut(a)'
  /\ \A x \in Approvals : reported'[x] # <<>> <=> reported[x] # <<>> \/ x \in new

Waits(s, l) == Has(outcomes', s) /\ outcomes'.value[s] = l /\ l # <<>> /\ told' = told
Carried(s, l) ==
  ~Has(outcomes', s) /\ told' = [a \in Approvals |-> told[a] + Copies(a, l)]

LEMMA ToldStep ==
  ASSUME OutcomesInv, NEW s, NEW new, Fresh(s, new), NEW l, Fills(l, s, new),
         Waits(s, l) \/ Carried(s, l)
  PROVE  /\ told' \in [Approvals -> {0, 1}]
         /\ \A x \in Approvals :
              /\ told[x] = 1 => told'[x] = 1
              /\ ~Lists(l, x) => told'[x] = told[x]
              /\ Lists(l, x) => told[x] = 0
              /\ Lists(l, x) /\ Carried(s, l) => told'[x] = 1
              /\ Waits(s, l) => told'[x] = told[x]
<1>1. told \in [Approvals -> {0, 1}]
  BY DEF OutcomesInv, OutcomeTypes
<1>2. \A x \in Approvals : Lists(l, x) => told[x] = 0
  BY FillsAre
<1>3. l \in Seq(Approvals) /\ Distinct(l)
  BY DEF Fills
<1>4. \A x : Copies(x, l) = IF Lists(l, x) THEN 1 ELSE 0
  BY <1>3, CopiesAre
<1>5. CASE Waits(s, l)
  <2>1. told' = told
    BY <1>5 DEF Waits
  <2>2. ~Carried(s, l)
    BY <1>5 DEF Waits, Carried
  <2> QED BY <1>1, <1>2, <2>1, <2>2
<1>6. CASE Carried(s, l)
  <2>1. told' = [a \in Approvals |-> told[a] + Copies(a, l)]
    BY <1>6 DEF Carried
  <2>2. ~Waits(s, l)
    BY <1>6 DEF Waits, Carried
  <2>3. ASSUME NEW x \in Approvals
        PROVE  told'[x] = IF Lists(l, x) THEN 1 ELSE told[x]
    <3>1. told'[x] = told[x] + Copies(x, l)
      BY <2>1
    <3>2. told[x] \in {0, 1}
      BY <1>1
    <3> QED BY <1>2, <1>4, <3>1, <3>2
  <2>4. \A x \in Approvals : told'[x] \in {0, 1}
    BY <1>1, <2>3
  <2>5. told' \in [Approvals -> {0, 1}]
    BY <2>1, <2>4
  <2> QED BY <1>2, <2>2, <2>3, <2>5
<1> QED BY <1>5, <1>6

LEMMA UsedStay ==
  ASSUME OutcomesInv, Steady, NEW s, NEW new, Fresh(s, new), RecordsIn(s, new),
         NEW x \in Approvals, reported'[x] # <<>>
  PROVE  card[x] # "unused" /\ card'[x] # "unused" /\ key'[x] = key[x]
<1>1. reported[x] # <<>> \/ x \in new
  BY DEF RecordsIn
<1>2. card[x] # "unused"
  BY <1>1 DEF Fresh, OutcomesInv, UnusedAreNew
<1> QED BY <1>2 DEF Steady

LEMMA QueuesStep ==
  ASSUME OutcomesInv, Steady, NEW s, NEW new, Fresh(s, new), NEW l, Fills(l, s, new),
         RecordsIn(s, new), Waits(s, l) \/ Carried(s, l)
  PROVE  QueuesFit' /\ \A t \in DOMAIN outcomes'.value : outcomes'.value[t] \in Seq(Approvals)
<1> SUFFICES ASSUME NEW t \in DOMAIN outcomes'.value
             PROVE  LET q == outcomes'.value[t] IN
                    /\ q \in Seq(Approvals) /\ q # <<>> /\ Len(q) <= Kept /\ Distinct(q)
                    /\ \A i \in 1 .. Len(q) :
                         /\ reported'[q[i]] # <<>> /\ told'[q[i]] = 0
                         /\ key'[q[i]].session = t
  BY DEF QueuesFit
<1>1. CASE t = s
  <2>1. Waits(s, l) /\ outcomes'.value[t] = l /\ l # <<>>
    BY <1>1 DEF Waits, Carried, Has
  <2>2. l \in Seq(Approvals) /\ Len(l) <= Kept /\ Distinct(l)
    BY DEF Fills
  <2>3. ASSUME NEW i \in 1 .. Len(l)
        PROVE  reported'[l[i]] # <<>> /\ told'[l[i]] = 0 /\ key'[l[i]].session = t
    <3>1. Lists(l, l[i])
      BY DEF Lists
    <3>2. /\ l[i] \in Approvals /\ card[l[i]] # "unused" /\ key[l[i]].session = s
          /\ told[l[i]] = 0 /\ (reported[l[i]] # <<>> \/ l[i] \in new)
      BY <3>1, FillsAre
    <3>3. reported'[l[i]] # <<>> /\ key'[l[i]] = key[l[i]]
      BY <3>2 DEF RecordsIn, Steady
    <3>4. told'[l[i]] = 0
      BY <2>1, <3>2 DEF Waits
    <3> QED BY <1>1, <3>2, <3>3, <3>4
  <2> QED BY <2>1, <2>2, <2>3
<1>2. CASE t # s
  <2> DEFINE q == outcomes.value[t]
  <2>1. t \in DOMAIN outcomes.value /\ outcomes'.value[t] = q
    BY <1>2 DEF RecordsIn, Has
  <2>2. /\ q \in Seq(Approvals) /\ q # <<>> /\ Len(q) <= Kept /\ Distinct(q)
        /\ \A i \in 1 .. Len(q) : reported[q[i]] # <<>> /\ told[q[i]] = 0 /\ key[q[i]].session = t
    BY <2>1, Zenon DEF OutcomesInv, OutcomeTypes, QueuesFit
  <2> HIDE DEF q
  <2>3. ASSUME NEW i \in 1 .. Len(q)
        PROVE  reported'[q[i]] # <<>> /\ told'[q[i]] = 0 /\ key'[q[i]].session = t
    <3>1. /\ q[i] \in Approvals /\ reported[q[i]] # <<>> /\ told[q[i]] = 0
          /\ key[q[i]].session = t
      BY <2>2
    <3>2. reported'[q[i]] # <<>>
      BY <3>1 DEF RecordsIn
    <3>3. key'[q[i]] = key[q[i]]
      BY <3>1, <3>2, UsedStay
    <3>4. ~Lists(l, q[i])
      BY <1>2, <3>1, FillsAre
    <3>5. told'[q[i]] = 0
      BY <3>1, <3>4, ToldStep
    <3> QED BY <3>1, <3>2, <3>3, <3>5
  <2> QED BY <2>1, <2>2, <2>3
<1> QED BY <1>1, <1>2

LEMMA EndsStep ==
  ASSUME OutcomesInv, Steady, NEW s, NEW new, Fresh(s, new), NEW l, Fills(l, s, new),
         RecordsIn(s, new), Waits(s, l) \/ Carried(s, l)
  PROVE  EndsAreKept'
<1> SUFFICES ASSUME NEW a \in Approvals
             PROVE  /\ told'[a] = 1 => reported'[a] # <<>>
                    /\ reported'[a] # <<>> =>
                         \/ told'[a] = 1 \/ Lists(Get(outcomes', key'[a].session, <<>>), a)
                         \/ PushedOut(a)' \/ CrowdedOut(a)'
  BY DEF EndsAreKept, QueueOf
<1>t. /\ told[a] = 1 => told'[a] = 1
      /\ ~Lists(l, a) => told'[a] = told[a]
      /\ Lists(l, a) /\ Carried(s, l) => told'[a] = 1
  BY ToldStep
<1>r. reported'[a] # <<>> <=> reported[a] # <<>> \/ a \in new
  BY DEF RecordsIn
<1>u. \A x \in Approvals :
        reported'[x] # <<>> => card[x] # "unused" /\ card'[x] # "unused" /\ key'[x] = key[x]
  BY UsedStay
<1>1. told'[a] = 1 => reported'[a] # <<>>
  <2>1. told[a] = 1 => reported[a] # <<>>
    BY DEF OutcomesInv, EndsAreKept
  <2>2. Lists(l, a) => reported[a] # <<>> \/ a \in new
    BY FillsAre
  <2> QED BY <1>t, <1>r, <2>1, <2>2
<1>2. ASSUME reported'[a] # <<>>
      PROVE  \/ told'[a] = 1 \/ Lists(Get(outcomes', key'[a].session, <<>>), a)
             \/ PushedOut(a)' \/ CrowdedOut(a)'
  <2>1. card[a] # "unused" /\ card'[a] # "unused" /\ key'[a] = key[a]
    BY <1>u, <1>2
  <2>2. CASE Lists(l, a)
    <3>1. CASE Carried(s, l)
      BY <1>t, <2>2, <3>1
    <3>2. CASE Waits(s, l)
      <4>1. key'[a].session = s
        BY <2>1, <2>2, FillsAre
      <4>2. Get(outcomes', s, <<>>) = l
        BY <3>2 DEF Waits, Get
      <4> QED BY <2>2, <4>1, <4>2
    <3> QED BY <3>1, <3>2
  <2>3. CASE ~Lists(l, a) /\ key[a].session = s /\ (Lists(QueueOf(s), a) \/ a \in new)
    <3>1. l \in Seq(Approvals) /\ Distinct(l) /\ Len(l) = Kept
      BY <2>3 DEF Fills
    <3>2. ASSUME NEW i \in 1 .. Len(l)
          PROVE  key'[l[i]].session = key'[a].session /\ reported'[l[i]] # <<>>
      <4>1. Lists(l, l[i])
        BY DEF Lists
      <4>2. /\ l[i] \in Approvals /\ card[l[i]] # "unused" /\ key[l[i]].session = s
            /\ (reported[l[i]] # <<>> \/ l[i] \in new)
        BY <4>1, FillsAre
      <4>3. reported'[l[i]] # <<>> /\ key'[l[i]] = key[l[i]]
        BY <4>2 DEF RecordsIn, Steady
      <4> QED BY <2>1, <2>3, <4>2, <4>3
    <3>3. Kept \in Nat
      BY BoundsAssumption
    <3>4. PushedOut(a)'
      BY <1>u, <2>3, <3>1, <3>2, <3>3, QueuePushes
    <3> QED BY <3>4
  <2>4. CASE told[a] = 1
    BY <1>t, <2>4
  <2>5. CASE PushedOut(a)
    <3>1. \A b \in Approvals : reported[b] # <<>> => reported'[b] # <<>>
      BY DEF RecordsIn
    <3>2. Kept \in Nat /\ UnusedAreNew
      BY BoundsAssumption DEF OutcomesInv
    <3> QED BY <1>u, <2>1, <2>5, <3>1, <3>2, StaysPushed
  <2>6. CASE CrowdedOut(a)
    <3>1. MaxPending \in Nat
      BY BoundsAssumption
    <3> QED BY <2>6, <3>1, StaysCrowded
  <2>7. CASE Lists(QueueOf(key[a].session), a) /\ key[a].session # s
    <3> DEFINE t == key[a].session
    <3>1. Has(outcomes, t) /\ t # s /\ key'[a].session = t
      BY <2>1, <2>7, QueueFacts
    <3> HIDE DEF t
    <3>2. CASE Has(outcomes', t)
      <4>1. outcomes'.value[t] = outcomes.value[t]
        BY <3>1, <3>2 DEF RecordsIn
      <4>2. Get(outcomes', t, <<>>) = QueueOf(t)
        BY <3>1, <3>2, <4>1 DEF Get, QueueOf
      <4> QED BY <2>7, <3>1, <4>2 DEF t
    <3>3. CASE ~Has(outcomes', t)
      BY <3>1, <3>3 DEF RecordsIn
    <3> QED BY <3>2, <3>3
  <2>8. reported[a] # <<>> =>
          told[a] = 1 \/ Lists(QueueOf(key[a].session), a) \/ PushedOut(a) \/ CrowdedOut(a)
    BY DEF OutcomesInv, EndsAreKept
  <2>9. a \in new => key[a].session = s
    BY DEF Fresh
  <2> QED BY <1>r, <1>2, <2>2, <2>3, <2>4, <2>5, <2>6, <2>7, <2>8, <2>9
<1> QED BY <1>1, <1>2

\* A step asks for one approval at most, and what was asked for keeps its call.
LEMMA AskedForGrows ==
  ASSUME OutcomesInv, NEW a, AskedFor' \subseteq AskedFor \cup {a},
         \A b \in Approvals : card[b] # "unused" => card'[b] # "unused" /\ key'[b] = key[b]
  PROVE  Steady
<1>1. IsFiniteSet(AskedFor \cup {a})
  BY FS_AddElement DEF OutcomesInv, UnusedAreNew
<1>2. IsFiniteSet(AskedFor')
  <2> DEFINE S == AskedFor'  R == AskedFor \cup {a}
  <2>1. S \in SUBSET R
    OBVIOUS
  <2> HIDE DEF S, R
  <2>2. IsFiniteSet(R)
    BY <1>1 DEF R
  <2>3. IsFiniteSet(S)
    BY <2>1, <2>2, FS_Subset
  <2> QED BY <2>3 DEF S
<1> QED BY <1>2 DEF Steady, OutcomesInv, UnusedAreNew

LEMMA RequestSteady ==
  ASSUME OutcomesInv, NEW a \in Approvals, NEW k \in Keys, RequestApproval(a, k)
  PROVE  /\ Steady /\ card[a] = "unused" /\ card'[a] = "sending" /\ key'[a] = k
         /\ \A b \in Approvals : b # a => card'[b] = card[b] /\ key'[b] = key[b]
<1>1. /\ card[a] = "unused" /\ card' = [card EXCEPT ![a] = "sending"]
      /\ key' = [key EXCEPT ![a] = k]
  BY DEF RequestApproval
<1>2. card'[a] = "sending" /\ key'[a] = k
      /\ \A b \in Approvals : b # a => card'[b] = card[b] /\ key'[b] = key[b]
  BY <1>1 DEF OutcomesInv, IInv, Types
<1>3. AskedFor' \subseteq AskedFor \cup {a}
  BY <1>2 DEF AskedFor
<1>4. Steady
  BY <1>1, <1>2, <1>3, AskedForGrows
<1> QED BY <1>1, <1>2, <1>4

LEMMA CardSteady ==
  ASSUME OutcomesInv, UNCHANGED key, NEW a \in Approvals, NEW to, to # "unused",
         card[a] # "unused", card' = [card EXCEPT ![a] = to] \/ card' = card
  PROVE  Steady
<1>1. \A b \in Approvals : card'[b] # "unused" <=> card[b] # "unused"
  BY DEF OutcomesInv, IInv, Types
<1>2. AskedFor' \subseteq AskedFor \cup {a}
  BY <1>1 DEF AskedFor
<1> QED BY <1>1, <1>2, AskedForGrows

LEMMA SameSteady ==
  ASSUME OutcomesInv, UNCHANGED <<key, card>>
  PROVE  Steady
<1>1. AskedFor' \subseteq AskedFor \cup {NoApproval}
  BY DEF AskedFor
<1> QED BY <1>1, AskedForGrows

\* A call that ran is not undone, and its approval was asked for.
LEMMA RunsAreAsked ==
  ASSUME OutcomesInv, NEW b \in Approvals, ran[b] = 1 PROVE card[b] # "unused"
  BY DEF OutcomesInv, IInv, RunsAreApproved, IssuedWasClicked

LEMMA RunsRun ==
  ASSUME OutcomesInv, NEW k, Runs(k)
  PROVE  /\ \A b \in Approvals : ran[b] = 1 => ran'[b] = 1
         /\ \E b \in Approvals : key[b] = k /\ ran'[b] = 1 /\ card[b] # "unused"
<1> DEFINE a == tokens.value[k].by
<1>1. a \in Approvals /\ key[a] = k /\ issuedAt[a] # Never /\ ran[a] = 0
  BY DEF OutcomesInv, IInv, TokensAreBacked, Runs, TokenIsGood, Has
<1>2. ran' = [ran EXCEPT ![a] = 1]
  BY <1>1 DEF Runs, OutcomesInv, IInv, Types
<1>3. card[a] # "unused"
  BY <1>1 DEF OutcomesInv, IInv, IssuedWasClicked
<1> HIDE DEF a
<1>4. ran'[a] = 1 /\ \A b \in Approvals : b # a => ran'[b] = ran[b]
  BY <1>1, <1>2 DEF OutcomesInv, IInv, Types
<1> QED BY <1>1, <1>3, <1>4

\* What a step leaves true of runs: those there were, of commands that run, and the issue of
\* what is recorded.
RunsOn ==
  /\ \A b \in Approvals : ran[b] = 1 => ran'[b] = 1
  /\ \A a \in Approvals : command'[a] = "running" => command[a] = "running" \/ RanFor(a)'
  /\ \A a \in Approvals : reported[a] # <<>> => issuedAt'[a] = issuedAt[a]

LEMMA RanForStays ==
  ASSUME OutcomesInv, Steady, RunsOn, NEW a \in Approvals, card[a] # "unused", RanFor(a)
  PROVE  RanFor(a)'
<1>1. PICK b \in Approvals : key[b] = key[a] /\ ran[b] = 1
  BY DEF RanFor
<1>2. card[b] # "unused"
  BY <1>1, RunsAreAsked
<1>3. key'[b] = key'[a] /\ ran'[b] = 1
  BY <1>1, <1>2 DEF Steady, RunsOn
<1> QED BY <1>3 DEF RanFor

\* The status of an outcome is true of an approval.
TrueOf(a, status) ==
  /\ status \in {"denied", "expired"} => issuedAt'[a] = Never
  /\ status = "ran" => RanFor(a)

LEMMA TrueStep ==
  ASSUME OutcomesInv, Steady, RunsOn,
         \A a \in Approvals :
           \/ reported'[a] = reported[a]
           \/ /\ reported[a] = <<>> /\ card[a] # "unused"
              /\ \E status \in OutcomeStatuses :
                   reported'[a] = <<status>> /\ TrueOf(a, status)
  PROVE  ReportsAreTrue'
<1> SUFFICES ASSUME NEW a \in Approvals
             PROVE  /\ Len(reported'[a]) <= 1
                    /\ \A i \in 1 .. Len(reported'[a]) :
                         /\ reported'[a][i] \in {"denied", "expired"} => issuedAt'[a] = Never
                         /\ reported'[a][i] = "ran" => RanFor(a)'
                    /\ command'[a] = "running" => RanFor(a)'
  BY DEF ReportsAreTrue, Never
<1>1. command'[a] = "running" => RanFor(a)'
  <2>1. CASE command[a] = "running"
    <3>1. card[a] # "unused" /\ RanFor(a)
      BY <2>1 DEF OutcomesInv, UnusedAreNew, ReportsAreTrue
    <3> QED BY <3>1, RanForStays
  <2> QED BY <2>1 DEF RunsOn
<1>2. CASE reported'[a] = reported[a]
  <2>1. /\ Len(reported[a]) <= 1
        /\ \A i \in 1 .. Len(reported[a]) :
             /\ reported[a][i] \in {"denied", "expired"} => issuedAt[a] = Never
             /\ reported[a][i] = "ran" => RanFor(a)
    BY DEF OutcomesInv, ReportsAreTrue
  <2>2. CASE reported[a] = <<>>
    <3>1. reported'[a] = <<>>
      BY <1>2, <2>2
    <3> QED BY <1>1, <3>1
  <2>3. CASE reported[a] # <<>>
    <3>1. card[a] # "unused" /\ issuedAt'[a] = issuedAt[a]
      BY <2>3 DEF OutcomesInv, UnusedAreNew, RunsOn
    <3>2. RanFor(a) => RanFor(a)'
      BY <3>1, RanForStays
    <3> QED BY <1>1, <1>2, <2>1, <3>1, <3>2
  <2> QED BY <2>2, <2>3
<1>3. CASE reported'[a] # reported[a]
  <2>1. PICK status \in OutcomeStatuses : reported'[a] = <<status>> /\ TrueOf(a, status)
    BY <1>3
  <2>2. card[a] # "unused"
    BY <1>3
  <2>3. Len(reported'[a]) = 1 /\ reported'[a][1] = status
    BY <2>1
  <2>4. RanFor(a) => RanFor(a)'
    BY <2>2, RanForStays
  <2> QED BY <1>1, <2>1, <2>3, <2>4 DEF TrueOf
<1> QED BY <1>2, <1>3

\* An approval with a card leaves one of its places for the next, or is pushed out.
GoesOn ==
  \A a \in Approvals :
    /\ card'[a] \in {"sending", "posted"} =>
         card[a] \in {"sending", "posted"} \/ Has(pending', a)
    /\ card'[a] \in {"sending", "posted"} /\ Has(pending, a) =>
         Has(pending', a) \/ Clicked(a)' \/ reported'[a] # <<>> \/ CrowdedOut(a)'
    /\ Clicked(a) => Clicked(a)' \/ command'[a] \in Going \/ reported'[a] # <<>>
    /\ command[a] \in Going => command'[a] \in Going \/ reported'[a] # <<>>
    /\ reported[a] # <<>> => reported'[a] # <<>>

LEMMA VanishStep ==
  ASSUME OutcomesInv, Steady, GoesOn PROVE NothingVanishes'
<1> SUFFICES ASSUME NEW a \in Approvals, card'[a] \in {"sending", "posted"}
             PROVE  \/ Has(pending', a) \/ Clicked(a)' \/ command'[a] \in Going
                    \/ reported'[a] # <<>> \/ CrowdedOut(a)'
  BY DEF NothingVanishes, Has
<1>1. CrowdedOut(a) => CrowdedOut(a)'
  BY BoundsAssumption, StaysCrowded
<1>2. card[a] \in {"sending", "posted"} \/ Has(pending', a)
  BY DEF GoesOn
<1>3. CASE card[a] \in {"sending", "posted"}
  <2>1. \/ Has(pending, a) \/ Clicked(a) \/ command[a] \in Going
        \/ reported[a] # <<>> \/ CrowdedOut(a)
    BY <1>3 DEF OutcomesInv, NothingVanishes
  <2> QED BY <1>1, <2>1 DEF GoesOn
<1> QED BY <1>2, <1>3

\* Steps that record nothing leave the queues alone.
LEMMA QueuesRest ==
  ASSUME OutcomesInv, Steady, UNCHANGED <<reported, outcomes, told>>
  PROVE  QueuesFit' /\ EndsAreKept'
<1>1. \A a \in Approvals : reported[a] # <<>> => card[a] # "unused"
  BY DEF OutcomesInv, UnusedAreNew
<1>2. \A a \in Approvals :
        reported[a] # <<>> => key'[a] = key[a] /\ card'[a] # "unused"
  BY <1>1 DEF Steady
<1>3. QueuesFit'
  <2> SUFFICES ASSUME NEW t \in DOMAIN outcomes.value
               PROVE  LET q == outcomes.value[t] IN
                      /\ q # <<>> /\ Len(q) <= Kept /\ Distinct(q)
                      /\ \A i \in 1 .. Len(q) :
                           reported[q[i]] # <<>> /\ told[q[i]] = 0 /\ key'[q[i]].session = t
    BY DEF QueuesFit
  <2> DEFINE q == outcomes.value[t]
  <2>1. /\ q \in Seq(Approvals) /\ q # <<>> /\ Len(q) <= Kept /\ Distinct(q)
        /\ \A i \in 1 .. Len(q) : reported[q[i]] # <<>> /\ told[q[i]] = 0 /\ key[q[i]].session = t
    BY Zenon DEF OutcomesInv, OutcomeTypes, QueuesFit
  <2> HIDE DEF q
  <2>2. \A i \in 1 .. Len(q) : key'[q[i]].session = t
    BY <1>2, <2>1
  <2> QED BY <2>1, <2>2 DEF q
<1>4. EndsAreKept'
  <2> SUFFICES ASSUME NEW a \in Approvals, reported[a] # <<>>
               PROVE  \/ told[a] = 1 \/ Lists(Get(outcomes, key'[a].session, <<>>), a)
                      \/ PushedOut(a)' \/ CrowdedOut(a)'
    BY DEF EndsAreKept, OutcomesInv, QueueOf
  <2>1. key'[a] = key[a] /\ card[a] # "unused"
    BY <1>1, <1>2
  <2>2. CrowdedOut(a) => CrowdedOut(a)'
    BY BoundsAssumption, StaysCrowded
  <2>3. PushedOut(a) => PushedOut(a)'
    <3>1. Kept \in Nat /\ UnusedAreNew
      BY BoundsAssumption DEF OutcomesInv
    <3> QED BY <1>2, <2>1, <3>1, StaysPushed
  <2>4. \/ told[a] = 1 \/ Lists(QueueOf(key[a].session), a) \/ PushedOut(a) \/ CrowdedOut(a)
    BY DEF OutcomesInv, EndsAreKept
  <2> QED BY <2>1, <2>2, <2>3, <2>4 DEF QueueOf
<1> QED BY <1>3, <1>4

NewAreNew ==
  \A a \in Approvals :
    IF card'[a] = "unused"
    THEN command'[a] = "none" /\ reported'[a] = <<>> /\ told'[a] = 0 /\ ~Clicked(a)'
    ELSE key'[a] \in Keys

LEMMA RestKeeps ==
  ASSUME OutcomesInv, IInv', Steady, RunsOn, GoesOn, NewAreNew, StagesExclude',
         UNCHANGED <<reported, outcomes, told>>,
         command' \in [Approvals -> {"none", "queued", "running", "refused", "done"}],
         IsBoundedDict(pending', MaxPending), pending'.order \in Seq(Approvals)
  PROVE  OutcomesInv'
<1>1. OutcomeTypes'
  BY DEF OutcomesInv, OutcomeTypes, OutcomeStatuses, IsBoundedDict, Sessions
<1>2. UnusedAreNew'
  BY DEF Steady, NewAreNew, UnusedAreNew
<1>3. ReportsAreTrue'
  BY TrueStep
<1>4. QueuesFit' /\ EndsAreKept'
  BY QueuesRest
<1>5. NothingVanishes'
  BY VanishStep
<1> QED BY <1>1, <1>2, <1>3, <1>4, <1>5 DEF OutcomesInv

\* Steps that touch no approval.
LEMMA QuietKeeps ==
  ASSUME OutcomesInv, IInv', \A b \in Approvals : ran[b] = 1 => ran'[b] = 1,
         UNCHANGED <<key, card, pending, click, command, outcomes, reported, told, issuedAt>>
  PROVE  OutcomesInv'
<1>1. Steady
  BY SameSteady
<1>2. RunsOn /\ GoesOn
  BY DEF RunsOn, GoesOn, Clicked, Going
<1>3. NewAreNew
  BY DEF OutcomesInv, UnusedAreNew, NewAreNew, Clicked
<1>4. StagesExclude'
  BY DEF OutcomesInv, StagesExclude, Clicked, Has, Going
<1>5. /\ command' \in [Approvals -> {"none", "queued", "running", "refused", "done"}]
      /\ IsBoundedDict(pending', MaxPending) /\ pending'.order \in Seq(Approvals)
  BY DEF OutcomesInv, OutcomeTypes
<1> QED BY <1>1, <1>2, <1>3, <1>4, <1>5, RestKeeps

LEMMA PendingFacts ==
  ASSUME OutcomesInv, NEW b, Has(pending, b)
  PROVE  /\ b \in Approvals /\ card[b] # "unused" /\ key[b] \in Keys /\ issuedAt[b] = Never
         /\ ~Clicked(b) /\ command[b] = "none" /\ reported[b] = <<>>
<1>1. b \in Approvals /\ card[b] # "unused" /\ issuedAt[b] = Never
  BY DEF OutcomesInv, IInv, PendingIsFresh, Has
<1> QED BY <1>1 DEF OutcomesInv, UnusedAreNew, StagesExclude

LEMMA DictPops ==
  ASSUME OutcomesInv, NEW a, pending' = Pop(pending, a)
  PROVE  /\ IsBoundedDict(pending', MaxPending) /\ pending'.order \in Seq(Approvals)
         /\ \A b : Has(pending', b) <=> Has(pending, b) /\ b # a
<1>1. IsBoundedDict(pending, MaxPending) /\ pending.order \in Seq(Approvals) /\ MaxPending \in Nat
  BY BoundsAssumption DEF OutcomesInv, OutcomeTypes
<1> QED BY <1>1, PopKeepsDict

\* Asking for an approval drops the oldest at most, which is then crowded out.
LEMMA RequestKeeps ==
  ASSUME OutcomesInv, IInv', NEW a \in Approvals, NEW k \in Keys, RequestApproval(a, k),
         UNCHANGED <<click, command, outcomes, reported, told, issuedAt, ran>>
  PROVE  OutcomesInv'
<1>1. /\ Steady /\ card[a] = "unused" /\ card'[a] = "sending" /\ key'[a] = k
      /\ \A b \in Approvals : b # a => card'[b] = card[b] /\ key'[b] = key[b]
  BY RequestSteady
<1>2. Wrote(pending', pending, a, TRUE, MaxPending, Approvals)
  <2>1. /\ IsBoundedDict(pending, MaxPending) /\ pending.order \in Seq(Approvals)
        /\ MaxPending \in Nat \ {0}
    BY BoundsAssumption DEF OutcomesInv, OutcomeTypes
  <2>2. pending' = Put(pending, a, TRUE, MaxPending)
    BY DEF RequestApproval
  <2> QED BY <2>1, <2>2, PutKeepsDict
<1>3. /\ IsBoundedDict(pending', MaxPending) /\ pending'.order \in Seq(Approvals)
      /\ Has(pending', a) /\ \A b : b # a /\ Has(pending', b) => Has(pending, b)
      /\ \A b : Has(pending, b) /\ ~Has(pending', b) => Len(pending'.order) = MaxPending
  BY <1>2 DEF Wrote
<1>4. command[a] = "none" /\ reported[a] = <<>> /\ told[a] = 0 /\ ~Clicked(a)
  BY <1>1 DEF OutcomesInv, UnusedAreNew
<1>5. ASSUME NEW b \in Approvals, Has(pending, b), ~Has(pending', b) PROVE CrowdedOut(b)'
  <2> DEFINE f == [i \in 1 .. MaxPending |-> pending'.order[i]]
  <2>1. MaxPending \in Nat
    BY BoundsAssumption
  <2>2. Distinct(pending'.order) /\ \A x : Lists(pending'.order, x) <=> Has(pending', x)
    BY <1>3, OrderLists
  <2>3. Len(pending'.order) = MaxPending
    BY <1>3, <1>5
  <2>4. ASSUME NEW i \in 1 .. MaxPending
        PROVE  pending'.order[i] \in AskedFor' \ {b}
    <3>1. Has(pending', pending'.order[i]) /\ pending'.order[i] \in Approvals
      BY <1>3, <2>2, <2>3 DEF Lists
    <3>2. card'[pending'.order[i]] # "unused"
      BY <1>1, <1>3, <3>1, PendingFacts
    <3> QED BY <1>5, <3>1, <3>2 DEF AskedFor
  <2>5. f \in [1 .. MaxPending -> AskedFor' \ {b}]
    BY <2>4
  <2>6. \A i, j \in 1 .. MaxPending : f[i] = f[j] => i = j
    BY <2>2, <2>3 DEF Distinct
  <2> HIDE DEF f
  <2> QED BY <1>1, <2>1, <2>5, <2>6, DictCrowds
<1>6. RunsOn
  BY DEF RunsOn
<1>7. GoesOn
  BY <1>1, <1>3, <1>5 DEF GoesOn, Clicked, Going
<1>8. NewAreNew
  BY <1>1 DEF OutcomesInv, UnusedAreNew, NewAreNew, Clicked
<1>9. StagesExclude'
  <2>1. \A b \in Approvals : Has(pending', b) =>
          ~Clicked(b) /\ command[b] = "none" /\ reported[b] = <<>>
    BY <1>3, <1>4, PendingFacts
  <2> QED BY <2>1 DEF OutcomesInv, StagesExclude, Clicked, Has, Going
<1>10. command' \in [Approvals -> {"none", "queued", "running", "refused", "done"}]
  BY DEF OutcomesInv, OutcomeTypes
<1> QED BY <1>1, <1>3, <1>6, <1>7, <1>8, <1>9, <1>10, RestKeeps

\* The send of a card ends.
LEMMA CardEnds ==
  ASSUME OutcomesInv, IInv', NEW a \in Approvals, CardSent(a) \/ CardFails(a)
  PROVE  OutcomesInv'
<1> DEFINE to == IF CardSent(a) THEN "posted" ELSE "failed"
<1>1. /\ card[a] = "sending" /\ card' = [card EXCEPT ![a] = to]
      /\ UNCHANGED <<key, click, command, outcomes, reported, told, issuedAt, ran>>
  BY DEF CardSent, CardFails, histVars
<1>2. pending' = pending \/ (pending' = Pop(pending, a) /\ to = "failed")
  BY DEF CardSent, CardFails
<1>3. to \in {"posted", "failed"}
  OBVIOUS
<1> HIDE DEF to
<1>4. Steady
  BY <1>1, <1>3, CardSteady
<1>5. card'[a] = to /\ \A b \in Approvals : b # a => card'[b] = card[b]
  BY <1>1 DEF OutcomesInv, IInv, Types
<1>6. /\ IsBoundedDict(pending', MaxPending) /\ pending'.order \in Seq(Approvals)
      /\ \A b : Has(pending', b) => Has(pending, b)
      /\ \A b : Has(pending, b) => Has(pending', b) \/ (b = a /\ to = "failed")
  BY <1>2, DictPops DEF OutcomesInv, OutcomeTypes
<1>7. RunsOn
  BY <1>1 DEF RunsOn
<1>8. GoesOn
  BY <1>1, <1>5, <1>6 DEF GoesOn, Clicked, Going
<1>9. NewAreNew
  BY <1>1, <1>3, <1>5 DEF OutcomesInv, UnusedAreNew, NewAreNew, Clicked
<1>10. StagesExclude'
  BY <1>1, <1>6 DEF OutcomesInv, StagesExclude, Clicked, Has, Going
<1>11. command' \in [Approvals -> {"none", "queued", "running", "refused", "done"}]
  BY <1>1 DEF OutcomesInv, OutcomeTypes
<1> QED BY <1>1, <1>4, <1>6, <1>7, <1>8, <1>9, <1>10, <1>11, RestKeeps

LEMMA ClickFacts ==
  ASSUME OutcomesInv, NEW c \in Clicks, click[c].at # "idle"
  PROVE  LET a == click[c].id IN
         /\ a \in Approvals /\ a # NoApproval /\ Clicked(a) /\ card[a] # "unused"
         /\ ~Has(pending, a) /\ command[a] = "none" /\ reported[a] = <<>>
         /\ \A d \in Clicks : click[d].id = a => d = c
<1> DEFINE a == click[c].id
<1>1. a # NoApproval /\ a \in Approvals \cup {NoApproval}
  BY DEF OutcomesInv, StagesExclude, IInv, Types
<1>2. a \in Approvals /\ Clicked(a)
  BY <1>1 DEF Clicked
<1>3. \A d \in Clicks : click[d].id = a => d = c
  BY <1>1 DEF OutcomesInv, StagesExclude
<1> HIDE DEF a
<1>4. command[a] = "none" /\ reported[a] = <<>> /\ ~Has(pending, a)
  BY <1>2 DEF OutcomesInv, StagesExclude
<1>5. card[a] # "unused"
  BY <1>2 DEF OutcomesInv, UnusedAreNew
<1> QED BY <1>1, <1>2, <1>3, <1>4, <1>5 DEF a

\* A click takes its approval from the pending ones.
LEMMA TakenKeeps ==
  ASSUME OutcomesInv, IInv', NEW c \in Clicks, NEW a \in Approvals, NEW p \in Admins,
         NEW decision, ClickTaken(c, a, p, decision), click[c].at = "idle",
         UNCHANGED <<key, card, command, told, issuedAt, ran>>
  PROVE  OutcomesInv'
<1>1. /\ card[a] # "unused" /\ ~Clicked(a) /\ command[a] = "none" /\ reported[a] = <<>>
      /\ Has(pending, a)
  BY PendingFacts DEF ClickTaken
<1>2. /\ IsBoundedDict(pending', MaxPending) /\ pending'.order \in Seq(Approvals)
      /\ \A b : Has(pending', b) <=> Has(pending, b) /\ b # a
  BY DictPops DEF ClickTaken
<1>3. /\ click'[c].at = "acking" /\ click'[c].id = a
      /\ \A d \in Clicks : d # c => click'[d] = click[d]
  BY DEF ClickTaken, Acknowledges, OutcomesInv, IInv, Types
<1>4. click[c].id = NoApproval /\ a # NoApproval
  BY NoApprovalAssumption DEF OutcomesInv, StagesExclude
<1>5. \A b \in Approvals : Clicked(b)' <=> Clicked(b) \/ b = a
  BY <1>3, <1>4, NoApprovalAssumption DEF Clicked
<1>6. Steady
  BY SameSteady
<1>7. UNCHANGED <<reported, outcomes>>
  BY DEF ClickTaken
<1>8. RunsOn
  BY <1>7 DEF RunsOn
<1>9. GoesOn
  BY <1>2, <1>5, <1>7 DEF GoesOn, Going
<1>10. NewAreNew
  BY <1>1, <1>5, <1>7 DEF OutcomesInv, UnusedAreNew, NewAreNew
<1>11. StagesExclude'
  <2>1. \A b \in Approvals :
          /\ Has(pending', b) => ~Clicked(b)' /\ command'[b] = "none" /\ reported'[b] = <<>>
          /\ Clicked(b)' => command'[b] = "none" /\ reported'[b] = <<>>
          /\ command'[b] \in Going => reported'[b] = <<>>
    BY <1>1, <1>2, <1>5, <1>7, PendingFacts DEF OutcomesInv, StagesExclude
  <2>2. ASSUME NEW d \in Clicks
        PROVE  /\ click'[d].at = "idle" <=> click'[d].id = NoApproval
               /\ \A e \in Clicks :
                    click'[d].id # NoApproval /\ click'[e].id = click'[d].id => e = d
    <3>1. \A e \in Clicks : e # c => click'[e].id # a
      BY <1>1, <1>3 DEF Clicked
    <3> QED BY <1>3, <1>4, <3>1 DEF OutcomesInv, StagesExclude
  <2> QED BY <2>1, <2>2 DEF StagesExclude, Has, Going
<1>12. command' \in [Approvals -> {"none", "queued", "running", "refused", "done"}]
  BY DEF OutcomesInv, OutcomeTypes
<1> QED BY <1>2, <1>6, <1>7, <1>8, <1>9, <1>10, <1>11, <1>12, RestKeeps

\* A click that goes on, or raises, holds its approval; issuing a token is for one of which
\* nothing is recorded.
LEMMA HoldsKeeps ==
  ASSUME OutcomesInv, IInv', NEW c \in Clicks, AckRaises(c) \/ CompleteAllow(c)
  PROVE  OutcomesInv'
<1> DEFINE a == click[c].id
<1>1. /\ click[c].at = "acking"
      /\ UNCHANGED <<key, card, pending, command, outcomes, reported, told, ran>>
  BY DEF AckRaises, CompleteAllow, histVars
<1>2. /\ \A d \in Clicks : click'[d].id = click[d].id
      /\ \A d \in Clicks : click'[d].at = "idle" <=> click[d].at = "idle"
  BY <1>1 DEF AckRaises, CompleteAllow, OutcomesInv, IInv, Types
<1>3. reported[a] = <<>> /\ a \in Approvals
  BY <1>1, ClickFacts
<1>4. \A b \in Approvals : b # a => issuedAt'[b] = issuedAt[b]
  BY DEF AckRaises, CompleteAllow, histVars, OutcomesInv, IInv, Types
<1> HIDE DEF a
<1>5. \A b : Clicked(b)' <=> Clicked(b)
  BY <1>2 DEF Clicked
<1>6. Steady
  BY <1>1, SameSteady
<1>7. RunsOn
  BY <1>1, <1>3, <1>4 DEF RunsOn
<1>8. GoesOn
  BY <1>1, <1>5 DEF GoesOn
<1>9. NewAreNew
  BY <1>1, <1>5 DEF OutcomesInv, UnusedAreNew, NewAreNew
<1>10. StagesExclude'
  BY <1>1, <1>2, <1>5 DEF OutcomesInv, StagesExclude, Has, Going
<1>11. /\ command' \in [Approvals -> {"none", "queued", "running", "refused", "done"}]
       /\ IsBoundedDict(pending', MaxPending) /\ pending'.order \in Seq(Approvals)
  BY <1>1 DEF OutcomesInv, OutcomeTypes
<1> QED BY <1>1, <1>6, <1>7, <1>8, <1>9, <1>10, <1>11, RestKeeps

\* Dispatching hands the approval to its command.
LEMMA DispatchedKeeps ==
  ASSUME OutcomesInv, IInv', NEW c \in Clicks, Dispatched(c)
  PROVE  OutcomesInv'
<1> DEFINE a == click[c].id
<1>1. /\ click[c].at # "idle" /\ command' = [command EXCEPT ![a] = "queued"]
      /\ click' = [click EXCEPT ![c] = NoClick]
      /\ UNCHANGED <<key, card, pending, outcomes, reported, told, issuedAt, ran>>
  BY DEF Dispatched, Done, histVars
<1>2. /\ a \in Approvals /\ a # NoApproval /\ card[a] # "unused"
      /\ ~Has(pending, a) /\ command[a] = "none" /\ reported[a] = <<>>
      /\ \A d \in Clicks : click[d].id = a => d = c
  BY <1>1, ClickFacts
<1>3. /\ click'[c].at = "idle" /\ click'[c].id = NoApproval
      /\ \A d \in Clicks : d # c => click'[d] = click[d]
  BY <1>1 DEF NoClick, OutcomesInv, IInv, Types
<1>4. command'[a] = "queued" /\ \A b \in Approvals : b # a => command'[b] = command[b]
  BY <1>1, <1>2 DEF OutcomesInv, OutcomeTypes
<1>5. \A b \in Approvals : Clicked(b)' <=> Clicked(b) /\ b # a
  <2> SUFFICES ASSUME NEW b \in Approvals PROVE Clicked(b)' <=> Clicked(b) /\ b # a
    OBVIOUS
  <2>1. b # NoApproval
    BY NoApprovalAssumption
  <2>2. Clicked(b)' => Clicked(b) /\ b # a
    BY <1>2, <1>3, <2>1 DEF Clicked
  <2>3. Clicked(b) /\ b # a => Clicked(b)'
    BY <1>3 DEF Clicked
  <2> QED BY <2>2, <2>3
<1>6. command' \in [Approvals -> {"none", "queued", "running", "refused", "done"}]
  BY <1>1, <1>2 DEF OutcomesInv, OutcomeTypes
<1> HIDE DEF a
<1>7. Steady
  BY <1>1, SameSteady
<1>8. RunsOn
  BY <1>1, <1>2, <1>4 DEF RunsOn
<1>9. GoesOn
  BY <1>1, <1>4, <1>5 DEF GoesOn, Going
<1>10. NewAreNew
  BY <1>1, <1>2, <1>4, <1>5 DEF OutcomesInv, UnusedAreNew, NewAreNew
<1>11. StagesExclude'
  <2>1. \A b \in Approvals :
          /\ Has(pending', b) => ~Clicked(b)' /\ command'[b] = "none" /\ reported'[b] = <<>>
          /\ Clicked(b)' => command'[b] = "none" /\ reported'[b] = <<>>
          /\ command'[b] \in Going => reported'[b] = <<>>
    BY <1>1, <1>2, <1>4, <1>5 DEF OutcomesInv, StagesExclude
  <2>2. \A d \in Clicks :
          /\ click'[d].at = "idle" <=> click'[d].id = NoApproval
          /\ \A e \in Clicks :
               click'[d].id # NoApproval /\ click'[e].id = click'[d].id => e = d
    BY <1>3 DEF OutcomesInv, StagesExclude
  <2> QED BY <2>1, <2>2 DEF StagesExclude, Has, Going
<1>12. IsBoundedDict(pending', MaxPending) /\ pending'.order \in Seq(Approvals)
  BY <1>1 DEF OutcomesInv, OutcomeTypes
<1> QED BY <1>1, <1>6, <1>7, <1>8, <1>9, <1>10, <1>11, <1>12, RestKeeps

\* A command runs, or is refused.
LEMMA CommandGoes ==
  ASSUME OutcomesInv, IInv', NEW a \in Approvals, CommandRuns(a) \/ CommandRefused(a)
  PROVE  OutcomesInv'
<1> DEFINE to == IF CommandRuns(a) THEN "running" ELSE "refused"
<1>1. /\ command[a] = "queued" /\ command' = [command EXCEPT ![a] = to]
      /\ UNCHANGED <<key, card, pending, click, outcomes, reported, told, issuedAt>>
  BY DEF CommandRuns, CommandRefused, histVars
<1>2. /\ \A b \in Approvals : ran[b] = 1 => ran'[b] = 1
      /\ to = "running" => \E b \in Approvals : key[b] = key[a] /\ ran'[b] = 1
  <2>1. CASE CommandRuns(a)
    BY <2>1, RunsRun DEF CommandRuns
  <2>2. CASE ~CommandRuns(a)
    BY <2>2 DEF CommandRefused
  <2> QED BY <2>1, <2>2
<1>3. to \in {"running", "refused"}
  OBVIOUS
<1> HIDE DEF to
<1>4. command'[a] = to /\ \A b \in Approvals : b # a => command'[b] = command[b]
  BY <1>1 DEF OutcomesInv, OutcomeTypes
<1>5. command' \in [Approvals -> {"none", "queued", "running", "refused", "done"}]
  BY <1>1, <1>3 DEF OutcomesInv, OutcomeTypes
<1>6. card[a] # "unused" /\ reported[a] = <<>> /\ ~Clicked(a) /\ ~Has(pending, a)
  BY <1>1 DEF OutcomesInv, UnusedAreNew, StagesExclude, Going
<1>7. \A b : Clicked(b)' <=> Clicked(b)
  BY <1>1 DEF Clicked
<1>8. Steady
  BY <1>1, SameSteady
<1>9. RunsOn
  BY <1>1, <1>2, <1>4 DEF RunsOn, RanFor
<1>10. GoesOn
  BY <1>1, <1>3, <1>4, <1>7 DEF GoesOn, Going
<1>11. NewAreNew
  BY <1>1, <1>4, <1>6, <1>7 DEF OutcomesInv, UnusedAreNew, NewAreNew
<1>12. StagesExclude'
  BY <1>1, <1>4, <1>6, <1>7 DEF OutcomesInv, StagesExclude, Has, Going
<1>13. IsBoundedDict(pending', MaxPending) /\ pending'.order \in Seq(Approvals)
  BY <1>1 DEF OutcomesInv, OutcomeTypes
<1> QED BY <1>1, <1>5, <1>8, <1>9, <1>10, <1>11, <1>12, <1>13, RestKeeps

\* The clicks' side of StagesExclude.
ClicksExclude ==
  \A c \in Clicks :
    /\ click[c].at = "idle" <=> click[c].id = NoApproval
    /\ \A d \in Clicks : click[c].id # NoApproval /\ click[d].id = click[c].id => d = c

\* Steps that record outcomes of one session.
LEMMA RecordsKeep ==
  ASSUME OutcomesInv, IInv', UNCHANGED <<key, card>>,
         NEW s, NEW new, Fresh(s, new), NEW l, Fills(l, s, new),
         RecordsIn(s, new), Waits(s, l) \/ Carried(s, l), RunsOn, GoesOn, NewAreNew, StagesExclude',
         reported' \in [Approvals -> Seq(OutcomeStatuses)],
         \A a \in Approvals :
           \/ reported'[a] = reported[a]
           \/ /\ reported[a] = <<>> /\ card[a] # "unused"
              /\ \E status \in OutcomeStatuses :
                   reported'[a] = <<status>> /\ TrueOf(a, status),
         command' \in [Approvals -> {"none", "queued", "running", "refused", "done"}],
         IsBoundedDict(pending', MaxPending), pending'.order \in Seq(Approvals)
  PROVE  OutcomesInv'
<1>1. Steady
  BY SameSteady
<1>2. QueuesFit' /\ \A t \in DOMAIN outcomes'.value : outcomes'.value[t] \in Seq(Approvals)
  BY <1>1, QueuesStep
<1>3. told' \in [Approvals -> {0, 1}]
  BY ToldStep
<1>4. IsBoundedDict(outcomes', MaxPending) /\ outcomes'.order \in Seq(Sessions)
  BY DEF RecordsIn
<1>5. OutcomeTypes'
  BY <1>2, <1>3, <1>4 DEF OutcomeTypes, OutcomeStatuses, IsBoundedDict, Sessions
<1>6. UnusedAreNew'
  BY <1>1 DEF Steady, NewAreNew, UnusedAreNew
<1>7. ReportsAreTrue'
  BY <1>1, TrueStep
<1>8. EndsAreKept'
  BY <1>1, EndsStep
<1>9. NothingVanishes'
  BY <1>1, VanishStep
<1> QED BY <1>2, <1>5, <1>6, <1>7, <1>8, <1>9 DEF OutcomesInv

\* An outcome that is recorded of an approval which leaves its place.
LEMMA RecordKeeps ==
  ASSUME OutcomesInv, IInv', UNCHANGED <<key, card, told, issuedAt, ran>>,
         NEW a \in Approvals, reported[a] = <<>>, card[a] # "unused",
         NEW status \in OutcomeStatuses, RecordOutcome(a, status), TrueOf(a, status),
         ~Has(pending', a), ~Clicked(a)', command'[a] \notin Going, ClicksExclude',
         \A b \in Approvals : b # a => command'[b] = command[b] /\ (Clicked(b)' <=> Clicked(b)),
         command' \in [Approvals -> {"none", "queued", "running", "refused", "done"}],
         IsBoundedDict(pending', MaxPending), pending'.order \in Seq(Approvals),
         \A b : b # a => (Has(pending', b) <=> Has(pending, b))
  PROVE  OutcomesInv'
<1> DEFINE s == key[a].session  l == LastOf(Append(QueueOf(s), a), Kept)
<1>1. Steady
  BY SameSteady
<1>2. s \in Sessions
  BY DEF OutcomesInv, UnusedAreNew, Sessions
<1>3. Fresh(s, {a})
  BY DEF Fresh
<1>4. Fills(l, s, {a})
  BY RecordFills
<1>5. /\ outcomes' = Put(outcomes, s, l, MaxPending)
      /\ reported' = [reported EXCEPT ![a] = Append(@, status)]
  BY DEF RecordOutcome
<1>6. /\ reported'[a] = <<status>> /\ \A b \in Approvals : b # a => reported'[b] = reported[b]
      /\ reported' \in [Approvals -> Seq(OutcomeStatuses)] /\ reported'[a] # <<>>
  <2>1. reported \in [Approvals -> Seq(OutcomeStatuses)] /\ Append(reported[a], status) = <<status>>
    BY DEF OutcomesInv, OutcomeTypes
  <2>2. <<status>> \in Seq(OutcomeStatuses) /\ <<status>> # <<>>
    OBVIOUS
  <2> QED BY <1>5, <2>1, <2>2
<1> HIDE DEF l, s
<1>7. WritesQueue(outcomes', s, l)
  <2>1. {a} # {}
    OBVIOUS
  <2> QED BY <1>1, <1>2, <1>3, <1>4, <1>5, <2>1, PutSqueezes
<1>8. RecordsIn(s, {a})
  <2>1. \A x \in Approvals : reported'[x] # <<>> <=> reported[x] # <<>> \/ x \in {a}
    BY <1>6
  <2> QED BY <1>7, <2>1 DEF RecordsIn, WritesQueue
<1>9. Waits(s, l)
  BY <1>7 DEF Waits, WritesQueue
<1>10. RunsOn
  BY DEF RunsOn, Going
<1>11. GoesOn
  BY <1>6 DEF GoesOn
<1>12. NewAreNew
  <2>1. \A b \in Approvals : b # a => (Clicked(b)' <=> Clicked(b)) /\ reported'[b] = reported[b]
    BY <1>6
  <2> QED BY <2>1 DEF OutcomesInv, UnusedAreNew, NewAreNew
<1>13. StagesExclude'
  <2>1. \A b \in Approvals :
          /\ Has(pending', b) => ~Clicked(b)' /\ command'[b] = "none" /\ reported'[b] = <<>>
          /\ Clicked(b)' => command'[b] = "none" /\ reported'[b] = <<>>
          /\ command'[b] \in Going => reported'[b] = <<>>
    BY <1>6 DEF OutcomesInv, StagesExclude
  <2> QED BY <2>1 DEF ClicksExclude, StagesExclude, Has, Going
<1>14. \A b \in Approvals :
         \/ reported'[b] = reported[b]
         \/ /\ reported[b] = <<>> /\ card[b] # "unused"
            /\ \E st \in OutcomeStatuses : reported'[b] = <<st>> /\ TrueOf(b, st)
  BY <1>6
<1> QED BY <1>3, <1>4, <1>6, <1>8, <1>9, <1>10, <1>11, <1>12, <1>13, <1>14, RecordsKeep

\* begin_approval_click of an expired approval.
LEMMA LateKeeps ==
  ASSUME OutcomesInv, IInv', NEW a \in Approvals, ClickTooLate(a),
         UNCHANGED <<key, card, command, told, issuedAt, ran>>
  PROVE  OutcomesInv'
<1>1. Has(pending, a) /\ pending' = Pop(pending, a) /\ RecordOutcome(a, "expired") /\ click' = click
  BY DEF ClickTooLate
<1>2. /\ card[a] # "unused" /\ issuedAt[a] = Never /\ ~Clicked(a) /\ command[a] = "none"
      /\ reported[a] = <<>>
  BY <1>1, PendingFacts
<1>3. /\ IsBoundedDict(pending', MaxPending) /\ pending'.order \in Seq(Approvals)
      /\ \A b : Has(pending', b) <=> Has(pending, b) /\ b # a
  BY <1>1, DictPops
<1>4. "expired" \in OutcomeStatuses /\ TrueOf(a, "expired")
  BY <1>2 DEF OutcomeStatuses, TrueOf
<1>5. \A b : Clicked(b)' <=> Clicked(b)
  BY <1>1 DEF Clicked
<1>6. ClicksExclude'
  BY <1>1 DEF OutcomesInv, StagesExclude, ClicksExclude
<1>7. command' \in [Approvals -> {"none", "queued", "running", "refused", "done"}]
  BY DEF OutcomesInv, OutcomeTypes
<1>8. command'[a] \notin Going
  BY <1>2 DEF Going
<1> QED BY <1>1, <1>2, <1>3, <1>4, <1>5, <1>6, <1>7, <1>8, RecordKeeps

\* complete_approval_click of a click that denies, and a dispatch that fails.
LEMMA ClickEndsKeeps ==
  ASSUME OutcomesInv, IInv', NEW c \in Clicks, CompleteDeny(c) \/ DispatchFails(c)
  PROVE  OutcomesInv'
<1>a. click[c].at # "idle"
  BY DEF CompleteDeny, DispatchFails
<1>b. PICK a \in Approvals : a = click[c].id
  BY <1>a, ClickFacts
<1>c. PICK status : status = IF CompleteDeny(c) THEN "denied" ELSE "failed"
  OBVIOUS
<1>1. /\ Done(c) /\ RecordOutcome(a, status)
      /\ UNCHANGED <<key, card, pending, command, told, issuedAt, ran>>
  BY <1>b, <1>c DEF CompleteDeny, DispatchFails, histVars
<1>2. /\ a # NoApproval /\ card[a] # "unused"
      /\ ~Has(pending, a) /\ command[a] = "none" /\ reported[a] = <<>>
      /\ \A d \in Clicks : click[d].id = a => d = c
  BY <1>a, <1>b, ClickFacts
<1>3. /\ click'[c].at = "idle" /\ click'[c].id = NoApproval
      /\ \A d \in Clicks : d # c => click'[d] = click[d]
  BY <1>1 DEF Done, NoClick, OutcomesInv, IInv, Types
<1>4. status \in OutcomeStatuses /\ TrueOf(a, status)
  <2>1. CompleteDeny(c) => issuedAt[a] = Never
    BY <1>b DEF CompleteDeny, OutcomesInv, IInv, ClicksAreFresh
  <2> QED BY <1>1, <1>c, <2>1 DEF OutcomeStatuses, TrueOf
<1>5. ~Clicked(a)'
  <2>1. a # NoApproval
    BY <1>2
  <2> QED BY <1>2, <1>3, <2>1 DEF Clicked
<1>6. ASSUME NEW b \in Approvals, b # a PROVE Clicked(b)' <=> Clicked(b)
  <2>1. b # NoApproval
    BY NoApprovalAssumption
  <2>2. Clicked(b)' => Clicked(b)
    BY <1>3, <2>1 DEF Clicked
  <2>3. Clicked(b) => Clicked(b)'
    BY <1>3, <1>6, <1>b DEF Clicked
  <2> QED BY <2>2, <2>3
<1>7. ClicksExclude'
  <2>1. \A d \in Clicks :
          /\ click[d].at = "idle" <=> click[d].id = NoApproval
          /\ \A e \in Clicks : click[d].id # NoApproval /\ click[e].id = click[d].id => e = d
    BY DEF OutcomesInv, StagesExclude
  <2> QED BY <1>3, <2>1 DEF ClicksExclude
<1>8. /\ command' \in [Approvals -> {"none", "queued", "running", "refused", "done"}]
      /\ IsBoundedDict(pending', MaxPending) /\ pending'.order \in Seq(Approvals)
  BY <1>1 DEF OutcomesInv, OutcomeTypes
<1>9. command'[a] \notin Going /\ ~Has(pending', a)
  BY <1>1, <1>2 DEF Going
<1> QED BY <1>1, <1>2, <1>4, <1>5, <1>6, <1>7, <1>8, <1>9, RecordKeeps

\* save_state of a command's turn.
LEMMA CommandEndKeeps ==
  ASSUME OutcomesInv, IInv', NEW a \in Approvals, CommandEnds(a)
  PROVE  OutcomesInv'
<1>1. /\ command[a] \in Going /\ command' = [command EXCEPT ![a] = "done"]
      /\ UNCHANGED <<key, card, pending, click, told, issuedAt, ran>>
  BY DEF CommandEnds, Going, histVars
<1>2. PICK status \in Statuses(a) : RecordOutcome(a, status)
  BY DEF CommandEnds
<1>3. card[a] # "unused" /\ reported[a] = <<>> /\ ~Clicked(a) /\ ~Has(pending, a)
  BY <1>1 DEF OutcomesInv, UnusedAreNew, StagesExclude, Going
<1>4. status \in OutcomeStatuses /\ TrueOf(a, status)
  <2>1. /\ status \in {"ran", "refused", "failed"}
        /\ status = "ran" => command[a] = "running"
    BY <1>1 DEF Statuses, Going
  <2>2. command[a] = "running" => RanFor(a)
    BY DEF OutcomesInv, ReportsAreTrue
  <2> QED BY <2>1, <2>2 DEF OutcomeStatuses, TrueOf
<1>5. command'[a] = "done" /\ \A b \in Approvals : b # a => command'[b] = command[b]
  BY <1>1 DEF OutcomesInv, OutcomeTypes
<1>6. command' \in [Approvals -> {"none", "queued", "running", "refused", "done"}]
  BY <1>1 DEF OutcomesInv, OutcomeTypes
<1>7. IsBoundedDict(pending', MaxPending) /\ pending'.order \in Seq(Approvals)
  BY <1>1 DEF OutcomesInv, OutcomeTypes
<1>8. \A b : Clicked(b)' <=> Clicked(b)
  BY <1>1 DEF Clicked
<1>9. ClicksExclude'
  BY <1>1 DEF OutcomesInv, StagesExclude, ClicksExclude
<1>10. command'[a] \notin Going /\ ~Has(pending', a)
  BY <1>1, <1>3, <1>5 DEF Going
<1> QED BY <1>1, <1>2, <1>3, <1>4, <1>5, <1>6, <1>7, <1>8, <1>9, <1>10, RecordKeeps

\* _expire_pending takes the expired approvals of a session and reports them.
LEMMA ExpireFacts ==
  ASSUME OutcomesInv, NEW s, ExpirePending(s), NEW new, new = ExpiredOf(s)
  PROVE  /\ IsBoundedDict(pending', MaxPending) /\ pending'.order \in Seq(Approvals)
         /\ \A b : Has(pending', b) <=> Has(pending, b) /\ b \notin new
         /\ \A b \in Approvals :
              reported'[b] = IF b \in new THEN <<"expired">> ELSE reported[b]
         /\ reported' \in [Approvals -> Seq(OutcomeStatuses)]
<1>1. /\ Len(pending.order) <= MaxPending /\ Distinct(pending.order)
      /\ \A x : Lists(pending.order, x) <=> Has(pending, x)
  BY OrderLists DEF OutcomesInv, OutcomeTypes
<1>2. pending.order \in Seq(Approvals) /\ MaxPending \in Nat
  BY BoundsAssumption DEF OutcomesInv, OutcomeTypes
<1> DEFINE S == DOMAIN pending.value \ new
<1>3. pending'.order = Among(pending.order, S) /\ DOMAIN pending'.value = S
  BY DEF ExpirePending
<1>4. pending'.order \in Seq(Approvals) /\ Keeping(pending'.order, Len(pending.order), pending.order, S)
  BY <1>2, <1>3, AmongFacts
<1>5. \A b : Has(pending', b) <=> Has(pending, b) /\ b \notin new
  BY <1>3 DEF Has
<1>6. \A b : b \in S <=> Has(pending, b) /\ b \notin new
  BY DEF Has
<1> HIDE DEF S
<1>7. Len(pending'.order) <= MaxPending /\ Distinct(pending'.order)
  <2>1. Len(pending'.order) <= Len(pending.order) /\ Distinct(pending'.order)
    BY <1>1, <1>4 DEF Keeping
  <2>2. Len(pending'.order) \in Nat /\ Len(pending.order) \in Nat
    BY <1>2, <1>4
  <2> QED BY <1>1, <1>2, <2>1, <2>2
<1>8. \A x : Lists(pending'.order, x) <=> Has(pending', x)
  <2>1. ASSUME NEW x, Lists(pending'.order, x) PROVE x \in S
    BY <1>4, <2>1 DEF Lists, Keeping
  <2>2. ASSUME NEW x, x \in S PROVE Lists(pending'.order, x)
    <3>1. PICK j \in 1 .. Len(pending.order) : pending.order[j] = x
      BY <1>1, <1>6, <2>2 DEF Lists
    <3> QED BY <1>4, <2>2, <3>1 DEF Keeping
  <2> QED BY <1>5, <1>6, <2>1, <2>2
<1>9. IsBoundedDict(pending', MaxPending)
  BY <1>7, <1>8, OrderLists
<1>10. \A b \in new : reported[b] = <<>>
  BY PendingFacts DEF ExpiredOf, Has
<1>11. \A b \in Approvals :
         reported'[b] = IF b \in new THEN Append(reported[b], "expired") ELSE reported[b]
  BY DEF ExpirePending
<1>12. \A b \in Approvals : reported'[b] = IF b \in new THEN <<"expired">> ELSE reported[b]
  <2>1. Append(<<>>, "expired") = <<"expired">>
    OBVIOUS
  <2> QED BY <1>10, <1>11, <2>1
<1>13. reported' \in [Approvals -> Seq(OutcomeStatuses)]
  <2>1. reported \in [Approvals -> Seq(OutcomeStatuses)]
    BY DEF OutcomesInv, OutcomeTypes
  <2>2. <<"expired">> \in Seq(OutcomeStatuses)
    BY DEF OutcomeStatuses
  <2>3. \A b \in Approvals : reported'[b] \in Seq(OutcomeStatuses)
    BY <1>12, <2>1, <2>2
  <2>4. reported' = [b \in Approvals |-> reported'[b]]
    BY DEF ExpirePending
  <2> QED BY <2>3, <2>4
<1> QED BY <1>4, <1>5, <1>9, <1>12, <1>13

\* A message of a session: its approvals expire, and it carries the outcomes or it does not.
LEMMA ExpireKeeps ==
  ASSUME OutcomesInv, IInv', NEW s \in Sessions, CommandArrives(s) \/ AttachApprovalOutcomes(s)
  PROVE  OutcomesInv'
<1>a. PICK new : new = ExpiredOf(s)
  OBVIOUS
<1>b. PICK l : l = Queued(s)
  OBVIOUS
<1>c. PICK m : m = WithExpired(s)
  OBVIOUS
<1>1. ExpirePending(s) /\ UNCHANGED <<key, card, click, command, issuedAt, ran>>
  BY DEF CommandArrives, AttachApprovalOutcomes, histVars
<1>2. Fresh(s, new) /\ Fills(l, s, new)
  BY <1>a, <1>b, ExpiredFill
<1>3. /\ IsBoundedDict(pending', MaxPending) /\ pending'.order \in Seq(Approvals)
      /\ \A b : Has(pending', b) <=> Has(pending, b) /\ b \notin new
      /\ \A b \in Approvals :
           reported'[b] = IF b \in new THEN <<"expired">> ELSE reported[b]
      /\ reported' \in [Approvals -> Seq(OutcomeStatuses)]
  BY <1>1, <1>a, ExpireFacts
<1>4. Steady
  BY <1>1, SameSteady
<1>5. \A x \in new : x \in Approvals /\ card[x] # "unused" /\ Has(pending, x)
        /\ reported[x] = <<>> /\ issuedAt[x] = Never /\ ~Clicked(x) /\ command[x] = "none"
  BY <1>a, PendingFacts DEF ExpiredOf, Has
<1>6. <<"expired">> # <<>>
  OBVIOUS
<1>7. \A x \in Approvals : reported'[x] # <<>> <=> reported[x] # <<>> \/ x \in new
  BY <1>3, <1>5, <1>6
<1>8. \A b : Clicked(b)' <=> Clicked(b)
  BY <1>1 DEF Clicked
<1>9. RunsOn
  BY <1>1 DEF RunsOn
<1>10. GoesOn
  BY <1>1, <1>3, <1>7, <1>8 DEF GoesOn
<1>11. StagesExclude'
  <2>1. \A b \in Approvals :
          /\ Has(pending', b) => ~Clicked(b)' /\ command'[b] = "none" /\ reported'[b] = <<>>
          /\ Clicked(b)' => command'[b] = "none" /\ reported'[b] = <<>>
          /\ command'[b] \in Going => reported'[b] = <<>>
    BY <1>1, <1>3, <1>5, <1>8 DEF OutcomesInv, StagesExclude, Going
  <2>2. ClicksExclude'
    BY <1>1 DEF OutcomesInv, StagesExclude, ClicksExclude
  <2> QED BY <2>1, <2>2 DEF ClicksExclude, StagesExclude, Has, Going
<1>12. \A a \in Approvals :
         \/ reported'[a] = reported[a]
         \/ /\ reported[a] = <<>> /\ card[a] # "unused"
            /\ \E status \in OutcomeStatuses :
                 reported'[a] = <<status>> /\ TrueOf(a, status)
  <2>1. \A a \in new : TrueOf(a, "expired")
    BY <1>1, <1>5 DEF TrueOf
  <2> QED BY <1>3, <1>5, <2>1 DEF OutcomeStatuses
<1>13. command' \in [Approvals -> {"none", "queued", "running", "refused", "done"}]
  BY <1>1 DEF OutcomesInv, OutcomeTypes
<1>14. new # {} => WritesQueue(m, s, l)
  <2>1. new # {} => m = Put(outcomes, s, l, MaxPending)
    BY <1>a, <1>b, <1>c DEF WithExpired
  <2> QED BY <1>2, <1>4, <2>1, PutSqueezes
<1>15. new = {} => m = outcomes
  BY <1>a, <1>c DEF WithExpired
<1>16. Waits(s, l) \/ Carried(s, l) => NewAreNew
  <2>1. ASSUME NEW b \in Approvals, card[b] = "unused", Waits(s, l) \/ Carried(s, l)
        PROVE  command'[b] = "none" /\ reported'[b] = <<>> /\ told'[b] = 0 /\ ~Clicked(b)'
    <3>1. command[b] = "none" /\ reported[b] = <<>> /\ told[b] = 0 /\ ~Clicked(b)
      BY <2>1 DEF OutcomesInv, UnusedAreNew
    <3>2. ~Lists(l, b)
      BY <1>2, <2>1, FillsAre
    <3>3. told'[b] = told[b]
      BY <1>2, <2>1, <3>2, ToldStep
    <3>4. b \notin new
      BY <1>5, <2>1
    <3> QED BY <1>1, <1>3, <1>8, <3>1, <3>3, <3>4
  <2> QED BY <1>1, <2>1 DEF OutcomesInv, UnusedAreNew, NewAreNew
<1>17. ASSUME RecordsIn(s, new), Waits(s, l) \/ Carried(s, l) PROVE OutcomesInv'
  BY <1>1, <1>2, <1>3, <1>9, <1>10, <1>11, <1>12, <1>13, <1>16, <1>17, RecordsKeep
<1>18. CASE CommandArrives(s) /\ new = {}
  <2>1. outcomes' = outcomes /\ told' = told
    BY <1>15, <1>18, <1>c DEF CommandArrives, histVars
  <2>2. reported' = reported
    BY <1>3, <1>18 DEF OutcomesInv, OutcomeTypes
  <2>3. NewAreNew
    BY <1>1, <1>8, <2>1, <2>2 DEF OutcomesInv, UnusedAreNew, NewAreNew
  <2> QED BY <1>3, <1>4, <1>9, <1>10, <1>11, <1>13, <2>1, <2>2, <2>3, RestKeeps
<1>19. CASE CommandArrives(s) /\ new # {}
  <2>1. outcomes' = m /\ told' = told
    BY <1>19, <1>c DEF CommandArrives, histVars
  <2>2. WritesQueue(outcomes', s, l)
    BY <1>14, <1>19, <2>1
  <2>3. RecordsIn(s, new)
    BY <1>7, <2>2 DEF RecordsIn, WritesQueue
  <2>4. Waits(s, l)
    BY <2>1, <2>2 DEF Waits, WritesQueue
  <2> QED BY <1>17, <2>3, <2>4
<1>20. CASE AttachApprovalOutcomes(s)
  <2>1. outcomes' = Pop(m, s) /\ told' = [a \in Approvals |-> told[a] + Copies(a, l)]
    BY <1>20, <1>b, <1>c DEF AttachApprovalOutcomes
  <2>2. /\ IsBoundedDict(m, MaxPending) /\ m.order \in Seq(Sessions)
        /\ \A t : t # s /\ Has(m, t) => Has(outcomes, t) /\ m.value[t] = outcomes.value[t]
        /\ \A a \in Approvals :
             Has(outcomes, key'[a].session) /\ ~Has(m, key'[a].session) => CrowdedOut(a)'
    <3>1. CASE new # {}
      BY <1>14, <3>1 DEF WritesQueue
    <3>2. CASE new = {}
      BY <1>15, <3>2 DEF OutcomesInv, OutcomeTypes
    <3> QED BY <3>1, <3>2
  <2>3. /\ IsBoundedDict(outcomes', MaxPending) /\ outcomes'.order \in Seq(Sessions)
        /\ \A t : Has(outcomes', t) <=> Has(m, t) /\ t # s
    BY <2>1, <2>2, PopKeepsDict, BoundsAssumption
  <2>4. \A t : Has(outcomes', t) => outcomes'.value[t] = m.value[t]
    BY <2>1, <2>3 DEF Pop, Has
  <2>5. RecordsIn(s, new)
    BY <1>7, <2>2, <2>3, <2>4 DEF RecordsIn
  <2>6. Carried(s, l)
    BY <2>1, <2>3 DEF Carried
  <2> QED BY <1>17, <2>5, <2>6
<1> QED BY <1>18, <1>19, <1>20

LEMMA NextKeepsOutcomes ==
  ASSUME OutcomesInv, [Next]_vars PROVE OutcomesInv'
<1>i. IInv'
  BY NextInv DEF OutcomesInv
<1>1. ASSUME NEW a \in Approvals, NEW k \in Keys, ModelCalls(a, k) PROVE OutcomesInv'
  BY <1>i, <1>1, RequestKeeps DEF ModelCalls, histVars
<1>2. ASSUME NEW a \in Approvals, NEW k \in Keys, TypedCommand(a, k) PROVE OutcomesInv'
  <2>1. CASE Runs(k) /\ UNCHANGED <<key, created, card, pending>>
    <3>1. \A b \in Approvals : ran[b] = 1 => ran'[b] = 1
      BY <2>1, RunsRun
    <3> QED BY <1>i, <1>2, <2>1, <3>1, QuietKeeps DEF TypedCommand, histVars
  <2>2. CASE RequestApproval(a, k) /\ UNCHANGED ran
    BY <1>i, <1>2, <2>2, RequestKeeps DEF TypedCommand, histVars
  <2> QED BY <1>2, <2>1, <2>2 DEF TypedCommand
<1>3. ASSUME NEW a \in Approvals, CardArrives(a) PROVE OutcomesInv'
  BY <1>i, <1>3, QuietKeeps DEF CardArrives, histVars
<1>4. ASSUME NEW a \in Approvals, CardSent(a) \/ CardFails(a) PROVE OutcomesInv'
  BY <1>i, <1>4, CardEnds
<1>5. ASSUME NEW a \in Approvals, CommandRuns(a) \/ CommandRefused(a) PROVE OutcomesInv'
  BY <1>i, <1>5, CommandGoes
<1>6. ASSUME NEW a \in Approvals, CommandEnds(a) PROVE OutcomesInv'
  BY <1>i, <1>6, CommandEndKeeps
<1>7. ASSUME NEW c \in Clicks, NEW a \in Approvals, NEW p \in Admins, Click(c, a, p)
      PROVE OutcomesInv'
  <2>1. CASE ClickTooLate(a)
    BY <1>i, <1>7, <2>1, LateKeeps DEF Click
  <2>2. ASSUME NEW decision, ClickTaken(c, a, p, decision) PROVE OutcomesInv'
    BY <1>i, <1>7, <2>2, TakenKeeps DEF Click
  <2> QED BY <1>7, <2>1, <2>2 DEF Click
<1>8. ASSUME NEW c \in Clicks, AckRaises(c) \/ CompleteAllow(c) PROVE OutcomesInv'
  BY <1>i, <1>8, HoldsKeeps
<1>9. ASSUME NEW c \in Clicks, CompleteDeny(c) \/ DispatchFails(c) PROVE OutcomesInv'
  BY <1>i, <1>9, ClickEndsKeeps
<1>10. ASSUME NEW c \in Clicks, Dispatched(c) PROVE OutcomesInv'
  BY <1>i, <1>10, DispatchedKeeps
<1>11. ASSUME NEW s \in Sessions, CommandArrives(s) \/ AttachApprovalOutcomes(s)
       PROVE OutcomesInv'
  BY <1>i, <1>11, ExpireKeeps
<1>12. CASE Tick \/ UNCHANGED vars
  BY <1>i, <1>12, QuietKeeps DEF Tick, vars, histVars
<1>13. ASSUME NEW p, AdminsChange(p) PROVE OutcomesInv'
  BY <1>i, <1>13, QuietKeeps DEF AdminsChange, histVars
<1> QED
  BY <1>1, <1>2, <1>3, <1>4, <1>5, <1>6, <1>7, <1>8, <1>9, <1>10, <1>11, <1>12, <1>13 DEF Next

LEMMA InitOutcomes == ASSUME Init PROVE OutcomesInv
<1>1. IInv
  BY InitInv
<1>2. AskedFor = {}
  BY DEF Init, AskedFor
<1>3. IsBoundedDict(EmptyDict, MaxPending) /\ EmptyDict.order = <<>> /\ \A x : ~Has(EmptyDict, x)
  BY BoundsAssumption DEF EmptyDict, IsBoundedDict, Has
<1>4. OutcomeTypes
  <2>1. EmptyDict.order \in Seq(Approvals) /\ EmptyDict.order \in Seq(Sessions)
    BY <1>3
  <2>2. \A s \in DOMAIN outcomes.value : outcomes.value[s] \in Seq(Approvals)
    BY <1>3 DEF Init, Has
  <2> QED BY <1>3, <2>1, <2>2 DEF Init, OutcomeTypes
<1>5. \A a \in Approvals :
        card[a] = "unused" /\ command[a] = "none" /\ reported[a] = <<>> /\ told[a] = 0
  BY DEF Init
<1>6. \A a \in Approvals : ~Clicked(a)
  BY NoApprovalAssumption DEF Init, NoClick, Clicked
<1>7. UnusedAreNew
  BY <1>2, <1>5, <1>6, FS_EmptySet DEF UnusedAreNew
<1>8. StagesExclude
  <2>1. \A c \in Clicks : click[c].at = "idle" /\ click[c].id = NoApproval
    BY DEF Init, NoClick
  <2> QED BY <1>3, <1>5, <1>6, <2>1 DEF Init, StagesExclude, Going
<1>9. ReportsAreTrue
  BY <1>5 DEF ReportsAreTrue
<1>10. QueuesFit
  BY <1>3 DEF Init, QueuesFit, Has
<1>11. EndsAreKept /\ NothingVanishes
  BY <1>5 DEF EndsAreKept, NothingVanishes
<1> QED BY <1>1, <1>4, <1>7, <1>8, <1>9, <1>10, <1>11 DEF OutcomesInv

\* What is kept of the ends is what is told.
LEMMA OutcomesInvTold == ASSUME OutcomesInv PROVE OutcomesAreTold
<1>1. OutcomesAreTrue
  <2> SUFFICES ASSUME NEW a \in Approvals
               PROVE  /\ Len(reported[a]) <= 1
                      /\ \A i \in 1 .. Len(reported[a]) :
                           /\ reported[a][i] \in {"denied", "expired"} => ran[a] = 0
                           /\ reported[a][i] = "ran" => RanFor(a)
    BY DEF OutcomesAreTrue, RanFor
  <2>1. issuedAt[a] = Never => ran[a] = 0
    <3>1. ran[a] \in Nat
      BY DEF OutcomesInv, IInv, Types
    <3>2. ran[a] <= 1 /\ (ran[a] = 1 => issuedAt[a] # Never)
      BY DEF OutcomesInv, IInv, RunsAreApproved
    <3> QED BY <3>1, <3>2
  <2> QED BY <2>1 DEF OutcomesInv, ReportsAreTrue
<1>2. EndsAreToldOnce
  <2> SUFFICES ASSUME NEW a \in Approvals, Ended(a),
                      NEW times, times = told[a] + Copies(a, QueueOf(key[a].session))
               PROVE  times = 1 \/ (times = 0 /\ (PushedOut(a) \/ CrowdedOut(a)))
    BY DEF EndsAreToldOnce
  <2> DEFINE q == QueueOf(key[a].session)
  <2>1. q \in Seq(Approvals) /\ Distinct(q) /\ (Lists(q, a) => told[a] = 0)
    BY QueueFacts
  <2>2. Copies(a, q) = IF Lists(q, a) THEN 1 ELSE 0
    BY <2>1, CopiesAre
  <2>3. told[a] \in {0, 1}
    BY DEF OutcomesInv, OutcomeTypes
  <2>4. reported[a] # <<>> \/ CrowdedOut(a)
    <3>1. ~Clicked(a)
      BY DEF Ended, Clicked
    <3> QED BY <3>1 DEF OutcomesInv, NothingVanishes, Ended, Going
  <2>5. reported[a] # <<>> => told[a] = 1 \/ Lists(q, a) \/ PushedOut(a) \/ CrowdedOut(a)
    BY DEF OutcomesInv, EndsAreKept
  <2> HIDE DEF q
  <2>6. times = told[a] + Copies(a, q)
    BY DEF q
  <2>7. CASE told[a] = 1
    BY <2>1, <2>2, <2>6, <2>7
  <2>8. CASE told[a] = 0 /\ Lists(q, a)
    BY <2>2, <2>6, <2>8
  <2>9. CASE told[a] = 0 /\ ~Lists(q, a)
    BY <2>2, <2>4, <2>5, <2>6, <2>9
  <2> QED BY <2>3, <2>7, <2>8, <2>9
<1> QED BY <1>1, <1>2 DEF OutcomesAreTold

\* However clicks, commands, expiries and failures interleave, one outcome is recorded of an
\* approval, a true one, and the model is told of it once, unless as many later ones pushed
\* it out as a queue keeps, or as many approvals as may be pending crowded it out:
\* record_outcome, _expire_pending, attach_approval_outcomes, complete_approval_click and
\* save_state, for any number of approvals, sessions, clicks and any sizes of the dicts.
THEOREM OutcomesStayTold == Spec => []OutcomesAreTold
<1>1. Init => OutcomesInv
  BY InitOutcomes
<1>2. OutcomesInv /\ [Next]_vars => OutcomesInv'
  BY NextKeepsOutcomes
<1>3. OutcomesInv => OutcomesAreTold
  BY OutcomesInvTold
<1> QED BY <1>1, <1>2, <1>3, PTL DEF Spec
=============================================================================
