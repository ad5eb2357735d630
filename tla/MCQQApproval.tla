---------------------------- MODULE MCQQApproval ----------------------------
(***************************************************************************)
(* Small instances, for TLC, of the way from a QQ event to a tool call:    *)
(* what comes in (QQInbound), who is an admin (QQAdmins), what a turn may  *)
(* do (QQTurns, in a group or in private chat), and the calls that an     *)
(* admin approves (QQApproval).  They share no variable, so a behaviour    *)
(* explores one of them while the others rest.                             *)
(***************************************************************************)
EXTENDS QQApproval, TLC

Key(s, who, call) == [session |-> s, who |-> who, call |-> call]
OneCall == {Key("s1", "ann", "ls")}
TwoCalls == {Key("s1", "ann", "ls"), Key("s1", "ann", "rm")}
Ann == {"ann"}

CONSTANTS
  Events, Deliveries, Chats, DedupeSize, StateSize, MaxRestarts,
  PrivateIds, GroupIds, Codes, BootstrapTTL, GroupTTL, Lockout, MaxFailures, AdminsTime,
  Groups, Privates, People, Unknown, Turns, Resources, Configs, MaxCalls, Window, MaxKeys,
  MaxWaiting, TurnsTime

Settings == [access : {"admin_users"}, policy : {"open", "restricted"},
             shell : {"approval"}, mode : {"tool"}]

VARIABLES
  part,
  server, event, answered, of, at, known, latest, stamp, byId, given, dropped, setting, file,
  saved, restarts,
  aNow, code, minted, failures, locked, registered, onDisk, notices, used, noticesTold, starts,
  tNow, config, trusted, waiting, turn, verdict, calls, notified, passed, noticed, forgotten

In == INSTANCE QQInbound WITH seen <- known, forgotten <- dropped

Registry == INSTANCE QQAdmins WITH
  Private <- PrivateIds, InGroup <- GroupIds, MaxTime <- AdminsTime,
  now <- aNow, admins <- registered, file <- onDisk, told <- noticesTold, restarts <- starts

Guarded == INSTANCE QQTurns WITH MaxTime <- TurnsTime, now <- tNow, admins <- trusted

ASSUME Admission == Registry!QQAdminsConstants /\ Guarded!QQTurnsConstants

inVars    == <<server, event, answered, of, at, known, latest, stamp, byId, given, dropped,
               setting, file, saved, restarts>>
adminVars == <<aNow, code, minted, failures, locked, registered, onDisk, notices, used,
               noticesTold, starts>>
turnVars  == <<tNow, config, trusted, waiting, turn, verdict, calls, notified, passed, noticed,
               forgotten>>
allVars   == <<part, vars, inVars, adminVars, turnVars>>

PartsInit ==
  /\ part \in {"approval", "inbound", "admins", "group", "private"}
  /\ Init /\ In!Init /\ Registry!Init /\ Guarded!Init
  /\ part \notin {"group", "private"} => config.policy = "open"

OfApproval(A) == part = "approval" /\ A /\ UNCHANGED <<part, inVars, adminVars, turnVars>>
OfInbound(A)  == part = "inbound" /\ A /\ UNCHANGED <<part, vars, adminVars, turnVars>>
OfAdmins(A)   == part = "admins" /\ A /\ UNCHANGED <<part, vars, inVars, turnVars>>
OfTurns(A)    == part \in {"group", "private"} /\ A /\ UNCHANGED <<part, vars, inVars, adminVars>>

\* Approvals, calls and clicks are interchangeable: they begin in the order of their names.
InTurn(a) == \A b \in Approvals : b < a => card[b] # "unused" \/ command[b] # "none"

ApprovalNext ==
  \/ OfApproval(Tick)
  \/ \E p \in Admins : OfApproval(AdminsChange(p))
  \/ \E a \in Approvals :
       \/ \E k \in Keys :
            /\ InTurn(a) /\ (a = 1 => k = Key("s1", "ann", "ls"))
            /\ OfApproval(ModelCalls(a, k)) \/ OfApproval(TypedCommand(a, k))
       \/ OfApproval(CardArrives(a)) \/ OfApproval(CardSent(a)) \/ OfApproval(CardFails(a))
       \/ OfApproval(CommandRuns(a)) \/ OfApproval(CommandRefused(a))
       \/ OfApproval(CommandEnds(a))
       \/ \E c \in Clicks, p \in Admins : 
            (c = 2 => click[1].at # "idle") /\ OfApproval(Click(c, a, p))
  \/ \E c \in Clicks :
       \/ OfApproval(AckRaises(c)) \/ OfApproval(CompleteDeny(c))
       \/ OfApproval(CompleteAllow(c)) \/ OfApproval(Dispatched(c))
       \/ OfApproval(DispatchFails(c))
  \/ \E s \in Sessions :
       OfApproval(CommandArrives(s)) \/ OfApproval(AttachApprovalOutcomes(s))

\* Chats are interchangeable: the first event is of a group.
InboundNext ==
  \/ \E e \in Events : OfInbound(In!Posts(e) /\ event'[1].chat = "g")
  \/ OfInbound(In!Stops) \/ OfInbound(In!Restarts)
  \/ \E d \in Deliveries :
       \/ OfInbound(In!RunsMessage(d)) \/ OfInbound(In!Ends(d)) \/ OfInbound(In!RunsToggle(d))
       \/ OfInbound(In!RunsInteraction(d)) \/ OfInbound(In!Acks(d))

AdminsNext ==
  \/ OfAdmins(Registry!Ticks) \/ OfAdmins(Registry!Notifies) \/ OfAdmins(Registry!Restarts)
  \/ \E i \in Registry!Identities :
       \/ \E c \in Codes \cup {0} : OfAdmins(Registry!ClaimsWrong(i, c))
       \/ \E c \in Codes : OfAdmins(Registry!Exposes(i, c)) \/ OfAdmins(Registry!Registers(i, c))
       \/ OfAdmins(Registry!Issues(i))
       \/ \E t \in Registry!Identities : OfAdmins(Registry!Removes(i, t))

\* A behaviour is of one chat and of the tools that are called there.
Mine == IF part = "group" THEN Groups ELSE Privates
Tools == IF part = "group" THEN Resources \cap {"shell", "fs_write", "fs_read", "subagent"}
         ELSE Resources \cap {"fetch", "safe", "reply", "code"}

TurnsNext ==
  \/ OfTurns(Guarded!Ticks)
  \/ \E s \in Mine, p \in People : OfTurns(Guarded!AdminsChange(<<s, p>>))
  \/ \E s \in Mine, p \in People \cup {Unknown} : OfTurns(Guarded!Arrives(s, p))
  \/ \E t \in Turns :
       \/ \E s \in Mine :
            \/ OfTurns(Guarded!StartsBatch(t, s)) \/ OfTurns(Guarded!StartsInside(t, s))
            \/ \E p \in People : OfTurns(Guarded!StartsCommand(t, s, p))
       \/ OfTurns(Guarded!CallsModel(t)) \/ OfTurns(Guarded!AsksLimiter(t))
       \/ OfTurns(Guarded!NoticeEnds(t)) \/ OfTurns(Guarded!Answers(t))
       \/ OfTurns(Guarded!Finishes(t))
       \/ \E r \in Tools, path \in Guarded!Paths : OfTurns(Guarded!CallsTool(t, r, path))

PartsNext == ApprovalNext \/ InboundNext \/ AdminsNext \/ TurnsNext

ApprovalSpec == PartsInit /\ part = "approval" /\ [][ApprovalNext]_allVars
PartsSpec == PartsInit /\ [][PartsNext]_allVars

-----------------------------------------------------------------------------
\* How an approval ended is what the model is told, once: record_outcome,
\* attach_approval_outcomes.
OutcomesAreTold == OutcomesAreTrue /\ EndsAreToldOnce

\* A message is handed over once, however often QQ sends it, and what a reply to it goes by
\* fits together; every admin has registered with a code of its own; and no more turns of a
\* sender get through in a window than the limit: QQInboundDeduper.seen, parse_inbound,
\* remember_session, AdminRegistry._claim, SlidingWindowRateLimiter.allow.
AdmissionIsKept ==
  In!HandedOnce /\ In!ContextIsKept /\ Registry!AdminsHaveClaimed /\ Guarded!RateIsKept

\* Who has failed too often registers nothing until the lockout is over, and nothing that
\* needs an admin runs for a turn in which anybody else has a word: _record_failure,
\* _batch_senders, is_admin.
StrangersRunNothing ==
  Registry!LockedStayOut /\ Guarded!StrangersRunNothing
=============================================================================
