----------------------------- MODULE MCChannels -----------------------------
(***************************************************************************)
(* Small instances, for TLC, of the chat channels, of the schedule and of  *)
(* the programs that may run a turn's model.  They share no variable: a    *)
(* behaviour explores one and the others rest.                             *)
(***************************************************************************)
EXTENDS
  Integers, Sequences, FiniteSets, TLC, SequenceTheorems, WellFoundedInduction, TLAPS

CONSTANTS
  Chats, Groups, DMs,
  Messages, Sends,           \* Slack, Feishu, WeCom
  DMessages, DSends, Limit, MaxLength,  \* Discord
  Senders, Media,            \* Feishu
  WMessages,                 \* WeChat
  Once, Repeated, MaxCrashes, \* the schedule
  HRuns, HKeys, HSessions, MaxSaid,  \* the DeepSeek Harness
  ARuns, ASessions, Skills,  \* other coding agents, and what is linked for them
  Intervals, DefaultInterval, SlowDown, Lifetimes, MaxLogins, MaxTime  \* sign-ins

VARIABLES
  part,
  sEvent, sPc, sAckPending, sActive, sMarks, sSend,
  dUp, dStopped, dChat, dTaken, dLatest, dSend,
  fLoop, fThread, fOverran, fEvent, fPc, fNames, fAnswered, fIds, fHanded, fSend,
  cClient, cChat, cAt, cSessions, cEnded, cOvertaken, cSend,
  wRunning, wChat, wKind, wAt, wTurn, wHeld, wTimers, wHanded,
  tStream, tStop, tTask, tKnown, tAcked,
  jScheduler, jFramework, jJobs, jDue, jDisk, jClean, jOwed, jAdded, jSubmitted,
  jRunning, jManual, jBegun, jCrashes,
  hOf, hWorker, hLock, hSaid, hFinal, hTexted, hQueue, hStream, hGot,
  aOf, aPhase, aResumed, aLinks, aMine, aThreads, aTorn, aEnds, aCrashes,
  lNow, lLogin, lStep, lInterval, lWakes, lDeadline, lGrant, lAsked, lAnswered, lGap, lFile,
  lStored, lOthers, lUsed

Slack == INSTANCE SlackChannel WITH
  Channels <- Chats, event <- sEvent, pc <- sPc, ackPending <- sAckPending,
  active <- sActive, marks <- sMarks, send <- sSend

Discord == INSTANCE DiscordChannel WITH
  Messages <- DMessages, Sends <- DSends,
  up <- dUp, stopped <- dStopped, chat <- dChat, taken <- dTaken, latest <- dLatest, send <- dSend

Feishu == INSTANCE FeishuChannel WITH
  loop <- fLoop, thread <- fThread, overran <- fOverran, event <- fEvent, pc <- fPc,
  names <- fNames, answered <- fAnswered, ids <- fIds, handed <- fHanded, send <- fSend

WeCom == INSTANCE WeComChannel WITH
  Frames <- Messages, Chats <- Chats \cup Groups, DmPolicy <- "allowlist", GroupPolicy <- "open",
  client <- cClient, chat <- cChat, at <- cAt, sessions <- cSessions, ended <- cEnded,
  overtaken <- cOvertaken, send <- cSend

WeChat == INSTANCE WeChatChannel WITH
  Messages <- WMessages, running <- wRunning, chat <- wChat, kind <- wKind, at <- wAt,
  turn <- wTurn, held <- wHeld, timers <- wTimers, handed <- wHanded

DingTalk == INSTANCE DingTalkChannel WITH
  stream <- tStream, stop <- tStop, task <- tTask, known <- tKnown, acked <- tAcked

Schedule == INSTANCE JobStore WITH
  scheduler <- jScheduler, framework <- jFramework, jobs <- jJobs, due <- jDue,
  disk <- jDisk, clean <- jClean, owed <- jOwed, added <- jAdded, submitted <- jSubmitted,
  running <- jRunning, manual <- jManual, begun <- jBegun, crashes <- jCrashes

Harness == INSTANCE DshRuns WITH
  Runs <- HRuns, Keys <- HKeys, Sessions <- HSessions,
  of <- hOf, worker <- hWorker, lock <- hLock, said <- hSaid, final <- hFinal,
  texted <- hTexted, queue <- hQueue, stream <- hStream, got <- hGot

Agents == INSTANCE CliAgents WITH
  Runs <- ARuns, Sessions <- ASessions,
  of <- aOf, phase <- aPhase, resumed <- aResumed, links <- aLinks, mine <- aMine,
  threads <- aThreads, torn <- aTorn, ends <- aEnds, crashes <- aCrashes

SignIn == INSTANCE CopilotLogin WITH
  now <- lNow, login <- lLogin, step <- lStep, interval <- lInterval, wakes <- lWakes,
  deadline <- lDeadline, grant <- lGrant, asked <- lAsked, answered <- lAnswered,
  gap <- lGap, file <- lFile, stored <- lStored, others <- lOthers, used <- lUsed

ASSUME ChannelsConstants ==
  /\ Slack!SlackConstants /\ Discord!DiscordConstants /\ Feishu!FeishuConstants
  /\ WeCom!WeComConstants /\ Schedule!JobStoreConstants
  /\ Harness!DshConstants /\ Agents!CliAgentsConstants /\ SignIn!CopilotLoginConstants

sVars == <<sEvent, sPc, sAckPending, sActive, sMarks, sSend>>
dVars == <<dUp, dStopped, dChat, dTaken, dLatest, dSend>>
fVars == <<fLoop, fThread, fOverran, fEvent, fPc, fNames, fAnswered, fIds, fHanded, fSend>>
cVars == <<cClient, cChat, cAt, cSessions, cEnded, cOvertaken, cSend>>
wVars == <<wRunning, wChat, wKind, wAt, wTurn, wHeld, wTimers, wHanded>>
tVars == <<tStream, tStop, tTask, tKnown, tAcked>>
jVars == <<jScheduler, jFramework, jJobs, jDue, jDisk, jClean, jOwed, jAdded, jSubmitted,
           jRunning, jManual, jBegun, jCrashes>>
hVars == <<hOf, hWorker, hLock, hSaid, hFinal, hTexted, hQueue, hStream, hGot>>
aVars == <<aOf, aPhase, aResumed, aLinks, aMine, aThreads, aTorn, aEnds, aCrashes>>
lVars == <<lNow, lLogin, lStep, lInterval, lWakes, lDeadline, lGrant, lAsked, lAnswered,
           lGap, lFile, lStored, lOthers, lUsed>>
rVars == <<hVars, aVars, lVars>>
kVars == <<sVars, dVars, fVars, cVars, wVars, tVars, jVars>>
allVars == <<part, kVars, rVars>>

PartsInit ==
  /\ part \in {"slack", "discord", "feishu", "wecom", "wechat", "dingtalk", "schedule",
               "harness", "agents", "login"}
  /\ Slack!Init /\ Discord!Init /\ Feishu!Init /\ WeCom!Init /\ WeChat!Init
  /\ DingTalk!Init /\ Schedule!Init /\ Harness!Init /\ Agents!Init /\ SignIn!Init
  \* A part's initial choices are made in its own behaviours only.
  /\ part = "agents" \/ aLinks = [k \in Skills |-> 0]
  /\ part = "login" \/ lOthers = FALSE

OfSlack(A)    == part = "slack" /\ A /\ UNCHANGED <<part, rVars, dVars, fVars, cVars, wVars, tVars, jVars>>
OfDiscord(A)  == part = "discord" /\ A /\ UNCHANGED <<part, rVars, sVars, fVars, cVars, wVars, tVars, jVars>>
OfFeishu(A)   == part = "feishu" /\ A /\ UNCHANGED <<part, rVars, sVars, dVars, cVars, wVars, tVars, jVars>>
OfWeCom(A)    == part = "wecom" /\ A /\ UNCHANGED <<part, rVars, sVars, dVars, fVars, wVars, tVars, jVars>>
OfWeChat(A)   == part = "wechat" /\ A /\ UNCHANGED <<part, rVars, sVars, dVars, fVars, cVars, tVars, jVars>>
OfDingTalk(A) == part = "dingtalk" /\ A /\ UNCHANGED <<part, rVars, sVars, dVars, fVars, cVars, wVars, jVars>>
OfSchedule(A) == part = "schedule" /\ A /\ UNCHANGED <<part, rVars, sVars, dVars, fVars, cVars, wVars, tVars>>

OfHarness(A)  == part = "harness" /\ A /\ UNCHANGED <<part, kVars, aVars, lVars>>
OfAgents(A)   == part = "agents" /\ A /\ UNCHANGED <<part, kVars, hVars, lVars>>
OfSignIn(A)   == part = "login" /\ A /\ UNCHANGED <<part, kVars, hVars, aVars>>

PartsNext ==
  \/ OfSlack(Slack!Next) \/ OfDiscord(Discord!Next) \/ OfFeishu(Feishu!Next)
  \/ OfWeCom(WeCom!Next) \/ OfWeChat(WeChat!Next) \/ OfDingTalk(DingTalk!Next)
  \/ OfSchedule(Schedule!Next)
  \/ OfHarness(Harness!Next) \/ OfAgents(Agents!Next) \/ OfSignIn(SignIn!Next)

PartsSpec == PartsInit /\ [][PartsNext]_allVars

\* Replies are interchangeable, and so are skills.
Symmetry == Permutations(Sends) \cup Permutations(Skills)

-----------------------------------------------------------------------------
\* Slack marks and WeCom ends what a reply is to, once and in its own session; Discord refers
\* all parts of a reply to one message, and Feishu replies to commands in their order:
\* _ACK_PENDING, _stream_sessions, _latest_message_by_session, _pending_command_message_ids.
RepliesFindTheirMessages ==
  /\ Slack!MarksFollowReplies /\ WeCom!StreamsEndOnce
  /\ Discord!RepliesStayTogether /\ Feishu!CommandRepliesInOrder

\* Feishu and WeChat hand messages over once and in order, and DingTalk none that its stop has
\* cancelled: _on_message_event, process_message, stop.
MessagesArriveInOrder ==
  [](Feishu!MessagesInOrder /\ WeChat!ImagesArriveOnce) /\ DingTalk!StoppedTasksStay

\* The schedule keeps its jobs, gives a reminder once and runs no job twice at once:
\* JSONJobStore, ScheduleChannel.
JobsAreKept == Schedule!JobsAreKept

\* A turn that another program runs is its own: it is streamed what its own run of the
\* harness said (_stream_with_dsh), resumes its own session's thread and has its skills while
\* it runs (run_model, with_bub_skills), and its token was granted, by a login that asked as
\* seldom as it was told to (_poll_github_device_access_token).
RunsAreTheirOwn ==
  /\ Harness!StreamIsItsRuns
  /\ Agents!ThreadsAreKept /\ Agents!SkillsAreLent
  /\ SignIn!LoginIsPatient /\ SignIn!TurnsUseTheLastLogin
-----------------------------------------------------------------------------
(* The proof that jobs are kept *)

\* What is due is in the store, whatever became of the file.
JobTypes ==
  /\ jRunning \in [Schedule!Jobs -> Nat] /\ jBegun \in [Once -> Nat]
  /\ jJobs \subseteq Schedule!Jobs /\ jDue \subseteq jJobs
  /\ jDisk = Schedule!Torn \/ jDisk \subseteq Schedule!Jobs

\* The file is the store, which holds what is owed, and that was added.
FileIsStore == jDisk = jJobs /\ jJobs = jOwed /\ jOwed \subseteq jAdded

\* A reminder that is due once has begun or is submitted only after the store gave it up.
GivenOnce ==
  \A j \in Once :
    /\ j \in jOwed \/ j \notin jAdded => jBegun[j] = 0 /\ j \notin jSubmitted
    /\ jBegun[j] <= 1 /\ (j \in jSubmitted => jBegun[j] = 0)

\* A run is submitted only where none is under way.
RunsApart ==
  \A j \in Schedule!Jobs : jRunning[j] <= 1 /\ (j \in jSubmitted => jRunning[j] = 0)

JobsInv == JobTypes /\ (jClean => FileIsStore /\ GivenOnce /\ RunsApart)

\* The schedule takes the steps of its own process, and the other parts none of them.
LEMMA ScheduleSteps ==
  [PartsNext]_allVars => [Schedule!Next]_Schedule!vars
<1> USE DEF allVars, kVars, jVars, Schedule!vars, Schedule!store
<1>1. CASE UNCHANGED allVars
  BY <1>1
<1>2. CASE PartsNext
  BY <1>2 DEF PartsNext, OfSlack, OfDiscord, OfFeishu, OfWeCom, OfWeChat, OfDingTalk,
     OfSchedule, OfHarness, OfAgents, OfSignIn
<1> QED BY <1>1, <1>2

\* There are no jobs at first.
LEMMA JobsStart == Schedule!Init => JobsInv
  BY DEF Schedule!Init, JobsInv, JobTypes, FileIsStore, GivenOnce, RunsApart, Schedule!Jobs

\* Adding and removing change the store, what is owed and, if all goes well, the file alike.
LEMMA AddsKeepJobs ==
  ASSUME JobsInv, NEW j \in Schedule!Jobs, Schedule!Adds(j) \/ Schedule!Removes(j)
  PROVE  JobsInv'
<1>1. CASE Schedule!Adds(j)
  <2>1. JobTypes'
    BY <1>1 DEF JobsInv, JobTypes, Schedule!Adds, Schedule!Save
  <2>2. jClean' => jClean /\ FileIsStore'
    BY <1>1 DEF JobsInv, FileIsStore, Schedule!Adds, Schedule!Save
  <2>3. jClean' => GivenOnce' /\ RunsApart'
    BY <1>1, <2>2 DEF JobsInv, GivenOnce, RunsApart, Schedule!Adds
  <2> QED BY <2>1, <2>2, <2>3 DEF JobsInv
<1>2. CASE Schedule!Removes(j)
  <2>1. JobTypes'
    BY <1>2 DEF JobsInv, JobTypes, Schedule!Removes, Schedule!Save
  <2>2. jClean' => jClean /\ FileIsStore'
    BY <1>2 DEF JobsInv, FileIsStore, Schedule!Removes, Schedule!Save
  <2>3. jClean' => GivenOnce' /\ RunsApart'
    BY <1>2, <2>2 DEF JobsInv, GivenOnce, RunsApart, Schedule!Removes
  <2> QED BY <2>1, <2>2, <2>3 DEF JobsInv
<1> QED BY <1>1, <1>2

\* What fires leaves the store first, if it is due once.
LEMMA FiresKeepsJobs ==
  ASSUME JobsInv, NEW j \in Schedule!Jobs, Schedule!Fires(j)
  PROVE  JobsInv'
<1>1. /\ jJobs' = (IF j \in Once THEN jJobs \ {j} ELSE jJobs) /\ jDue' = jDue \ {j} /\ j \in jDue
      /\ jSubmitted' = (IF jRunning[j] = 0 THEN jSubmitted \cup {j} ELSE jSubmitted)
      /\ jOwed' = jOwed \ ({j} \cap Once) /\ UNCHANGED <<jAdded, jRunning, jBegun>>
  BY DEF Schedule!Fires, Schedule!After
<1>2. JobTypes'
  BY <1>1 DEF JobsInv, JobTypes, Schedule!Fires, Schedule!Save
<1>3. jClean' => jClean /\ FileIsStore'
  BY <1>1 DEF JobsInv, FileIsStore, Schedule!Fires, Schedule!Save
<1>4. jClean' => GivenOnce'
  BY <1>1, <1>3 DEF JobsInv, JobTypes, FileIsStore, GivenOnce
<1>5. jClean' => RunsApart'
  BY <1>1, <1>3 DEF JobsInv, RunsApart
<1> QED BY <1>2, <1>3, <1>4, <1>5 DEF JobsInv

\* A submitted run begins, or is lost.
LEMMA BeginsKeepsJobs ==
  ASSUME JobsInv, NEW j \in Schedule!Jobs, Schedule!Begins(j)
  PROVE  JobsInv'
<1>1. /\ j \in jSubmitted /\ jSubmitted' = jSubmitted \ {j}
      /\ UNCHANGED <<jJobs, jDue, jDisk, jClean, jOwed, jAdded>>
  BY DEF Schedule!Begins, Schedule!store
<1>2. \/ UNCHANGED <<jRunning, jBegun>>
      \/ /\ jRunning' = [jRunning EXCEPT ![j] = @ + 1]
         /\ jBegun' = [k \in Once |-> IF k = j THEN jBegun[k] + 1 ELSE jBegun[k]]
  BY DEF Schedule!Begins
<1>3. JobTypes'
  BY <1>1, <1>2 DEF JobsInv, JobTypes
<1>4. jClean' => FileIsStore'
  BY <1>1 DEF JobsInv, FileIsStore
<1>5. jClean' => GivenOnce'
  BY <1>1, <1>2 DEF JobsInv, JobTypes, GivenOnce
<1>6. jClean' => RunsApart'
  BY <1>1, <1>2 DEF JobsInv, JobTypes, RunsApart
<1> QED BY <1>3, <1>4, <1>5, <1>6 DEF JobsInv

\* The process dies: as no save has failed, the file is what the store was.
LEMMA CrashKeepsJobs ==
  ASSUME JobsInv, Schedule!Crashes
  PROVE  JobsInv'
<1>1. /\ jJobs' = (IF jDisk = {"torn"} THEN {} ELSE jDisk) /\ jDue' = {} /\ jSubmitted' = {}
      /\ jRunning' = [j \in Schedule!Jobs |-> 0] /\ UNCHANGED <<jDisk, jClean, jOwed, jAdded, jBegun>>
  BY DEF Schedule!Crashes, Schedule!Torn
<1>2. JobTypes'
  BY <1>1 DEF JobsInv, JobTypes, Schedule!Torn
<1>3. jClean' => FileIsStore'
  <2>1. jClean' => jDisk \subseteq Schedule!Jobs
    BY <1>1 DEF JobsInv, JobTypes, FileIsStore
  <2>2. jClean' => jDisk # {"torn"}
    BY <2>1, ChannelsConstants DEF Schedule!JobStoreConstants
  <2> QED BY <1>1, <2>2 DEF JobsInv, FileIsStore
<1>4. jClean' => GivenOnce' /\ RunsApart'
  BY <1>1 DEF JobsInv, GivenOnce, RunsApart
<1> QED BY <1>2, <1>3, <1>4 DEF JobsInv

\* Every step of the schedule keeps it.
LEMMA ScheduleKeepsJobs ==
  ASSUME JobsInv, [Schedule!Next]_Schedule!vars
  PROVE  JobsInv'
<1> USE DEF JobsInv, JobTypes, FileIsStore, GivenOnce, RunsApart
<1>1. CASE Schedule!Starts \/ Schedule!Stops
  BY <1>1 DEF Schedule!Starts, Schedule!Stops, Schedule!store
<1>2. CASE Schedule!ShutsDown
  BY <1>2 DEF Schedule!ShutsDown, Schedule!Save, Schedule!Torn
<1>3. CASE Schedule!Crashes
  BY <1>3, CrashKeepsJobs
<1>4. ASSUME NEW j \in Schedule!Jobs, Schedule!Triggers(j) \/ Schedule!ComesDue(j)
      PROVE  JobsInv'
  BY <1>4 DEF Schedule!Triggers, Schedule!ComesDue, Schedule!store
<1>5. ASSUME NEW j \in Schedule!Jobs, Schedule!Finishes(j)
      PROVE  JobsInv'
  BY <1>5 DEF Schedule!Finishes, Schedule!store
<1>6. CASE UNCHANGED Schedule!vars
  BY <1>6 DEF Schedule!vars, Schedule!store
<1> QED BY <1>1, <1>2, <1>3, <1>4, <1>5, <1>6, AddsKeepJobs, FiresKeepsJobs, BeginsKeepsJobs
     DEF Schedule!Next

\* While every save goes well, a job that was added is in the file and in the store, across
\* crashes, until it is removed or over; a reminder that is due once is given once; and no two
\* scheduled runs of a job overlap: JSONJobStore, ScheduleChannel, schedule_add.
THEOREM JobsKept == PartsSpec => []JobsAreKept
<1>1. PartsInit => JobsInv
  BY JobsStart DEF PartsInit
<1>2. JobsInv /\ [PartsNext]_allVars => JobsInv'
  BY ScheduleSteps, ScheduleKeepsJobs
<1>3. JobsInv => JobsAreKept
  BY DEF JobsInv, JobTypes, FileIsStore, GivenOnce, RunsApart, JobsAreKept, Schedule!JobsAreKept
<1> QED BY <1>1, <1>2, <1>3, PTL DEF PartsSpec

-----------------------------------------------------------------------------
(* The proof that runs are their own: sign-ins *)

\* The types of what a login counts.
LoginTypes ==
  /\ lNow \in Nat /\ lLogin \in Nat /\ lStored \in Nat /\ lFile \in Int
  /\ lInterval \in Int /\ lAsked \in Int /\ lWakes \in Int /\ lAnswered \in Int /\ lGap \in Int

\* A login sleeps for as long as GitHub has asked it to, from the last answer on.
LoginSleeps ==
  /\ lStep \in {"check", "post", "sleep"} => lAsked <= lInterval
  /\ lStep \in {"check", "post"} => lNow >= lWakes
  /\ lStep \in {"sleep", "check"} /\ lAnswered # -1 => lWakes - lAnswered >= lAsked
  /\ lStep = "post" /\ lAnswered # -1 => lGap >= lAsked

\* The file is the last login's token, except while one is written or was killed writing it.
FileIsLogin ==
  /\ lStep = "write" => lFile = SignIn!Torn
  /\ lStep # "write" => /\ lStored # SignIn!None => lFile = lStored
                        /\ lFile # SignIn!Torn => lFile = lStored

LoginInv == LoginTypes /\ LoginSleeps /\ FileIsLogin /\ SignIn!TurnsUseTheLastLogin

\* A sign-in takes its own steps, and the other parts none of them.
LEMMA SignInSteps ==
  [PartsNext]_allVars => [SignIn!Next]_SignIn!vars
<1> USE DEF allVars, rVars, lVars, SignIn!vars
<1>1. CASE UNCHANGED allVars
  BY <1>1
<1>2. CASE PartsNext
  BY <1>2 DEF PartsNext, OfSlack, OfDiscord, OfFeishu, OfWeCom, OfWeChat, OfDingTalk,
     OfSchedule, OfHarness, OfAgents, OfSignIn
<1> QED BY <1>1, <1>2

\* Nothing is stored at first.
LEMMA LoginStarts == SignIn!Init => LoginInv
  BY DEF SignIn!Init, LoginInv, LoginTypes, LoginSleeps, FileIsLogin, SignIn!TurnsUseTheLastLogin,
     SignIn!None, SignIn!Torn

\* A login begins with an interval no shorter than the one it was told.
LEMMA BeginsSleeps ==
  ASSUME LoginInv, NEW i \in Intervals, NEW n \in Lifetimes, SignIn!Begins(i, n)
  PROVE  LoginInv'
<1>1. i \in Int /\ n \in Nat /\ DefaultInterval \in Nat \ {0}
  BY ChannelsConstants DEF SignIn!CopilotLoginConstants
<1>2. /\ lInterval' = SignIn!AtLeastOne(IF i = 0 THEN DefaultInterval ELSE i) /\ lAsked' = i
      /\ lAnswered' = -1 /\ lGap' = 0 /\ lWakes' = lNow /\ lLogin' = lLogin + 1
      /\ lStep \in {"none", "done", "failed"} /\ lStep' = "check"
      /\ UNCHANGED <<lNow, lFile, lStored, lUsed>>
  BY DEF SignIn!Begins
<1>3. lInterval' \in Int /\ lInterval' >= i
  BY <1>1, <1>2 DEF SignIn!AtLeastOne
<1>4. LoginTypes'
  BY <1>1, <1>2, <1>3 DEF LoginInv, LoginTypes
<1>5. LoginSleeps'
  BY <1>1, <1>2, <1>3 DEF LoginInv, LoginTypes, LoginSleeps
<1>6. FileIsLogin' /\ SignIn!TurnsUseTheLastLogin'
  BY <1>2 DEF LoginInv, FileIsLogin, SignIn!TurnsUseTheLastLogin
<1> QED BY <1>4, <1>5, <1>6 DEF LoginInv

\* Every answer lengthens the interval by as much as it asks for.
LEMMA PollsSleep ==
  ASSUME LoginInv, SignIn!Polls \/ SignIn!SleepsOn \/ SignIn!Wakes
  PROVE  LoginInv'
<1>1. UNCHANGED <<lNow, lLogin, lFile, lStored, lUsed>> /\ lStep # "write" /\ lStep' # "write"
  BY DEF SignIn!Polls, SignIn!SleepsOn, SignIn!Wakes, SignIn!polling
<1>2. FileIsLogin' /\ SignIn!TurnsUseTheLastLogin'
  BY <1>1 DEF LoginInv, FileIsLogin, SignIn!TurnsUseTheLastLogin
<1>3. SlowDown \in Nat
  BY ChannelsConstants DEF SignIn!CopilotLoginConstants
<1>4. CASE SignIn!Polls
  BY <1>1, <1>2, <1>4 DEF SignIn!Polls, LoginInv, LoginTypes, LoginSleeps
<1>5. CASE SignIn!SleepsOn
  BY <1>1, <1>2, <1>3, <1>5 DEF SignIn!SleepsOn, SignIn!Slowed, LoginInv, LoginTypes, LoginSleeps
<1>6. CASE SignIn!Wakes
  BY <1>1, <1>2, <1>6 DEF SignIn!Wakes, SignIn!polling, LoginInv, LoginTypes, LoginSleeps
<1> QED BY <1>4, <1>5, <1>6

\* The file is emptied, then holds the token; one who is killed in between leaves it torn.
LEMMA SavesKeepFile ==
  ASSUME LoginInv,
         SignIn!Answered \/ SignIn!Truncates \/ SignIn!Writes \/ SignIn!ProfileFails \/ SignIn!Killed
  PROVE  LoginInv'
<1>1. /\ UNCHANGED <<lNow, lLogin, lUsed>> /\ UNCHANGED SignIn!polling
      /\ lStep' \in {"profile", "failed", "write", "done"}
  BY DEF SignIn!Answered, SignIn!Truncates, SignIn!Writes, SignIn!ProfileFails, SignIn!Killed,
     SignIn!Fails
<1>2. LoginSleeps' /\ SignIn!TurnsUseTheLastLogin'
  BY <1>1 DEF LoginInv, LoginSleeps, SignIn!TurnsUseTheLastLogin
<1>3. lFile' \in {lFile, -1, lLogin} /\ lStored' \in {lStored, 0, lLogin}
  BY DEF SignIn!Answered, SignIn!Truncates, SignIn!Writes, SignIn!ProfileFails, SignIn!Killed,
     SignIn!Fails, SignIn!Torn, SignIn!None
<1>4. LoginTypes'
  BY <1>1, <1>3 DEF LoginInv, LoginTypes, SignIn!polling
<1>5. FileIsLogin'
  BY DEF LoginInv, LoginTypes, FileIsLogin, SignIn!Answered, SignIn!Truncates, SignIn!Writes,
     SignIn!ProfileFails, SignIn!Killed, SignIn!Fails, SignIn!Torn, SignIn!None
<1> QED BY <1>2, <1>4, <1>5 DEF LoginInv

\* A turn takes what the file holds, unless it is torn or empty.
LEMMA ResolvesTheLast ==
  ASSUME LoginInv, SignIn!Resolves
  PROVE  LoginInv'
<1>1. LoginTypes' /\ LoginSleeps' /\ FileIsLogin'
  BY DEF LoginInv, LoginTypes, LoginSleeps, FileIsLogin, SignIn!Resolves, SignIn!polling
<1>2. /\ lUsed'.token = SignIn!Resolved
      /\ lUsed'.stored = IF lStep = "write" THEN SignIn!None ELSE lStored
  BY DEF SignIn!Resolves
<1>3. SignIn!TurnsUseTheLastLogin'
  BY <1>2 DEF LoginInv, LoginTypes, FileIsLogin, SignIn!TurnsUseTheLastLogin, SignIn!Resolved,
     SignIn!Loaded, SignIn!FromElsewhere, SignIn!None, SignIn!Torn, SignIn!Other
<1> QED BY <1>1, <1>3 DEF LoginInv

\* Every step of a sign-in, of its user, of time and of a turn keeps it.
LEMMA SignInKeepsLogin ==
  ASSUME LoginInv, [SignIn!Next]_SignIn!vars
  PROVE  LoginInv'
<1>1. CASE SignIn!Decides \/ UNCHANGED SignIn!vars
  BY <1>1 DEF SignIn!Decides, SignIn!vars, SignIn!polling, LoginInv, LoginTypes, LoginSleeps,
     FileIsLogin, SignIn!TurnsUseTheLastLogin
<1>2. CASE SignIn!Ticks
  BY <1>2 DEF SignIn!Ticks, SignIn!polling, LoginInv, LoginTypes, LoginSleeps,
     FileIsLogin, SignIn!TurnsUseTheLastLogin
<1> QED BY <1>1, <1>2, BeginsSleeps, PollsSleep, SavesKeepFile, ResolvesTheLast DEF SignIn!Next

-----------------------------------------------------------------------------
(* The proof that runs are their own: coding agents *)

Served == [cli : Agents!Clis, session : ASessions]

\* The types of what runs, links and files hold.
AgentTypes ==
  /\ aOf \in [ARuns -> Served \cup {Agents!Nowhere}]
  /\ aPhase \in [ARuns -> {"none", "run", "ended", "failed", "uncopied", "left", "lost"}]
  /\ aResumed \in [ARuns -> ARuns \cup {0}]
  /\ aLinks \in [Skills -> ARuns \cup {Agents!NoLink, Agents!Users, Agents!Dangling}]
  /\ aMine \in [ARuns -> SUBSET Skills]
  /\ aThreads \in [Agents!Clis -> [ASessions -> ARuns \cup {0}]]
  /\ aEnds \in Seq([of : Served, thread : ARuns])

\* A run that has not begun is of no session, and resumes nothing.
RunsBegin ==
  \A r \in ARuns : (aPhase[r] = "none" <=> aOf[r] = Agents!Nowhere)
                   /\ (aPhase[r] = "none" => aResumed[r] = 0)

\* What is kept for an agent and a session, or is resumed there, is a thread of theirs.
ThreadsOwn ==
  /\ \A c \in Agents!Clis, s \in ASessions :
       aThreads[c][s] # 0 => aOf[aThreads[c][s]] = [cli |-> c, session |-> s]
  /\ \A r \in ARuns : aResumed[r] # 0 => aOf[aResumed[r]] = aOf[r]

\* The last that was saved for an agent and a session is what their file holds.
LastIsKept(c, s) ==
  LET saved == {i \in DOMAIN aEnds : aEnds[i].of = [cli |-> c, session |-> s]} IN
  IF saved = {} THEN aThreads[c][s] = 0
  ELSE \E i \in saved : aEnds[i].thread = aThreads[c][s] /\ \A j \in saved : j <= i

\* The links of a run that runs are those it is to remove.
LinksOwn ==
  \A r \in ARuns, k \in Skills : aPhase[r] = "run" => (k \in aMine[r] <=> aLinks[k] = r)

AgentsInv ==
  /\ AgentTypes /\ RunsBegin /\ ThreadsOwn /\ LinksOwn /\ Agents!SkillsAreLent
  /\ \A c \in Agents!Files \ aTorn, s \in ASessions : LastIsKept(c, s)

\* What a turn that begins does, whichever agent serves it.
RunBegins(r, c, s) ==
  /\ aPhase[r] = "none"
  /\ aOf' = [aOf EXCEPT ![r] = [cli |-> c, session |-> s]] /\ UNCHANGED <<aTorn, aEnds>>
  /\ \E t \in {0, aThreads[c][s]} : aResumed' = [aResumed EXCEPT ![r] = t]
  /\ aThreads' = aThreads \/ (c = "copilot" /\ aThreads' = [aThreads EXCEPT ![c][s] = r])
  /\ \/ aPhase' = [aPhase EXCEPT ![r] = "failed"] /\ UNCHANGED <<aLinks, aMine>>
     \/ \E made \in SUBSET Skills : Agents!Copies(r, made)

\* And one that is over, however it ends.
RunEnds(r) ==
  /\ aPhase[r] = "run" /\ Agents!Unlinks(r) /\ UNCHANGED <<aOf, aResumed, aMine, aTorn>>
  /\ \E x \in {"failed", "ended", "left"} : aPhase' = [aPhase EXCEPT ![r] = x]
  /\ \/ UNCHANGED <<aThreads, aEnds>>
     \/ \E t \in {r, aResumed[r]} \ {0} :
          /\ aOf[r].cli \notin aTorn
          /\ aThreads' = [aThreads EXCEPT ![aOf[r].cli][aOf[r].session] = t]
          /\ aEnds' = Append(aEnds, [of |-> aOf[r], thread |-> t])

\* A coding agent takes its own steps, and the other parts none of them.
LEMMA AgentSteps ==
  [PartsNext]_allVars => [Agents!Next]_Agents!vars
<1> USE DEF allVars, rVars, aVars, Agents!vars
<1>1. CASE UNCHANGED allVars
  BY <1>1
<1>2. CASE PartsNext
  BY <1>2 DEF PartsNext, OfSlack, OfDiscord, OfFeishu, OfWeCom, OfWeChat, OfDingTalk,
     OfSchedule, OfHarness, OfAgents, OfSignIn
<1> QED BY <1>1, <1>2

\* Nothing runs, and no link is a run's, at first.
LEMMA AgentsStart == Agents!Init => AgentsInv
<1> SUFFICES ASSUME Agents!Init PROVE AgentsInv
  OBVIOUS
<1>1. 0 \notin ARuns /\ -1 \notin ARuns /\ -2 \notin ARuns
  BY ChannelsConstants DEF Agents!CliAgentsConstants
<1>2. AgentTypes
  BY DEF Agents!Init, AgentTypes
<1>3. RunsBegin /\ ThreadsOwn /\ LinksOwn
  BY DEF Agents!Init, RunsBegin, ThreadsOwn, LinksOwn
<1>4. Agents!SkillsAreLent
  BY <1>1 DEF Agents!Init, Agents!SkillsAreLent, Agents!NoLink, Agents!Users, Agents!Dangling
<1>5. \A c \in Agents!Files \ aTorn, s \in ASessions : LastIsKept(c, s)
  BY DEF Agents!Init, LastIsKept, Agents!Files
<1> QED BY <1>2, <1>3, <1>4, <1>5 DEF AgentsInv

\* The agents differ in where a turn may fail, and in who keeps the thread.
LEMMA StartsRun ==
  ASSUME AgentsInv, NEW r \in ARuns, NEW s \in ASessions, Agents!Starts(r, s)
  PROVE  \E c \in Agents!Clis : RunBegins(r, c, s)
<1>1. ASSUME NEW c \in Agents!Clis, Agents!Turn(r, c, s)
      PROVE  /\ aPhase[r] = "none" /\ aResumed[r] = 0 /\ UNCHANGED <<aTorn, aEnds>>
             /\ aOf' = [aOf EXCEPT ![r] = [cli |-> c, session |-> s]]
  BY <1>1 DEF Agents!Turn, AgentsInv, RunsBegin
<1>2. ASSUME NEW c \in Agents!Clis, Agents!Turn(r, c, s), Agents!Refused(r)
      PROVE  RunBegins(r, c, s)
  <2>1. aResumed' = [aResumed EXCEPT ![r] = 0]
    BY <1>1, <1>2 DEF Agents!Refused, AgentsInv, AgentTypes
  <2> QED BY <1>1, <1>2, <2>1 DEF Agents!Refused, RunBegins
<1>3. ASSUME NEW c \in Agents!Clis, Agents!Turn(r, c, s), Agents!Begins(r, c, s)
      PROVE  RunBegins(r, c, s)
  <2>1. Agents!Loaded(c, s) \in {0, aThreads[c][s]}
    BY DEF Agents!Loaded
  <2> QED BY <1>1, <1>3, <2>1 DEF Agents!Begins, RunBegins
<1>4. ASSUME Agents!StartsCopilot(r, s), ~Agents!Refused(r)
      PROVE  RunBegins(r, "copilot", s)
  <2>1. Agents!Turn(r, "copilot", s)
    BY <1>4 DEF Agents!StartsCopilot
  <2>2. \E made \in SUBSET Skills : Agents!Copies(r, made)
    BY <1>4 DEF Agents!StartsCopilot
  <2>3. \E t \in {0, aThreads["copilot"][s]} : aResumed' = [aResumed EXCEPT ![r] = t]
    BY <1>4 DEF Agents!StartsCopilot, Agents!Resumable
  <2>4. aThreads' = aThreads \/ aThreads' = [aThreads EXCEPT !["copilot"][s] = r]
    BY <1>4 DEF Agents!StartsCopilot, Agents!Saves
  <2> QED BY <1>1, <2>1, <2>2, <2>3, <2>4 DEF RunBegins, Agents!Clis
<1> QED
  BY <1>2, <1>3, <1>4 DEF Agents!Starts, Agents!StartsCodex, Agents!StartsKimi,
     Agents!StartsCursor, Agents!StartsCopilot, Agents!Clis

\* A thread is saved only where the file parses.
LEMMA EndsRun ==
  ASSUME AgentsInv, NEW r \in ARuns, Agents!Ends(r)
  PROVE  RunEnds(r)
<1>1. /\ aPhase[r] = "run" /\ Agents!Unlinks(r) /\ UNCHANGED <<aOf, aResumed, aMine, aTorn>>
  BY DEF Agents!Ends, Agents!EndsCodex, Agents!EndsKimi, Agents!EndsCursor, Agents!EndsCopilot,
     Agents!TimesOut, Agents!Cancelled, Agents!Over
<1>2. ASSUME NEW t \in {0, r, aResumed[r]}, Agents!Answers(r, t)
      PROVE  RunEnds(r)
  BY <1>1, <1>2 DEF RunEnds, Agents!Answers, Agents!Saves
<1>3. CASE Agents!TimesOut(r) \/ Agents!Cancelled(r)
  BY <1>1, <1>3 DEF Agents!TimesOut, Agents!Cancelled, RunEnds
<1> QED
  BY <1>2, <1>3 DEF Agents!Ends, Agents!EndsCodex, Agents!EndsKimi, Agents!EndsCursor,
     Agents!EndsCopilot, Agents!ReportedThreads

\* A turn that begins takes up the thread of its own session, and nobody has taken up its own.
LEMMA BeginsOwn ==
  ASSUME AgentsInv, NEW r \in ARuns, NEW c \in Agents!Clis, NEW s \in ASessions, RunBegins(r, c, s)
  PROVE  AgentTypes' /\ RunsBegin' /\ ThreadsOwn'
<1> DEFINE w == [cli |-> c, session |-> s]
<1>1. w \in Served /\ w # Agents!Nowhere /\ Agents!Nowhere \notin Served
  BY DEF Served, Agents!Nowhere, Agents!Clis
<1>2. 0 \notin ARuns
  BY ChannelsConstants DEF Agents!CliAgentsConstants
<1>3. /\ aOf[r] = Agents!Nowhere /\ aOf' = [aOf EXCEPT ![r] = w] /\ aPhase[r] = "none"
      /\ UNCHANGED <<aTorn, aEnds>>
  BY DEF RunBegins, AgentsInv, RunsBegin
<1>4. PICK t \in {0, aThreads[c][s]} : aResumed' = [aResumed EXCEPT ![r] = t]
  BY DEF RunBegins
<1>5. t \in ARuns \cup {0} /\ aThreads[c][s] \in ARuns \cup {0}
  BY <1>4 DEF AgentsInv, AgentTypes
<1>6. aThreads' \in [Agents!Clis -> [ASessions -> ARuns \cup {0}]]
  BY <1>5 DEF RunBegins, AgentsInv, AgentTypes
<1>7. /\ aLinks' \in [Skills -> ARuns \cup {Agents!NoLink, Agents!Users, Agents!Dangling}]
      /\ aMine' \in [ARuns -> SUBSET Skills]
      /\ \E x \in {"failed", "uncopied", "run"} : aPhase' = [aPhase EXCEPT ![r] = x]
  BY DEF RunBegins, Agents!Copies, Agents!Collected, AgentsInv, AgentTypes
<1> HIDE DEF w
<1>8. AgentTypes'
  BY <1>1, <1>3, <1>4, <1>5, <1>6, <1>7 DEF AgentsInv, AgentTypes
<1>9. RunsBegin'
  BY <1>1, <1>3, <1>4, <1>7 DEF AgentsInv, AgentTypes, RunsBegin
<1>10. \A q \in ARuns : q # r => aOf'[q] = aOf[q]
  BY <1>3 DEF AgentsInv, AgentTypes
<1>11. aOf'[r] = w
  BY <1>3 DEF AgentsInv, AgentTypes
<1>12. ASSUME NEW d \in Agents!Clis, NEW u \in ASessions, aThreads'[d][u] # 0
       PROVE  aOf'[aThreads'[d][u]] = [cli |-> d, session |-> u]
  <2>1. CASE aThreads'[d][u] = aThreads[d][u]
    <3>1. aOf[aThreads[d][u]] = [cli |-> d, session |-> u] /\ aThreads[d][u] \in ARuns
      BY <1>12, <2>1 DEF AgentsInv, AgentTypes, ThreadsOwn
    <3>2. aThreads[d][u] # r
      BY <1>3, <3>1 DEF Agents!Nowhere, Agents!Clis
    <3> QED BY <1>10, <2>1, <3>1, <3>2
  <2>2. CASE aThreads'[d][u] # aThreads[d][u]
    <3>1. d = c /\ u = s /\ aThreads'[d][u] = r
      BY <2>2 DEF RunBegins, AgentsInv, AgentTypes
    <3> QED BY <1>11, <3>1 DEF w
  <2> QED BY <2>1, <2>2
<1>13. ASSUME NEW q \in ARuns, aResumed'[q] # 0
       PROVE  aOf'[aResumed'[q]] = aOf'[q]
  <2>1. CASE q = r
    <3>1. aResumed'[q] = t /\ t # 0 /\ t = aThreads[c][s]
      BY <1>4, <1>13, <2>1 DEF AgentsInv, AgentTypes
    <3>2. aOf[t] = w /\ t \in ARuns
      BY <1>5, <3>1 DEF AgentsInv, ThreadsOwn, w
    <3>3. t # r
      BY <1>1, <1>3, <3>2
    <3> QED BY <1>10, <1>11, <2>1, <3>1, <3>2, <3>3
  <2>2. CASE q # r
    <3>1. aResumed'[q] = aResumed[q]
      BY <1>4, <2>2 DEF AgentsInv, AgentTypes
    <3>2. aOf[aResumed[q]] = aOf[q] /\ aResumed[q] \in ARuns
      BY <1>13, <3>1 DEF AgentsInv, AgentTypes, ThreadsOwn
    <3>3. aOf[q] # Agents!Nowhere
      BY <1>13, <3>1 DEF AgentsInv, RunsBegin
    <3> QED BY <1>3, <1>10, <2>2, <3>1, <3>2, <3>3
  <2> QED BY <2>1, <2>2
<1> QED BY <1>8, <1>9, <1>12, <1>13 DEF ThreadsOwn

\* It links what nobody has linked, and is to remove that.
LEMMA BeginsLends ==
  ASSUME AgentsInv, NEW r \in ARuns, NEW c \in Agents!Clis, NEW s \in ASessions, RunBegins(r, c, s)
  PROVE  LinksOwn' /\ Agents!SkillsAreLent'
<1>1. 0 \notin ARuns
  BY ChannelsConstants DEF Agents!CliAgentsConstants
<1>2. aPhase[r] = "none" /\ \A k \in Skills : aLinks[k] # r
  BY DEF RunBegins, AgentsInv, AgentTypes, Agents!SkillsAreLent
<1>3. CASE aPhase' = [aPhase EXCEPT ![r] = "failed"] /\ UNCHANGED <<aLinks, aMine>>
  BY <1>2, <1>3 DEF AgentsInv, AgentTypes, LinksOwn, Agents!SkillsAreLent
<1>4. ASSUME NEW made \in SUBSET Skills, Agents!Copies(r, made)
      PROVE  LinksOwn' /\ Agents!SkillsAreLent'
  <2>1. aLinks' = [k \in Skills |-> IF k \in made THEN r ELSE aLinks[k]]
        /\ \A k \in made : aLinks[k] = 0
    BY <1>4 DEF Agents!Copies, Agents!NoLink
  <2>2. \/ aPhase' = [aPhase EXCEPT ![r] = "uncopied"] /\ aMine' = aMine
        \/ aPhase' = [aPhase EXCEPT ![r] = "run"] /\ aMine' = [aMine EXCEPT ![r] = made]
    BY <1>4 DEF Agents!Copies, Agents!Collected
  <2>3. \A q \in ARuns \ {r} : aPhase'[q] = aPhase[q] /\ aMine'[q] = aMine[q]
    BY <2>2 DEF AgentsInv, AgentTypes
  <2>4. \/ aPhase'[r] = "uncopied"
        \/ aPhase'[r] = "run" /\ aMine'[r] = made
    BY <2>2 DEF AgentsInv, AgentTypes
  <2>5. \A k \in Skills : aLinks'[k] = r <=> k \in made
    BY <1>2, <2>1
  <2>6. \A k \in Skills, q \in ARuns \ {r} : aLinks'[k] = q <=> aLinks[k] = q
    BY <1>1, <2>1
  <2>7. LinksOwn'
    BY <2>3, <2>4, <2>5, <2>6 DEF AgentsInv, LinksOwn
  <2>8. Agents!SkillsAreLent'
    <3>1. ASSUME NEW k \in Skills, aLinks'[k] \in ARuns
          PROVE  aPhase'[aLinks'[k]] \in {"run", "lost", "uncopied"}
      <4>1. CASE aLinks'[k] = r
        BY <2>4, <4>1
      <4>2. CASE aLinks'[k] # r
        BY <2>3, <2>6, <3>1, <4>2 DEF AgentsInv, Agents!SkillsAreLent
      <4> QED BY <4>1, <4>2
    <3>2. ASSUME NEW q \in ARuns, NEW k \in Skills, aPhase'[q] = "run", k \in aMine'[q]
          PROVE  aLinks'[k] = q
      BY <2>7, <3>2 DEF LinksOwn
    <3> QED BY <3>1, <3>2 DEF Agents!SkillsAreLent
  <2> QED BY <2>7, <2>8
<1> QED BY <1>3, <1>4 DEF RunBegins

\* No file changes: copilot keeps its threads itself.
LEMMA BeginsSavesNothing ==
  ASSUME AgentsInv, NEW r \in ARuns, NEW c \in Agents!Clis, NEW s \in ASessions, RunBegins(r, c, s)
  PROVE  \A d \in Agents!Files \ aTorn', u \in ASessions : LastIsKept(d, u)'
<1> SUFFICES ASSUME NEW d \in Agents!Files \ aTorn, NEW u \in ASessions PROVE LastIsKept(d, u)'
  BY DEF RunBegins
<1>1. aThreads'[d][u] = aThreads[d][u] /\ aEnds' = aEnds
  BY DEF RunBegins, AgentsInv, AgentTypes, Agents!Files
<1> QED BY <1>1 DEF AgentsInv, LastIsKept

\* A run that is over leaves no link, and its thread is of its own session.
LEMMA EndsOwn ==
  ASSUME AgentsInv, NEW r \in ARuns, RunEnds(r)
  PROVE  AgentTypes' /\ RunsBegin' /\ ThreadsOwn' /\ LinksOwn' /\ Agents!SkillsAreLent'
<1>1. 0 \notin ARuns
  BY ChannelsConstants DEF Agents!CliAgentsConstants
<1>2. aPhase[r] = "run" /\ UNCHANGED <<aOf, aResumed, aMine, aTorn>>
  BY DEF RunEnds
<1>3. PICK x \in {"failed", "ended", "left"} : aPhase' = [aPhase EXCEPT ![r] = x]
  BY DEF RunEnds
<1>4. aLinks' = [k \in Skills |-> IF k \in aMine[r] THEN 0 ELSE aLinks[k]]
  BY DEF RunEnds, Agents!Unlinks, Agents!NoLink
<1>5. aOf[r] \in Served
  BY <1>2 DEF AgentsInv, AgentTypes, RunsBegin
<1>6. /\ aThreads' \in [Agents!Clis -> [ASessions -> ARuns \cup {0}]]
      /\ aEnds' \in Seq([of : Served, thread : ARuns])
  <2>1. CASE UNCHANGED <<aThreads, aEnds>>
    BY <2>1 DEF AgentsInv, AgentTypes
  <2>2. ASSUME NEW t \in {r, aResumed[r]} \ {0},
               aThreads' = [aThreads EXCEPT ![aOf[r].cli][aOf[r].session] = t],
               aEnds' = Append(aEnds, [of |-> aOf[r], thread |-> t])
        PROVE  /\ aThreads' \in [Agents!Clis -> [ASessions -> ARuns \cup {0}]]
               /\ aEnds' \in Seq([of : Served, thread : ARuns])
    <3>1. t \in ARuns
      BY <2>2 DEF AgentsInv, AgentTypes
    <3>2. [of |-> aOf[r], thread |-> t] \in [of : Served, thread : ARuns]
      BY <1>5, <3>1
    <3>3. aEnds' \in Seq([of : Served, thread : ARuns])
      BY <2>2, <3>2 DEF AgentsInv, AgentTypes
    <3> QED BY <1>5, <2>2, <3>1, <3>3 DEF AgentsInv, AgentTypes, Served
  <2> QED BY <2>1, <2>2 DEF RunEnds
<1>7. AgentTypes'
  BY <1>2, <1>3, <1>4, <1>6 DEF AgentsInv, AgentTypes, Agents!NoLink
<1>8. RunsBegin'
  BY <1>2, <1>3 DEF AgentsInv, AgentTypes, RunsBegin
<1>9. ThreadsOwn'
  <2>1. CASE UNCHANGED <<aThreads, aEnds>>
    BY <1>2, <2>1 DEF AgentsInv, ThreadsOwn
  <2>2. ASSUME NEW t \in {r, aResumed[r]} \ {0},
               aThreads' = [aThreads EXCEPT ![aOf[r].cli][aOf[r].session] = t]
        PROVE  ThreadsOwn'
    <3>1. aOf[t] = aOf[r]
      BY <2>2 DEF AgentsInv, ThreadsOwn
    <3>2. aOf[r] = [cli |-> aOf[r].cli, session |-> aOf[r].session]
      BY <1>5 DEF Served
    <3>3. ASSUME NEW d \in Agents!Clis, NEW u \in ASessions, aThreads'[d][u] # 0
          PROVE  aOf[aThreads'[d][u]] = [cli |-> d, session |-> u]
      <4>1. CASE d = aOf[r].cli /\ u = aOf[r].session
        <5>1. aThreads'[d][u] = t
          BY <2>2, <4>1 DEF AgentsInv, AgentTypes
        <5> QED BY <3>1, <3>2, <4>1, <5>1
      <4>2. CASE ~(d = aOf[r].cli /\ u = aOf[r].session)
        <5>1. aThreads'[d][u] = aThreads[d][u]
          BY <2>2, <4>2 DEF AgentsInv, AgentTypes
        <5> QED BY <3>3, <5>1 DEF AgentsInv, ThreadsOwn
      <4> QED BY <4>1, <4>2
    <3> QED BY <1>2, <3>3 DEF AgentsInv, ThreadsOwn
  <2> QED BY <2>1, <2>2 DEF RunEnds
<1>10. \A q \in ARuns \ {r} : aPhase'[q] = aPhase[q]
  BY <1>3 DEF AgentsInv, AgentTypes
<1>11. aPhase'[r] \in {"failed", "ended", "left"}
  BY <1>3 DEF AgentsInv, AgentTypes
<1>12. \A k \in Skills : k \in aMine[r] <=> aLinks[k] = r
  BY <1>2 DEF AgentsInv, LinksOwn
<1>13. \A k \in Skills, q \in ARuns \ {r} : aLinks'[k] = q <=> aLinks[k] = q
  BY <1>1, <1>4, <1>12
<1>14. \A k \in Skills : aLinks'[k] # r
  BY <1>1, <1>4, <1>12
<1>15. LinksOwn'
  BY <1>2, <1>10, <1>11, <1>13 DEF AgentsInv, LinksOwn
<1>16. Agents!SkillsAreLent'
  <2>1. ASSUME NEW k \in Skills, aLinks'[k] \in ARuns
        PROVE  aPhase'[aLinks'[k]] \in {"run", "lost", "uncopied"}
    BY <1>10, <1>13, <1>14, <2>1 DEF AgentsInv, Agents!SkillsAreLent
  <2>2. ASSUME NEW q \in ARuns, NEW k \in Skills, aPhase'[q] = "run", k \in aMine'[q]
        PROVE  aLinks'[k] = q
    BY <1>15, <2>2 DEF LinksOwn
  <2> QED BY <2>1, <2>2 DEF Agents!SkillsAreLent
<1> QED BY <1>7, <1>8, <1>9, <1>15, <1>16

\* What is saved is saved for its own agent and session.
LEMMA EndsSaves ==
  ASSUME AgentsInv, NEW r \in ARuns, RunEnds(r),
         NEW d \in Agents!Files \ aTorn', NEW u \in ASessions
  PROVE  LastIsKept(d, u)'
<1>1. aOf[r] \in Served /\ aTorn' = aTorn
  BY DEF RunEnds, AgentsInv, AgentTypes, RunsBegin
<1>2. LastIsKept(d, u)
  BY <1>1 DEF AgentsInv
<1>3. CASE UNCHANGED <<aThreads, aEnds>>
  BY <1>2, <1>3 DEF LastIsKept
<1>4. ASSUME NEW t \in {r, aResumed[r]} \ {0},
             aThreads' = [aThreads EXCEPT ![aOf[r].cli][aOf[r].session] = t],
             aEnds' = Append(aEnds, [of |-> aOf[r], thread |-> t])
      PROVE  LastIsKept(d, u)'
  <2> DEFINE S == [of : Served, thread : ARuns]
             w == [cli |-> d, session |-> u]
             e == [of |-> aOf[r], thread |-> t]
             n == Len(aEnds)
  <2>1. aEnds \in Seq(S) /\ n \in Nat
    BY DEF AgentsInv, AgentTypes
  <2>2. DOMAIN aEnds = 1 .. n
    BY <2>1
  <2>3. DOMAIN aEnds' = 1 .. n + 1 /\ aEnds'[n + 1] = e /\ \A i \in 1 .. n : aEnds'[i] = aEnds[i]
    <3> HIDE DEF e, S
    <3> QED BY <1>4, <2>1 DEF e
  <2>4. e.of = aOf[r] /\ e.thread = t
    OBVIOUS
  <2> HIDE DEF S, e, n
  <2>5. CASE aOf[r] = w
    <3>1. d = aOf[r].cli /\ u = aOf[r].session
      BY <2>5
    <3>2. aThreads'[d][u] = t
      BY <1>1, <1>4, <3>1 DEF AgentsInv, AgentTypes, Served
    <3>3. n + 1 \in {i \in DOMAIN aEnds' : aEnds'[i].of = w}
      BY <2>1, <2>3, <2>4, <2>5
    <3> QED BY <2>1, <2>3, <2>4, <3>2, <3>3 DEF LastIsKept
  <2>6. CASE aOf[r] # w
    <3>1. ~(d = aOf[r].cli /\ u = aOf[r].session)
      BY <1>1, <2>6 DEF Served
    <3>2. aThreads'[d][u] = aThreads[d][u]
      BY <1>1, <1>4, <3>1 DEF AgentsInv, AgentTypes, Served, Agents!Files
    <3>3. {i \in DOMAIN aEnds' : aEnds'[i].of = w} = {i \in DOMAIN aEnds : aEnds[i].of = w}
      BY <2>1, <2>2, <2>3, <2>4, <2>6
    <3> QED BY <1>2, <2>2, <2>3, <3>2, <3>3 DEF LastIsKept
  <2> QED BY <2>5, <2>6
<1> QED BY <1>3, <1>4 DEF RunEnds

\* Bub dies: its runs are lost with their links, and a file may be torn.
LEMMA CrashLoses ==
  ASSUME AgentsInv, Agents!Crash
  PROVE  AgentsInv'
<1>1. /\ aPhase' = [r \in ARuns |-> IF aPhase[r] = "run" THEN "lost" ELSE aPhase[r]]
      /\ UNCHANGED <<aOf, aResumed, aLinks, aMine, aThreads, aEnds>>
  BY DEF Agents!Crash
<1>2. aTorn \subseteq aTorn'
  BY DEF Agents!Crash
<1>3. AgentTypes'
  BY <1>1 DEF AgentsInv, AgentTypes
<1>4. RunsBegin' /\ ThreadsOwn' /\ LinksOwn'
  BY <1>1 DEF AgentsInv, AgentTypes, RunsBegin, ThreadsOwn, LinksOwn
<1>5. Agents!SkillsAreLent'
  BY <1>1 DEF AgentsInv, AgentTypes, Agents!SkillsAreLent
<1>6. \A c \in Agents!Files \ aTorn', s \in ASessions : LastIsKept(c, s)'
  BY <1>1, <1>2 DEF AgentsInv, LastIsKept
<1> QED BY <1>3, <1>4, <1>5, <1>6 DEF AgentsInv

\* Every step of a turn that an agent serves keeps it.
LEMMA AgentsKeep ==
  ASSUME AgentsInv, [Agents!Next]_Agents!vars
  PROVE  AgentsInv'
<1>1. ASSUME NEW r \in ARuns, NEW s \in ASessions, Agents!Starts(r, s) PROVE AgentsInv'
  <2>1. PICK c \in Agents!Clis : RunBegins(r, c, s)
    BY <1>1, StartsRun
  <2> QED BY <2>1, BeginsOwn, BeginsLends, BeginsSavesNothing DEF AgentsInv
<1>2. ASSUME NEW r \in ARuns, Agents!Ends(r) PROVE AgentsInv'
  <2>1. RunEnds(r)
    BY <1>2, EndsRun
  <2>2. \A d \in Agents!Files \ aTorn', u \in ASessions : LastIsKept(d, u)'
    BY <2>1, EndsSaves
  <2>3. AgentTypes' /\ RunsBegin' /\ ThreadsOwn' /\ LinksOwn' /\ Agents!SkillsAreLent'
    BY <2>1, EndsOwn
  <2> QED BY <2>2, <2>3 DEF AgentsInv
<1>3. CASE UNCHANGED Agents!vars
  <2>1. UNCHANGED <<aOf, aPhase, aResumed, aLinks, aMine, aThreads, aTorn, aEnds>>
    BY <1>3 DEF Agents!vars
  <2>2. AgentTypes' /\ RunsBegin' /\ ThreadsOwn'
    BY <2>1 DEF AgentsInv, AgentTypes, RunsBegin, ThreadsOwn
  <2>3. LinksOwn' /\ Agents!SkillsAreLent'
    BY <2>1 DEF AgentsInv, LinksOwn, Agents!SkillsAreLent
  <2>4. \A c \in Agents!Files \ aTorn', s \in ASessions : LastIsKept(c, s)'
    BY <2>1 DEF AgentsInv, LastIsKept
  <2> QED BY <2>2, <2>3, <2>4 DEF AgentsInv
<1> QED BY <1>1, <1>2, <1>3, CrashLoses DEF Agents!Next

-----------------------------------------------------------------------------
(* The proof that runs are their own: the harness *)

\* What goes through a queue; all but the last two of it is what a turn is given.
Items == {"text", "reasoning", "answer", "error", "done"}

\* The types of runs, locks and streams.
HarnessTypes ==
  /\ hOf \in [HRuns -> [key : HKeys, session : HSessions \cup {"none"}]]
  /\ hWorker \in [HRuns -> {"none", "lock", "run", "after", "over"}]
  /\ hLock \in [HKeys -> HRuns \cup {0}]
  /\ hFinal \in [HRuns -> {"none", "text", "nothing", "error"}]
  /\ hTexted \in [HRuns -> BOOLEAN]
  /\ hStream \in [HRuns -> {"none", "open", "ended", "failed", "left"}]
  /\ hSaid \in [HRuns -> Seq(Items)] /\ hQueue \in [HRuns -> Seq(Items)]
  /\ hGot \in [HRuns -> Seq(Items)]

\* The harness says text and reasons, and no turn is given an error or an end as an item.
WordsOnly ==
  \A r \in HRuns :
    /\ \A i \in DOMAIN hSaid[r] : hSaid[r][i] \in {"text", "reasoning"}
    /\ \A i \in DOMAIN hGot[r] : hGot[r][i] \in {"text", "reasoning", "answer"}

\* Whoever runs in a runtime holds its lock: two runs never hear each other.
LockHeld == \A r \in HRuns : hWorker[r] = "run" => hLock[hOf[r].key] = r

\* A run has a result once it has returned, and knows whether it has said its answer.
ResultsKnown ==
  \A r \in HRuns :
    /\ hFinal[r] = "none" <=> hWorker[r] \in {"none", "lock", "run"}
    /\ hTexted[r] = TRUE <=> \E i \in DOMAIN hSaid[r] : hSaid[r][i] = "text"
    /\ hStream[r] = "none" => hSaid[r] = <<>> /\ hGot[r] = <<>> /\ hQueue[r] = <<>>
    /\ hStream[r] = "none" <=> hWorker[r] = "none"

\* What a run puts into its queue, and what of that its turn is to be given.
Put(r) ==
  IF hWorker[r] = "over" THEN hSaid[r] \o Append(Harness!Rest(r), "done") ELSE hSaid[r]
Whole(r) ==
  IF hFinal[r] = "text" /\ hTexted[r] = FALSE THEN Append(hSaid[r], "answer") ELSE hSaid[r]

\* One sequence has come out of a queue, another waits in it, and together they are a third.
Streamed(g, q, d) ==
  /\ Len(d) = Len(g) + Len(q)
  /\ \A i \in 1 .. Len(g) : d[i] = g[i]
  /\ \A i \in 1 .. Len(q) : d[Len(g) + i] = q[i]
Begun(g, d) == Len(g) <= Len(d) /\ \A i \in 1 .. Len(g) : g[i] = d[i]

\* A turn that reads is given what its run puts, in order; one that has stopped was.
StreamsFollow ==
  \A r \in HRuns :
    /\ hStream[r] = "open" => Streamed(hGot[r], hQueue[r], Put(r))
    /\ hStream[r] \in {"ended", "failed", "left"} => Begun(hGot[r], Whole(r)) /\ hQueue[r] = <<>>
    /\ hStream[r] = "ended" =>
         hWorker[r] = "over" /\ Len(hGot[r]) = Len(Whole(r)) /\ hFinal[r] # "error"
    /\ hStream[r] = "failed" =>
         hWorker[r] = "over" /\ Len(hGot[r]) = Len(Whole(r)) /\ hFinal[r] = "error"

HarnessInv == HarnessTypes /\ WordsOnly /\ LockHeld /\ ResultsKnown /\ StreamsFollow

\* What is put is put behind all the rest.
LEMMA StreamedPuts ==
  ASSUME NEW g \in Seq(Items), NEW q \in Seq(Items), NEW d \in Seq(Items), NEW e \in Seq(Items),
         Streamed(g, q, d)
  PROVE  Streamed(g, q \o e, d \o e)
<1>1. /\ Len(q \o e) = Len(q) + Len(e) /\ Len(d \o e) = Len(d) + Len(e)
      /\ \A i \in 1 .. Len(q) + Len(e) : (q \o e)[i] = IF i <= Len(q) THEN q[i] ELSE e[i - Len(q)]
      /\ \A i \in 1 .. Len(d) + Len(e) : (d \o e)[i] = IF i <= Len(d) THEN d[i] ELSE e[i - Len(d)]
  BY ConcatProperties
<1>2. Len(g) \in Nat /\ Len(q) \in Nat /\ Len(d) \in Nat /\ Len(e) \in Nat
  OBVIOUS
<1> HIDE DEF Items
<1>3. \A i \in 1 .. Len(q) + Len(e) : (d \o e)[Len(g) + i] = (q \o e)[i]
  BY <1>1, <1>2 DEF Streamed
<1>4. \A i \in 1 .. Len(g) : (d \o e)[i] = g[i]
  <2>1. \A i \in 1 .. Len(g) : i \in 1 .. Len(d) + Len(e) /\ i <= Len(d) /\ d[i] = g[i]
    BY <1>2 DEF Streamed
  <2> QED BY <1>1, <2>1
<1>5. Len(d \o e) = Len(g) + Len(q \o e)
  BY <1>1, <1>2 DEF Streamed
<1>6. \A i \in 1 .. Len(q \o e) : (d \o e)[Len(g) + i] = (q \o e)[i]
  BY <1>1, <1>3
<1> QED BY <1>4, <1>5, <1>6 DEF Streamed

\* The next item comes out of the queue.
LEMMA StreamedTakes ==
  ASSUME NEW g \in Seq(Items), NEW q \in Seq(Items), NEW d \in Seq(Items), q # <<>>,
         Streamed(g, q, d)
  PROVE  /\ Streamed(Append(g, Head(q)), Tail(q), d)
         /\ Len(g) + 1 \in 1 .. Len(d) /\ Head(q) = d[Len(g) + 1] /\ Head(q) \in Items
<1>1. /\ Head(q) \in Items /\ Tail(q) \in Seq(Items) /\ Head(q) = q[1] /\ Len(q) > 0
      /\ Len(Tail(q)) = Len(q) - 1 /\ \A i \in 1 .. Len(Tail(q)) : Tail(q)[i] = q[i + 1]
  BY HeadTailProperties
<1>2. /\ Len(Append(g, Head(q))) = Len(g) + 1
      /\ \A i \in 1 .. Len(g) : Append(g, Head(q))[i] = g[i]
      /\ Append(g, Head(q))[Len(g) + 1] = Head(q)
  BY <1>1, AppendProperties
<1> QED BY <1>1, <1>2 DEF Streamed

\* A run says more, or knows its answer.
LEMMA BegunMore ==
  ASSUME NEW g \in Seq(Items), NEW d \in Seq(Items), NEW e \in Items, Begun(g, d)
  PROVE  Begun(g, Append(d, e))
<1>1. Len(Append(d, e)) = Len(d) + 1 /\ \A i \in 1 .. Len(d) : Append(d, e)[i] = d[i]
  BY AppendProperties
<1> QED BY <1>1 DEF Begun

\* The end of a run comes behind what it said and its answer, or its error.
LEMMA PutShape ==
  ASSUME HarnessInv, NEW r \in HRuns
  PROVE  /\ Put(r) \in Seq(Items) /\ Whole(r) \in Seq(Items)
         /\ \A i \in 1 .. Len(Put(r)) :
              /\ Put(r)[i] \in {"text", "reasoning", "answer"} => i <= Len(Whole(r)) /\ Put(r)[i] = Whole(r)[i]
              /\ Put(r)[i] \in {"done", "error"} => hWorker[r] = "over"
              /\ Put(r)[i] = "done" => i >= Len(Whole(r)) + 1
              /\ Put(r)[i] = "done" /\ hFinal[r] = "error" => i - 1 \in 1 .. Len(Put(r)) /\ Put(r)[i - 1] = "error"
              /\ Put(r)[i] = "error" => i >= Len(Whole(r)) + 1 /\ hFinal[r] = "error"
<1> DEFINE s == hSaid[r]
<1>1. s \in Seq(Items) /\ Len(s) \in Nat /\ \A i \in 1 .. Len(s) : s[i] \in {"text", "reasoning"}
  BY DEF HarnessInv, HarnessTypes, WordsOnly
<1>2. /\ Append(s, "answer") \in Seq(Items) /\ Len(Append(s, "answer")) = Len(s) + 1
      /\ Append(s, "answer")[Len(s) + 1] = "answer"
      /\ \A i \in 1 .. Len(s) : Append(s, "answer")[i] = s[i]
  BY <1>1, AppendProperties DEF Items
<1> DEFINE w == Whole(r)
<1>3. /\ w \in Seq(Items) /\ Len(w) \in {Len(s), Len(s) + 1} /\ \A i \in 1 .. Len(s) : w[i] = s[i]
      /\ hFinal[r] = "error" => Len(w) = Len(s)
  <2>1. CASE hFinal[r] = "text" /\ hTexted[r] = FALSE
    BY <1>1, <1>2, <2>1 DEF Whole
  <2>2. CASE ~(hFinal[r] = "text" /\ hTexted[r] = FALSE)
    BY <1>1, <2>2 DEF Whole
  <2> QED BY <2>1, <2>2
<1>4. CASE hWorker[r] # "over"
  <2>1. Put(r) = s
    BY <1>4 DEF Put
  <2> HIDE DEF s, w
  <2>2. Put(r) \in Seq(Items) /\ w \in Seq(Items)
    BY <2>1, <1>1, <1>3
  <2>3. \A i \in 1 .. Len(Put(r)) : i <= Len(w) /\ Put(r)[i] = w[i] /\ Put(r)[i] \in {"text", "reasoning"}
    BY <2>1, <1>1, <1>3
  <2> QED BY <2>2, <2>3 DEF w
<1>5. CASE hWorker[r] = "over"
  <2>1. CASE hFinal[r] = "error"
    <3> DEFINE e == <<"error", "done">>
    <3>1. Put(r) = s \o e
      BY <1>5, <2>1 DEF Put, Harness!Rest
    <3>2. e \in Seq(Items) /\ Len(e) = 2 /\ e[1] = "error" /\ e[2] = "done"
      BY DEF Items
    <3> HIDE DEF e, s
    <3>3. /\ Put(r) \in Seq(Items) /\ Len(Put(r)) = Len(s) + 2
          /\ \A i \in 1 .. Len(s) : Put(r)[i] = s[i]
          /\ Put(r)[Len(s) + 1] = "error" /\ Put(r)[Len(s) + 2] = "done"
      <4>1. /\ s \o e \in Seq(Items) /\ Len(s \o e) = Len(s) + Len(e)
            /\ \A i \in 1 .. Len(s) + Len(e) : (s \o e)[i] = IF i <= Len(s) THEN s[i] ELSE e[i - Len(s)]
        BY <1>1, <3>2, ConcatProperties
      <4> QED BY <1>1, <3>1, <3>2, <4>1
    <3> HIDE DEF w
    <3>4. ASSUME NEW i \in 1 .. Len(Put(r))
          PROVE  \/ i \in 1 .. Len(s) /\ Put(r)[i] = w[i] /\ Put(r)[i] \in {"text", "reasoning"} /\ i <= Len(w)
                 \/ i = Len(s) + 1 /\ Put(r)[i] = "error" /\ i = Len(w) + 1
                 \/ i = Len(s) + 2 /\ Put(r)[i] = "done" /\ i = Len(w) + 2 /\ i - 1 \in 1 .. Len(Put(r)) /\ Put(r)[i - 1] = "error"
      BY <1>1, <1>3, <2>1, <3>3
    <3> QED BY <1>3, <1>5, <2>1, <3>3, <3>4 DEF w
  <2>2. CASE hFinal[r] = "text" /\ hTexted[r] = FALSE
    <3> DEFINE e == <<"answer", "done">>
    <3>0. Harness!Rest(r) = <<"answer">>
      <4>1. ~hTexted[r]
        BY <2>2
      <4> QED BY <2>2, <4>1 DEF Harness!Rest
    <3>1. Put(r) = s \o e
      BY <1>5, <3>0 DEF Put
    <3>2. e \in Seq(Items) /\ Len(e) = 2 /\ e[1] = "answer" /\ e[2] = "done"
      BY DEF Items
    <3>3. w = Append(s, "answer")
      BY <2>2 DEF Whole
    <3> HIDE DEF e, s, w
    <3>4. /\ Put(r) \in Seq(Items) /\ Len(Put(r)) = Len(s) + 2
          /\ \A i \in 1 .. Len(s) : Put(r)[i] = s[i]
          /\ Put(r)[Len(s) + 1] = "answer" /\ Put(r)[Len(s) + 2] = "done"
      <4>1. /\ s \o e \in Seq(Items) /\ Len(s \o e) = Len(s) + Len(e)
            /\ \A i \in 1 .. Len(s) + Len(e) : (s \o e)[i] = IF i <= Len(s) THEN s[i] ELSE e[i - Len(s)]
        BY <1>1, <3>2, ConcatProperties
      <4> QED BY <1>1, <3>1, <3>2, <4>1
    <3>5. ASSUME NEW i \in 1 .. Len(Put(r))
          PROVE  \/ i \in 1 .. Len(w) /\ Put(r)[i] = w[i] /\ Put(r)[i] \in {"text", "reasoning", "answer"}
                 \/ i = Len(w) + 1 /\ Put(r)[i] = "done"
      BY <1>1, <1>2, <3>3, <3>4
    <3> QED BY <1>3, <1>5, <2>2, <3>4, <3>5 DEF w
  <2>3. CASE hFinal[r] # "error" /\ ~(hFinal[r] = "text" /\ hTexted[r] = FALSE)
    <3> DEFINE e == <<"done">>
    <3>1. Put(r) = s \o e
      BY <1>5, <2>3 DEF Put, Harness!Rest, HarnessInv, HarnessTypes
    <3>2. e \in Seq(Items) /\ Len(e) = 1 /\ e[1] = "done"
      BY DEF Items
    <3>3. w = s
      BY <2>3 DEF Whole
    <3> HIDE DEF e, s, w
    <3>4. /\ Put(r) \in Seq(Items) /\ Len(Put(r)) = Len(s) + 1
          /\ \A i \in 1 .. Len(s) : Put(r)[i] = s[i]
          /\ Put(r)[Len(s) + 1] = "done"
      <4>1. /\ s \o e \in Seq(Items) /\ Len(s \o e) = Len(s) + Len(e)
            /\ \A i \in 1 .. Len(s) + Len(e) : (s \o e)[i] = IF i <= Len(s) THEN s[i] ELSE e[i - Len(s)]
        BY <1>1, <3>2, ConcatProperties
      <4> QED BY <1>1, <3>1, <3>2, <4>1
    <3>5. ASSUME NEW i \in 1 .. Len(Put(r))
          PROVE  \/ i \in 1 .. Len(w) /\ Put(r)[i] = w[i] /\ Put(r)[i] \in {"text", "reasoning"}
                 \/ i = Len(w) + 1 /\ Put(r)[i] = "done"
      BY <1>1, <3>3, <3>4
    <3> QED BY <1>3, <1>5, <2>3, <3>4, <3>5 DEF w
  <2> QED BY <2>1, <2>2, <2>3
<1> QED BY <1>4, <1>5

\* A turn that reads has been given the beginning of the whole.
LEMMA GivenIsBegun ==
  ASSUME HarnessInv, NEW r \in HRuns, hStream[r] = "open"
  PROVE  /\ Begun(hGot[r], Whole(r))
         /\ \A i \in 1 .. Len(hGot[r]) : /\ i \in 1 .. Len(Put(r)) /\ Put(r)[i] = hGot[r][i]
                                       /\ hGot[r][i] \in {"text", "reasoning", "answer"}
<1>1. Put(r) \in Seq(Items) /\ Whole(r) \in Seq(Items) /\ hGot[r] \in Seq(Items) /\ hQueue[r] \in Seq(Items)
  BY PutShape DEF HarnessInv, HarnessTypes
<1>2. Streamed(hGot[r], hQueue[r], Put(r))
  BY DEF HarnessInv, StreamsFollow
<1>3. /\ Len(hGot[r]) \in Nat /\ Len(hQueue[r]) \in Nat /\ DOMAIN hGot[r] = 1 .. Len(hGot[r])
      /\ Len(Whole(r)) \in Nat
  BY <1>1
<1>4. \A i \in 1 .. Len(hGot[r]) : hGot[r][i] \in {"text", "reasoning", "answer"}
  BY <1>3 DEF HarnessInv, WordsOnly
<1>5. \A i \in 1 .. Len(hGot[r]) : i \in 1 .. Len(Put(r)) /\ Put(r)[i] = hGot[r][i]
  <2> DEFINE g == hGot[r]
             d == Put(r)
  <2>1. Len(d) = Len(g) + Len(hQueue[r]) /\ \A i \in 1 .. Len(g) : d[i] = g[i]
    BY <1>2 DEF Streamed
  <2>2. Len(g) \in Nat /\ Len(hQueue[r]) \in Nat
    BY <1>3
  <2> HIDE DEF g, d
  <2>3. \A i \in 1 .. Len(g) : i \in 1 .. Len(d) /\ d[i] = g[i]
    BY <2>1, <2>2
  <2> QED BY <2>3 DEF g, d
<1>6. \A i \in 1 .. Len(hGot[r]) : i <= Len(Whole(r)) /\ hGot[r][i] = Whole(r)[i]
  <2> SUFFICES ASSUME NEW i \in 1 .. Len(hGot[r])
               PROVE  i <= Len(Whole(r)) /\ hGot[r][i] = Whole(r)[i]
    OBVIOUS
  <2>1. i \in 1 .. Len(Put(r)) /\ Put(r)[i] \in {"text", "reasoning", "answer"} /\ Put(r)[i] = hGot[r][i]
    BY <1>4, <1>5
  <2> QED BY <2>1, PutShape
<1>7. Begun(hGot[r], Whole(r))
  <2>1. CASE Len(hGot[r]) = 0
    BY <1>3, <2>1 DEF Begun
  <2>2. CASE Len(hGot[r]) # 0
    <3>1. Len(hGot[r]) \in 1 .. Len(hGot[r])
      BY <1>3, <2>2
    <3> QED BY <1>6, <3>1 DEF Begun
  <2> QED BY <2>1, <2>2
<1> QED BY <1>4, <1>5, <1>7

\* A run of the harness takes its own steps, and the other parts none of them.
LEMMA HarnessSteps ==
  [PartsNext]_allVars => [Harness!Next]_Harness!vars
<1> USE DEF allVars, rVars, hVars, Harness!vars
<1>1. CASE UNCHANGED allVars
  BY <1>1
<1>2. CASE PartsNext
  BY <1>2 DEF PartsNext, OfSlack, OfDiscord, OfFeishu, OfWeCom, OfWeChat, OfDingTalk,
     OfSchedule, OfHarness, OfAgents, OfSignIn
<1> QED BY <1>1, <1>2

\* Nothing runs at first.
LEMMA HarnessStarts == Harness!Init => HarnessInv
<1> SUFFICES ASSUME Harness!Init PROVE HarnessInv
  OBVIOUS
<1> USE DEF Harness!Init, Harness!None, Harness!Nothing
<1>1. \A r \in HRuns : hOf[r] \in [key : HKeys, session : HSessions \cup {"none"}]
  BY ChannelsConstants DEF Harness!DshConstants
<1>2. HarnessTypes
  BY <1>1 DEF HarnessTypes
<1>3. WordsOnly /\ LockHeld /\ ResultsKnown /\ StreamsFollow
  BY DEF WordsOnly, LockHeld, ResultsKnown, StreamsFollow
<1> QED BY <1>2, <1>3 DEF HarnessInv

\* A run begins with nothing said and nothing in its queue.
LEMMA BeginsFollow ==
  ASSUME HarnessInv, NEW r \in HRuns, NEW k \in HKeys, NEW s \in HSessions, Harness!Begins(r, k, s)
  PROVE  HarnessInv'
<1>1. /\ hStream[r] = "none" /\ hWorker[r] = "none"
      /\ hOf' = [hOf EXCEPT ![r] = [key |-> k, session |-> s]]
      /\ hWorker' = [hWorker EXCEPT ![r] = "lock"] /\ hStream' = [hStream EXCEPT ![r] = "open"]
      /\ UNCHANGED <<hLock, hSaid, hFinal, hTexted, hQueue, hGot>>
  BY DEF Harness!Begins, HarnessInv, ResultsKnown
<1>2. HarnessTypes'
  BY <1>1 DEF HarnessInv, HarnessTypes
<1>3. WordsOnly' /\ LockHeld'
  BY <1>1 DEF HarnessInv, HarnessTypes, WordsOnly, LockHeld
<1>4. ResultsKnown'
  BY <1>1 DEF HarnessInv, HarnessTypes, ResultsKnown
<1>5. ASSUME NEW q \in HRuns
      PROVE  /\ Put(q)' = Put(q) /\ Whole(q)' = Whole(q)
             /\ hWorker'[q] = "over" <=> hWorker[q] = "over"
             /\ hStream'[q] = IF q = r THEN "open" ELSE hStream[q]
  BY <1>1 DEF HarnessInv, HarnessTypes, Put, Whole, Harness!Rest
<1>6. Streamed(hGot[r], hQueue[r], Put(r))
  <2>1. hGot[r] = <<>> /\ hQueue[r] = <<>> /\ Put(r) = <<>>
    BY <1>1 DEF HarnessInv, ResultsKnown, Put
  <2> QED BY <2>1 DEF Streamed
<1>7. StreamsFollow'
  BY <1>1, <1>5, <1>6 DEF HarnessInv, StreamsFollow
<1> QED BY <1>2, <1>3, <1>4, <1>7 DEF HarnessInv

\* It waits until nobody runs in its runtime.
LEMMA LocksFollow ==
  ASSUME HarnessInv, NEW r \in HRuns, Harness!Locks(r)
  PROVE  HarnessInv'
<1>1. /\ hWorker[r] = "lock" /\ hLock[hOf[r].key] = 0
      /\ hWorker' = [hWorker EXCEPT ![r] = "run"] /\ hLock' = [hLock EXCEPT ![hOf[r].key] = r]
      /\ UNCHANGED <<hOf, hSaid, hFinal, hTexted, hQueue, hStream, hGot>>
  BY DEF Harness!Locks, Harness!Free
<1>2. hOf[r].key \in HKeys /\ 0 \notin HRuns
  BY ChannelsConstants DEF Harness!DshConstants, HarnessInv, HarnessTypes
<1>3. HarnessTypes'
  BY <1>1, <1>2 DEF HarnessInv, HarnessTypes
<1>4. WordsOnly' /\ ResultsKnown'
  BY <1>1 DEF HarnessInv, HarnessTypes, WordsOnly, ResultsKnown
<1>5. LockHeld'
  <2> SUFFICES ASSUME NEW q \in HRuns, hWorker'[q] = "run" PROVE hLock'[hOf'[q].key] = q
    BY DEF LockHeld
  <2>1. hOf'[q].key \in HKeys
    BY <1>3 DEF HarnessTypes
  <2>2. CASE q = r
    BY <1>1, <1>2, <2>2 DEF HarnessInv, HarnessTypes
  <2>3. CASE q # r
    <3>1. hLock[hOf[q].key] = q
      BY <1>1, <2>3 DEF HarnessInv, HarnessTypes, LockHeld
    <3> QED BY <1>1, <1>2, <2>1, <3>1 DEF HarnessInv, HarnessTypes
  <2> QED BY <2>2, <2>3
<1>6. ASSUME NEW q \in HRuns
      PROVE  /\ Put(q)' = Put(q) /\ Whole(q)' = Whole(q)
             /\ hWorker'[q] = "over" <=> hWorker[q] = "over"
  BY <1>1 DEF HarnessInv, HarnessTypes, Put, Whole, Harness!Rest
<1>7. StreamsFollow'
  BY <1>1, <1>6 DEF HarnessInv, StreamsFollow
<1> QED BY <1>3, <1>4, <1>5, <1>7 DEF HarnessInv

\* What a run says, only its own turn hears.
LEMMA SaysFollow ==
  ASSUME HarnessInv, NEW r \in HRuns, NEW kind \in {"text", "reasoning"}, Harness!Says(r, kind)
  PROVE  HarnessInv'
<1> DEFINE e == <<kind>>
<1>1. /\ hWorker[r] = "run" /\ hSaid' = [hSaid EXCEPT ![r] = Append(@, kind)]
      /\ UNCHANGED <<hOf, hWorker, hLock, hFinal, hStream, hGot>>
  BY DEF Harness!Says
<1>2. Harness!Listeners(r) = {r}
  BY <1>1 DEF Harness!Listeners, HarnessInv, HarnessTypes, LockHeld
<1>3. e \in Seq(Items) /\ kind \in Items
  BY DEF Items
<1>4. hQueue' = [q \in HRuns |-> IF hStream[q] = "open" THEN hQueue[q] \o (IF q = r THEN e ELSE <<>>)
                                ELSE hQueue[q]]
  BY <1>2 DEF Harness!Says, Harness!Enqueued
<1>5. hTexted' = [q \in HRuns |-> hTexted[q] \/ (q = r /\ kind = "text")]
  BY <1>2 DEF Harness!Says, Harness!Emitted
<1> HIDE DEF e
<1>6. hQueue' = [hQueue EXCEPT ![r] = IF hStream[r] = "open" THEN @ \o e ELSE @]
  <2>1. \A q \in HRuns : hQueue[q] \o <<>> = hQueue[q]
    BY ConcatEmptySeq DEF HarnessInv, HarnessTypes
  <2> QED BY <1>4, <2>1 DEF HarnessInv, HarnessTypes
<1>7. Append(hSaid[r], kind) = hSaid[r] \o e /\ hSaid[r] \in Seq(Items) /\ hQueue[r] \in Seq(Items)
      /\ hGot[r] \in Seq(Items)
  BY <1>3, AppendIsConcat DEF HarnessInv, HarnessTypes, e
<1>8. /\ Append(hSaid[r], kind) \in Seq(Items) /\ hQueue[r] \o e \in Seq(Items)
      /\ DOMAIN hSaid[r] = 1 .. Len(hSaid[r]) /\ DOMAIN Append(hSaid[r], kind) = 1 .. Len(hSaid[r]) + 1
      /\ \A i \in 1 .. Len(hSaid[r]) : Append(hSaid[r], kind)[i] = hSaid[r][i]
      /\ Append(hSaid[r], kind)[Len(hSaid[r]) + 1] = kind /\ Len(hSaid[r]) \in Nat
  BY <1>3, <1>7, ConcatProperties, AppendProperties
<1>9. HarnessTypes'
  <2>1. hSaid' \in [HRuns -> Seq(Items)] /\ hQueue' \in [HRuns -> Seq(Items)]
    BY <1>1, <1>6, <1>8 DEF HarnessInv, HarnessTypes
  <2>2. hTexted' \in [HRuns -> BOOLEAN]
    BY <1>5
  <2> QED BY <1>1, <2>1, <2>2 DEF HarnessInv, HarnessTypes
<1>10. hSaid'[r] = Append(hSaid[r], kind) /\ \A q \in HRuns \ {r} : hSaid'[q] = hSaid[q]
  BY <1>1 DEF HarnessInv, HarnessTypes
<1>11. WordsOnly'
  BY <1>1, <1>8, <1>10 DEF HarnessInv, WordsOnly
<1>12. LockHeld'
  BY <1>1 DEF HarnessInv, LockHeld
<1>13. hStream[r] # "none" /\ hFinal[r] = "none"
  BY <1>1 DEF HarnessInv, ResultsKnown
<1>14. \A q \in HRuns \ {r} : hTexted'[q] = hTexted[q] /\ hQueue'[q] = hQueue[q]
  BY <1>5, <1>6 DEF HarnessInv, HarnessTypes
<1>15. hTexted'[r] = TRUE <=> hTexted[r] = TRUE \/ kind = "text"
  BY <1>5 DEF HarnessInv, HarnessTypes
<1>16. ResultsKnown'
  <2>1. hTexted'[r] = TRUE <=> \E i \in DOMAIN hSaid'[r] : hSaid'[r][i] = "text"
    <3>1. hTexted[r] = TRUE <=> \E i \in 1 .. Len(hSaid[r]) : hSaid[r][i] = "text"
      BY <1>8 DEF HarnessInv, ResultsKnown
    <3>2. (\E i \in DOMAIN hSaid'[r] : hSaid'[r][i] = "text")
            <=> (\E i \in 1 .. Len(hSaid[r]) : hSaid[r][i] = "text") \/ kind = "text"
      BY <1>8, <1>10
    <3> QED BY <1>15, <3>1, <3>2
  <2>2. hFinal' = hFinal /\ hWorker' = hWorker /\ hStream' = hStream /\ hGot' = hGot
    BY <1>1
  <2>3. \A q \in HRuns \ {r} :
          /\ hTexted'[q] = TRUE <=> \E i \in DOMAIN hSaid'[q] : hSaid'[q][i] = "text"
          /\ hStream[q] = "none" => hSaid'[q] = <<>> /\ hQueue'[q] = <<>>
    BY <1>10, <1>14 DEF HarnessInv, ResultsKnown
  <2>4. \A q \in HRuns : hStream[q] = "none" => hGot[q] = <<>>
    BY DEF HarnessInv, ResultsKnown
  <2> QED BY <1>13, <2>1, <2>2, <2>3, <2>4 DEF HarnessInv, ResultsKnown
<1>17. ASSUME NEW q \in HRuns \ {r}
       PROVE  Put(q)' = Put(q) /\ Whole(q)' = Whole(q)
  BY <1>1, <1>10, <1>14 DEF Put, Whole, Harness!Rest
<1>18. Put(r) = hSaid[r] /\ Whole(r) = hSaid[r] /\ Put(r)' = hSaid[r] \o e /\ Whole(r)' = Append(hSaid[r], kind)
  BY <1>1, <1>7, <1>10, <1>13 DEF Put, Whole
<1>19. /\ hStream[r] = "open" => Streamed(hGot[r], hQueue[r], Put(r))
       /\ hStream[r] \in {"ended", "failed", "left"} => Begun(hGot[r], Whole(r)) /\ hQueue[r] = <<>>
       /\ hStream[r] \notin {"ended", "failed"}
  BY <1>1 DEF HarnessInv, StreamsFollow
<1>20. /\ hStream'[r] = "open" => Streamed(hGot'[r], hQueue'[r], Put(r)')
       /\ hStream'[r] \in {"ended", "failed", "left"} => Begun(hGot'[r], Whole(r)') /\ hQueue'[r] = <<>>
  <2>1. hQueue'[r] = IF hStream[r] = "open" THEN hQueue[r] \o e ELSE hQueue[r]
    BY <1>6 DEF HarnessInv, HarnessTypes
  <2>2. hStream[r] = "open" => Streamed(hGot[r], hQueue[r] \o e, hSaid[r] \o e)
    BY <1>3, <1>7, <1>18, <1>19, StreamedPuts
  <2>3. Begun(hGot[r], hSaid[r]) => Begun(hGot[r], Append(hSaid[r], kind))
    BY <1>3, <1>7, BegunMore
  <2> QED BY <1>1, <1>18, <1>19, <2>1, <2>2, <2>3
<1>21. StreamsFollow'
  BY <1>1, <1>14, <1>17, <1>19, <1>20 DEF HarnessInv, StreamsFollow
<1> QED BY <1>9, <1>11, <1>12, <1>16, <1>21 DEF HarnessInv

\* The harness returns: what the run said stands.
LEMMA ReturnsFollow ==
  ASSUME HarnessInv, NEW r \in HRuns, Harness!Returns(r)
  PROVE  HarnessInv'
<1>1. /\ hWorker[r] = "run" /\ hWorker' = [hWorker EXCEPT ![r] = "after"]
      /\ hLock' = [hLock EXCEPT ![hOf[r].key] = 0]
      /\ UNCHANGED <<hOf, hSaid, hTexted, hQueue, hStream, hGot>>
  BY DEF Harness!Returns
<1>2. PICK x \in {"text", "nothing", "error"} : hFinal' = [hFinal EXCEPT ![r] = x]
  BY DEF Harness!Returns
<1>3. hOf[r].key \in HKeys
  BY DEF HarnessInv, HarnessTypes
<1>4. HarnessTypes'
  BY <1>1, <1>2, <1>3 DEF HarnessInv, HarnessTypes
<1>5. WordsOnly'
  BY <1>1 DEF HarnessInv, WordsOnly
<1>6. ResultsKnown'
  BY <1>1, <1>2 DEF HarnessInv, HarnessTypes, ResultsKnown
<1>7. LockHeld'
  <2> SUFFICES ASSUME NEW q \in HRuns, hWorker'[q] = "run" PROVE hLock'[hOf'[q].key] = q
    BY DEF LockHeld
  <2>1. q # r /\ hWorker[q] = "run" /\ hOf[q].key \in HKeys
    BY <1>1 DEF HarnessInv, HarnessTypes
  <2>2. hLock[hOf[q].key] = q /\ hLock[hOf[r].key] = r
    BY <1>1, <2>1 DEF HarnessInv, LockHeld
  <2> QED BY <1>1, <2>1, <2>2 DEF HarnessInv, HarnessTypes
<1>8. ASSUME NEW q \in HRuns \ {r}
      PROVE  Put(q)' = Put(q) /\ Whole(q)' = Whole(q) /\ hWorker'[q] = hWorker[q] /\ hFinal'[q] = hFinal[q]
  BY <1>1, <1>2 DEF HarnessInv, HarnessTypes, Put, Whole, Harness!Rest
<1>9. /\ Put(r)' = hSaid[r] /\ Put(r) = hSaid[r] /\ Whole(r) = hSaid[r]
      /\ Whole(r)' \in {hSaid[r], Append(hSaid[r], "answer")}
  <2>1. hFinal[r] = "none" /\ hWorker'[r] = "after"
    BY <1>1 DEF HarnessInv, HarnessTypes, ResultsKnown
  <2> QED BY <1>1, <2>1 DEF Put, Whole
<1>10. Begun(hGot[r], hSaid[r]) => Begun(hGot[r], Append(hSaid[r], "answer"))
  <2>1. hGot[r] \in Seq(Items) /\ hSaid[r] \in Seq(Items) /\ "answer" \in Items
    BY DEF HarnessInv, HarnessTypes, Items
  <2> QED BY <2>1, BegunMore
<1>11. /\ hStream[r] = "open" => Streamed(hGot[r], hQueue[r], hSaid[r])
       /\ hStream[r] \in {"ended", "failed", "left"} => Begun(hGot[r], hSaid[r]) /\ hQueue[r] = <<>>
       /\ hStream[r] \notin {"ended", "failed"}
  BY <1>1, <1>9 DEF HarnessInv, StreamsFollow
<1>12. StreamsFollow'
  BY <1>1, <1>8, <1>9, <1>10, <1>11 DEF HarnessInv, StreamsFollow
<1> QED BY <1>4, <1>5, <1>6, <1>7, <1>12 DEF HarnessInv

\* The end of a run is put into its own queue, if its turn still reads.
LEMMA EndsFollow ==
  ASSUME HarnessInv, NEW r \in HRuns, Harness!EndsRun(r)
  PROVE  HarnessInv'
<1> DEFINE e == Append(Harness!Rest(r), "done")
<1>1. /\ hWorker[r] = "after" /\ hWorker' = [hWorker EXCEPT ![r] = "over"]
      /\ UNCHANGED <<hOf, hLock, hSaid, hFinal, hTexted, hStream, hGot>>
  BY DEF Harness!EndsRun
<1>2. Harness!Rest(r) \in {<<>>, <<"error">>, <<"answer">>}
  BY DEF Harness!Rest
<1>3. e \in Seq(Items)
  <2>1. <<>> \in Seq(Items) /\ <<"error">> \in Seq(Items) /\ <<"answer">> \in Seq(Items)
    BY DEF Items
  <2>2. Harness!Rest(r) \in Seq(Items) /\ "done" \in Items
    BY <1>2, <2>1 DEF Items
  <2> QED BY <2>2
<1>4. hQueue' = [q \in HRuns |-> IF hStream[q] = "open" THEN hQueue[q] \o (IF q = r THEN e ELSE <<>>)
                                ELSE hQueue[q]]
  BY DEF Harness!EndsRun, Harness!Enqueued
<1>5. e = Append(Harness!Rest(r), "done")
  OBVIOUS
<1> HIDE DEF e
<1>6. hQueue' = [hQueue EXCEPT ![r] = IF hStream[r] = "open" THEN @ \o e ELSE @]
  <2>1. \A q \in HRuns : hQueue[q] \o <<>> = hQueue[q]
    BY ConcatEmptySeq DEF HarnessInv, HarnessTypes
  <2> QED BY <1>4, <2>1 DEF HarnessInv, HarnessTypes
<1>7. hSaid[r] \in Seq(Items) /\ hQueue[r] \in Seq(Items) /\ hGot[r] \in Seq(Items)
      /\ hQueue[r] \o e \in Seq(Items)
  BY <1>3, ConcatProperties DEF HarnessInv, HarnessTypes
<1>8. HarnessTypes'
  <2>1. hQueue' \in [HRuns -> Seq(Items)]
    BY <1>6, <1>7 DEF HarnessInv, HarnessTypes
  <2> QED BY <1>1, <2>1 DEF HarnessInv, HarnessTypes
<1>9. WordsOnly' /\ LockHeld'
  BY <1>1 DEF HarnessInv, HarnessTypes, WordsOnly, LockHeld
<1>10. \A q \in HRuns \ {r} : hQueue'[q] = hQueue[q] /\ hWorker'[q] = hWorker[q]
  BY <1>1, <1>6 DEF HarnessInv, HarnessTypes
<1>11. hWorker'[r] = "over" /\ hFinal[r] # "none" /\ hStream[r] # "none"
  BY <1>1 DEF HarnessInv, HarnessTypes, ResultsKnown
<1>12. ResultsKnown'
  BY <1>1, <1>10, <1>11 DEF HarnessInv, ResultsKnown
<1>13. ASSUME NEW q \in HRuns \ {r}
       PROVE  Put(q)' = Put(q) /\ Whole(q)' = Whole(q)
  BY <1>1, <1>10 DEF Put, Whole, Harness!Rest
<1>14. Put(r) = hSaid[r] /\ Whole(r)' = Whole(r)
  BY <1>1 DEF Put, Whole
<1>15. Put(r)' = hSaid[r] \o e
  BY <1>1, <1>5, <1>11 DEF Put, Harness!Rest
<1>16. /\ hStream[r] = "open" => Streamed(hGot[r], hQueue[r], hSaid[r])
       /\ hStream[r] \in {"ended", "failed", "left"} => Begun(hGot[r], Whole(r)) /\ hQueue[r] = <<>>
       /\ hStream[r] \notin {"ended", "failed"}
  BY <1>1, <1>14 DEF HarnessInv, StreamsFollow
<1>17. hStream[r] = "open" => Streamed(hGot[r], hQueue[r] \o e, hSaid[r] \o e)
  BY <1>3, <1>7, <1>16, StreamedPuts
<1>18. hQueue'[r] = IF hStream[r] = "open" THEN hQueue[r] \o e ELSE hQueue[r]
  BY <1>6 DEF HarnessInv, HarnessTypes
<1>19. /\ hStream'[r] = "open" => Streamed(hGot'[r], hQueue'[r], Put(r)')
       /\ hStream'[r] \in {"ended", "failed", "left"} => Begun(hGot'[r], Whole(r)') /\ hQueue'[r] = <<>>
       /\ hStream'[r] \notin {"ended", "failed"}
  BY <1>1, <1>14, <1>15, <1>16, <1>17, <1>18
<1>20. StreamsFollow'
  <2> SUFFICES ASSUME NEW q \in HRuns
               PROVE  /\ hStream'[q] = "open" => Streamed(hGot'[q], hQueue'[q], Put(q)')
                      /\ hStream'[q] \in {"ended", "failed", "left"} =>
                           Begun(hGot'[q], Whole(q)') /\ hQueue'[q] = <<>>
                      /\ hStream'[q] = "ended" =>
                           hWorker'[q] = "over" /\ Len(hGot'[q]) = Len(Whole(q)') /\ hFinal'[q] # "error"
                      /\ hStream'[q] = "failed" =>
                           hWorker'[q] = "over" /\ Len(hGot'[q]) = Len(Whole(q)') /\ hFinal'[q] = "error"
    BY DEF StreamsFollow
  <2>1. CASE q = r
    BY <1>19, <2>1
  <2>2. CASE q # r
    BY <1>1, <1>10, <1>13, <2>2 DEF HarnessInv, StreamsFollow
  <2> QED BY <2>1, <2>2
<1> QED BY <1>8, <1>9, <1>12, <1>20 DEF HarnessInv

\* A turn takes what waits, in order: at the end of its run it has the whole.
LEMMA TakesFollow ==
  ASSUME HarnessInv, NEW r \in HRuns, Harness!Takes(r)
  PROVE  HarnessInv'
<1> DEFINE item == Head(hQueue[r])
           g == hGot[r]
           p == Put(r)
           w == Whole(r)
<1>1. /\ hStream[r] = "open" /\ hQueue[r] # <<>>
      /\ UNCHANGED <<hOf, hWorker, hLock, hSaid, hFinal, hTexted>>
  BY DEF Harness!Takes
<1>2. /\ hStream' = [hStream EXCEPT ![r] = CASE item = "done" -> "ended"
                                             [] item = "error" -> "failed" [] OTHER -> "open"]
      /\ hGot' = IF item \in {"done", "error"} THEN hGot ELSE [hGot EXCEPT ![r] = Append(g, item)]
      /\ hQueue' = [hQueue EXCEPT ![r] = IF hStream'[r] = "open" THEN Tail(hQueue[r]) ELSE <<>>]
  BY DEF Harness!Takes
<1>3. g \in Seq(Items) /\ hQueue[r] \in Seq(Items)
  BY DEF HarnessInv, HarnessTypes
<1>4. p \in Seq(Items) /\ w \in Seq(Items) /\ Streamed(g, hQueue[r], p)
  BY <1>1, PutShape DEF HarnessInv, StreamsFollow
<1>5. /\ Streamed(Append(g, item), Tail(hQueue[r]), p)
      /\ Len(g) + 1 \in 1 .. Len(p) /\ item = p[Len(g) + 1] /\ item \in Items
  BY <1>1, <1>3, <1>4, StreamedTakes
<1>6. Tail(hQueue[r]) \in Seq(Items) /\ Append(g, item) \in Seq(Items)
      /\ \A i \in DOMAIN Append(g, item) : Append(g, item)[i] = item \/ (i \in DOMAIN g /\ Append(g, item)[i] = g[i])
  BY <1>1, <1>3, <1>5, HeadTailProperties, AppendProperties
<1>7. /\ Begun(g, w)
      /\ \A i \in 1 .. Len(g) : p[i] = g[i] /\ g[i] \in {"text", "reasoning", "answer"}
  BY <1>1, GivenIsBegun
<1>8. ASSUME NEW q \in HRuns
      PROVE  Put(q)' = Put(q) /\ Whole(q)' = Whole(q)
  BY <1>1 DEF Put, Whole, Harness!Rest
<1>9. \A q \in HRuns \ {r} : hStream'[q] = hStream[q] /\ hGot'[q] = hGot[q] /\ hQueue'[q] = hQueue[q]
  BY <1>2 DEF HarnessInv, HarnessTypes
<1>10. WordsOnly /\ LockHeld /\ ResultsKnown /\ HarnessTypes /\ StreamsFollow
  BY DEF HarnessInv
<1>11. LockHeld'
  BY <1>1, <1>10 DEF LockHeld
<1>12. CASE item \notin {"done", "error"}
  <2>1. /\ hStream' = [hStream EXCEPT ![r] = "open"] /\ hGot' = [hGot EXCEPT ![r] = Append(g, item)]
        /\ hStream'[r] = "open"
    BY <1>2, <1>12, <1>10 DEF HarnessTypes
  <2>2. hQueue' = [hQueue EXCEPT ![r] = Tail(hQueue[r])]
    BY <1>2, <2>1
  <2> HIDE DEF item, g, p, w
  <2>3. hGot'[r] = Append(g, item) /\ hQueue'[r] = Tail(hQueue[r])
    BY <2>1, <2>2, <1>10 DEF HarnessTypes
  <2>4. HarnessTypes'
    BY <1>1, <1>6, <1>10, <2>1, <2>2 DEF HarnessTypes
  <2>5. WordsOnly'
    <3>1. item \in {"text", "reasoning", "answer"}
      BY <1>5, <1>12 DEF Items
    <3>2. \A i \in DOMAIN hGot'[r] : hGot'[r][i] \in {"text", "reasoning", "answer"}
      BY <1>6, <1>10, <2>3, <3>1 DEF WordsOnly, g
    <3> QED BY <1>1, <1>9, <1>10, <3>2 DEF WordsOnly
  <2>6. ResultsKnown'
    BY <1>1, <1>9, <1>10, <2>1 DEF ResultsKnown
  <2>7. Streamed(hGot[r], hQueue[r], Put(r))'
    <3>1. Put(r)' = p
      BY <1>1, <1>8 DEF p
    <3> QED BY <1>5, <2>3, <3>1
  <2>8. ASSUME NEW q \in HRuns
        PROVE  /\ hStream'[q] = "open" => Streamed(hGot[q], hQueue[q], Put(q))'
               /\ hStream'[q] \in {"ended", "failed", "left"} => Begun(hGot'[q], Whole(q)') /\ hQueue'[q] = <<>>
               /\ hStream'[q] = "ended" =>
                    hWorker'[q] = "over" /\ Len(hGot'[q]) = Len(Whole(q)') /\ hFinal'[q] # "error"
               /\ hStream'[q] = "failed" =>
                    hWorker'[q] = "over" /\ Len(hGot'[q]) = Len(Whole(q)') /\ hFinal'[q] = "error"
    <3>1. CASE q = r
      BY <2>1, <2>7, <3>1
    <3>2. CASE q # r
      <4>1. /\ hStream'[q] = hStream[q] /\ hGot'[q] = hGot[q] /\ hQueue'[q] = hQueue[q]
            /\ hWorker'[q] = hWorker[q] /\ hFinal'[q] = hFinal[q]
        BY <1>1, <1>9, <3>2
      <4> QED BY <1>8, <1>10, <4>1 DEF StreamsFollow
    <3> QED BY <3>1, <3>2
  <2>9. StreamsFollow'
    BY <2>8 DEF StreamsFollow
  <2> QED BY <1>11, <2>4, <2>5, <2>6, <2>9 DEF HarnessInv
<1>13. CASE item \in {"done", "error"}
  <2>1. /\ hGot' = hGot /\ hStream'[r] = IF item = "done" THEN "ended" ELSE "failed"
        /\ hStream' = [hStream EXCEPT ![r] = IF item = "done" THEN "ended" ELSE "failed"]
    BY <1>2, <1>10, <1>13 DEF HarnessTypes
  <2>2. hQueue' = [hQueue EXCEPT ![r] = <<>>]
    BY <1>2, <2>1
  <2> HIDE DEF item, g, p, w
  <2>3. hQueue'[r] = <<>>
    BY <2>2, <1>10 DEF HarnessTypes
  <2>4. hWorker[r] = "over"
    BY <1>5, <1>13, PutShape DEF p
  <2>5. Len(g) = Len(w)
    <3>1. Len(g) + 1 >= Len(w) + 1
      BY <1>5, <1>13, PutShape DEF p, w
    <3> QED BY <1>3, <1>4, <1>7, <3>1 DEF Begun
  <2>6. item = "done" => hFinal[r] # "error"
    <3> SUFFICES ASSUME item = "done", hFinal[r] = "error" PROVE FALSE
      OBVIOUS
    <3>1. (Len(g) + 1) - 1 \in 1 .. Len(p) /\ p[(Len(g) + 1) - 1] = "error"
      BY <1>5, PutShape DEF p
    <3>2. Len(g) \in 1 .. Len(g) /\ p[Len(g)] = "error"
      BY <1>3, <3>1
    <3>3. p[Len(g)] = g[Len(g)] /\ g[Len(g)] \in {"text", "reasoning", "answer"}
      BY <1>7, <3>2
    <3> QED BY <3>2, <3>3
  <2>7. item = "error" => hFinal[r] = "error"
    BY <1>5, PutShape DEF p
  <2>8. HarnessTypes'
    BY <1>1, <1>10, <2>1, <2>2 DEF HarnessTypes
  <2>9. WordsOnly' /\ ResultsKnown'
    BY <1>1, <1>9, <1>10, <2>1, <2>4 DEF WordsOnly, ResultsKnown
  <2>10. StreamsFollow'
    BY <1>1, <1>7, <1>8, <1>9, <1>10, <1>13, <2>1, <2>3, <2>4, <2>5, <2>6, <2>7 DEF StreamsFollow, g, w
  <2> QED BY <1>11, <2>8, <2>9, <2>10 DEF HarnessInv
<1> QED BY <1>12, <1>13

\* A turn that leaves has been given the beginning.
LEMMA LeavesFollow ==
  ASSUME HarnessInv, NEW r \in HRuns, Harness!Leaves(r)
  PROVE  HarnessInv'
<1>1. /\ hStream[r] = "open" /\ hStream' = [hStream EXCEPT ![r] = "left"]
      /\ hQueue' = [hQueue EXCEPT ![r] = <<>>]
      /\ UNCHANGED <<hOf, hWorker, hLock, hSaid, hFinal, hTexted, hGot>>
  BY DEF Harness!Leaves
<1>2. Put(r) \in Seq(Items) /\ Whole(r) \in Seq(Items) /\ Streamed(hGot[r], hQueue[r], Put(r))
  BY <1>1, PutShape DEF HarnessInv, StreamsFollow
<1>3. hGot[r] \in Seq(Items) /\ hQueue[r] \in Seq(Items)
  BY DEF HarnessInv, HarnessTypes
<1>4. Begun(hGot[r], Whole(r))
  BY <1>1, GivenIsBegun
<1>5. ASSUME NEW q \in HRuns
      PROVE  Put(q)' = Put(q) /\ Whole(q)' = Whole(q)
  BY <1>1 DEF Put, Whole, Harness!Rest
<1>6. HarnessTypes'
  BY <1>1 DEF HarnessInv, HarnessTypes
<1>7. WordsOnly' /\ LockHeld' /\ ResultsKnown'
  BY <1>1 DEF HarnessInv, HarnessTypes, WordsOnly, LockHeld, ResultsKnown
<1>8. \A q \in HRuns \ {r} : hStream'[q] = hStream[q] /\ hQueue'[q] = hQueue[q]
  BY <1>1 DEF HarnessInv, HarnessTypes
<1>9. hStream'[r] = "left" /\ hQueue'[r] = <<>>
  BY <1>1 DEF HarnessInv, HarnessTypes
<1>10. StreamsFollow'
  BY <1>1, <1>4, <1>5, <1>8, <1>9 DEF HarnessInv, StreamsFollow
<1> QED BY <1>6, <1>7, <1>10 DEF HarnessInv

\* Every step of a run, and of its turn, keeps it.
LEMMA HarnessKeeps ==
  ASSUME HarnessInv, [Harness!Next]_Harness!vars
  PROVE  HarnessInv'
<1>1. CASE UNCHANGED Harness!vars
  <2>1. UNCHANGED <<hOf, hWorker, hLock, hSaid, hFinal, hTexted, hQueue, hStream, hGot>>
    BY <1>1 DEF Harness!vars
  <2>2. ASSUME NEW q \in HRuns
        PROVE  Put(q)' = Put(q) /\ Whole(q)' = Whole(q)
    BY <2>1 DEF Put, Whole, Harness!Rest
  <2>3. HarnessTypes' /\ WordsOnly'
    BY <2>1 DEF HarnessInv, HarnessTypes, WordsOnly
  <2>4. LockHeld' /\ ResultsKnown'
    BY <2>1 DEF HarnessInv, LockHeld, ResultsKnown
  <2>5. StreamsFollow'
    BY <2>1, <2>2 DEF HarnessInv, StreamsFollow
  <2> QED BY <2>3, <2>4, <2>5 DEF HarnessInv
<1>2. CASE Harness!Next
  BY <1>2, BeginsFollow, LocksFollow, SaysFollow, ReturnsFollow, EndsFollow, TakesFollow, LeavesFollow
     DEF Harness!Next
<1> QED BY <1>1, <1>2

\* What a stream was given is the beginning of the whole, and all of it if it has ended.
LEMMA FollowingIsItsRuns == HarnessInv => Harness!StreamIsItsRuns
<1> SUFFICES ASSUME HarnessInv, NEW r \in HRuns
             PROVE  /\ Begun(hGot[r], Whole(r))
                    /\ hStream[r] = "ended" => hGot[r] = Whole(r) /\ hFinal[r] # "error"
                    /\ hStream[r] = "failed" => hGot[r] = Whole(r) /\ hFinal[r] = "error"
  <2>1. ASSUME HarnessInv, NEW q \in HRuns
        PROVE  /\ Whole(q) = IF hFinal[q] = "text" /\ \A i \in DOMAIN hSaid[q] : hSaid[q][i] # "text"
                             THEN Append(hSaid[q], "answer") ELSE hSaid[q]
               /\ DOMAIN hGot[q] = 1 .. Len(hGot[q])
    BY <2>1 DEF Whole, HarnessInv, HarnessTypes, ResultsKnown
  <2> SUFFICES ASSUME HarnessInv, NEW q \in HRuns
               PROVE  LET whole == IF hFinal[q] = "text" /\ \A i \in DOMAIN hSaid[q] : hSaid[q][i] # "text"
                                   THEN Append(hSaid[q], "answer") ELSE hSaid[q]
                      IN /\ Len(hGot[q]) <= Len(whole) /\ \A i \in DOMAIN hGot[q] : hGot[q][i] = whole[i]
                         /\ hStream[q] = "ended" => hGot[q] = whole /\ hFinal[q] # "error"
                         /\ hStream[q] = "failed" => hGot[q] = whole /\ hFinal[q] = "error"
    BY DEF Harness!StreamIsItsRuns
  <2>2. Whole(q) = (IF hFinal[q] = "text" /\ \A i \in DOMAIN hSaid[q] : hSaid[q][i] # "text"
                   THEN Append(hSaid[q], "answer") ELSE hSaid[q])
    BY <2>1
  <2>3. Len(hGot[q]) <= Len(Whole(q)) /\ \A i \in DOMAIN hGot[q] : hGot[q][i] = Whole(q)[i]
    BY <2>1 DEF Begun
  <2> QED BY <2>2, <2>3
<1>1. hGot[r] \in Seq(Items) /\ Whole(r) \in Seq(Items) /\ Put(r) \in Seq(Items) /\ hQueue[r] \in Seq(Items)
  BY PutShape DEF HarnessInv, HarnessTypes
<1>2. Begun(hGot[r], Whole(r))
  <2>1. CASE hStream[r] = "none"
    BY <1>1, <2>1 DEF HarnessInv, ResultsKnown, Begun
  <2>2. CASE hStream[r] = "open"
    BY <2>2, GivenIsBegun
  <2>3. CASE hStream[r] \in {"ended", "failed", "left"}
    BY <2>3 DEF HarnessInv, StreamsFollow
  <2> QED BY <2>1, <2>2, <2>3 DEF HarnessInv, HarnessTypes
<1>3. Len(hGot[r]) = Len(Whole(r)) => hGot[r] = Whole(r)
  BY <1>1, <1>2, SeqEqual DEF Begun
<1> QED BY <1>2, <1>3 DEF HarnessInv, StreamsFollow

\* A turn is streamed what its own run of the harness said, in order and to the end, though a
\* cancelled run of its session goes on; it resumes a thread of its own agent and session, and
\* has the skills it linked while it runs; and its token is the last login's, which polled as
\* seldom as GitHub asked: _stream_with_dsh, run_model, _poll_github_device_access_token.
THEOREM RunsOwned == PartsSpec => []RunsAreTheirOwn
<1> DEFINE Inv == HarnessInv /\ AgentsInv /\ LoginInv
<1>1. PartsInit => Inv
  BY HarnessStarts, AgentsStart, LoginStarts DEF PartsInit
<1>2. Inv /\ [PartsNext]_allVars => Inv'
  BY HarnessSteps, HarnessKeeps, AgentSteps, AgentsKeep, SignInSteps, SignInKeepsLogin
<1>3. Inv => RunsAreTheirOwn
  <2> SUFFICES ASSUME Inv PROVE RunsAreTheirOwn
    OBVIOUS
  <2>1. Harness!StreamIsItsRuns
    BY FollowingIsItsRuns
  <2>2. Agents!ThreadsAreKept
    BY DEF AgentsInv, ThreadsOwn, LastIsKept, Agents!ThreadsAreKept
  <2>3. SignIn!LoginIsPatient
    BY DEF LoginInv, LoginTypes, LoginSleeps, SignIn!LoginIsPatient
  <2> QED BY <2>1, <2>2, <2>3 DEF RunsAreTheirOwn, AgentsInv, LoginInv
<1> QED BY <1>1, <1>2, <1>3, PTL DEF PartsSpec

-----------------------------------------------------------------------------
(* The proof that messages arrive in order: DingTalk *)

\* The set of tasks knows every one that has yet to run.
TasksKnown ==
  /\ tTask \in [Messages -> {"none", "due", "handed", "denied", "cancelled"}]
  /\ \A m \in Messages : tTask[m] = "due" => m \in tKnown

\* DingTalk takes its own steps, and the other parts none of them.
LEMMA DingTalkSteps ==
  [PartsNext]_allVars => [DingTalk!Next]_DingTalk!vars
<1> USE DEF allVars, kVars, tVars, DingTalk!vars
<1>1. CASE UNCHANGED allVars
  BY <1>1
<1>2. CASE PartsNext
  BY <1>2 DEF PartsNext, OfSlack, OfDiscord, OfFeishu, OfWeCom, OfWeChat, OfDingTalk,
     OfSchedule, OfHarness, OfAgents, OfSignIn
<1> QED BY <1>1, <1>2

\* A task leaves the set when it runs, and stop cancels all that it takes out.
LEMMA DingTalkKnows ==
  ASSUME TasksKnown, [DingTalk!Next]_DingTalk!vars
  PROVE  TasksKnown'
<1>1. CASE DingTalk!Streams \/ DingTalk!Ends \/ UNCHANGED DingTalk!vars
  BY <1>1 DEF DingTalk!Streams, DingTalk!Ends, DingTalk!vars, TasksKnown
<1>2. CASE DingTalk!Stops
  BY <1>2 DEF DingTalk!Stops, DingTalk!TasksCancelled, TasksKnown
<1>3. ASSUME NEW m \in Messages, DingTalk!Calls(m) \/ DingTalk!Hands(m)
      PROVE  TasksKnown'
  BY <1>3 DEF DingTalk!Calls, DingTalk!Hands, TasksKnown
<1> QED BY <1>1, <1>2, <1>3 DEF DingTalk!Next

\* What is handed over after stop has begun was known when it was.
LEMMA DingTalkStays ==
  ASSUME TasksKnown, [DingTalk!Next]_DingTalk!vars
  PROVE  [tStop # "no" => \A m \in Messages :
            tTask'[m] = "handed" /\ tTask[m] # "handed" => m \in tKnown]_DingTalk!vars
<1> SUFFICES ASSUME DingTalk!Next, tStop # "no", NEW m \in Messages,
                    tTask'[m] = "handed", tTask[m] # "handed"
             PROVE  m \in tKnown
  OBVIOUS
<1>1. \A n \in Messages : ~DingTalk!Calls(n)
  BY DEF DingTalk!Calls, TasksKnown
<1>2. PICK n \in Messages : DingTalk!Hands(n)
  BY <1>1 DEF DingTalk!Next, DingTalk!Streams, DingTalk!Stops, DingTalk!Ends
<1>3. n = m
  BY <1>2 DEF DingTalk!Hands, TasksKnown
<1> QED BY <1>2, <1>3 DEF DingTalk!Hands, TasksKnown

-----------------------------------------------------------------------------
(* The proof that messages arrive in order: Feishu *)

\* What is handed over.
FeishuHanded ==
  [message : Messages, late : BOOLEAN, overran : BOOLEAN,
   item : {"none", "image", "video", "audio", "document"}]

\* The types of events, names and messages handed over.
FeishuTypes ==
  /\ fPc \in [Messages -> {"due", "name", "build", "handed", "dropped", "failed"}]
  /\ fEvent \in [Messages -> Feishu!Events \cup {Feishu!NoEvent}]
  /\ fNames \in [Senders -> [Feishu!IdTypes -> {"unknown", "name", "nameless"}]]
  /\ fAnswered \in [Senders -> [Feishu!IdTypes -> Nat]]
  /\ fHanded \in Seq(FeishuHanded)

\* The client's thread gives one message at a time, and the next when that is handed over.
OneAtATime ==
  /\ \A m, n \in Messages : fPc[m] = "due" /\ fPc[n] # "due" => n < m
  /\ \A m \in Messages : fPc[m] \in {"name", "build"} => fThread = "blocked" /\ fEvent[m] \in Feishu!Events
  /\ \A m, n \in Messages : fPc[m] \in {"name", "build"} /\ fPc[n] # "due" => n <= m

\* A thread that is still there when the loop has stopped has outlived the join.
ThreadOverran ==
  /\ fOverran \in BOOLEAN /\ (fLoop = "stopped" /\ fThread # "none" => fOverran = TRUE)
  /\ fLoop = "off" => fThread = "none"

\* What was handed over is handed.
HandedInOrder ==
  /\ \A i \in DOMAIN fHanded :
       fPc[fHanded[i].message] = "handed" /\ (fHanded[i].late = TRUE => fHanded[i].overran = TRUE)
  /\ \A i, j \in DOMAIN fHanded : i < j => fHanded[i].message < fHanded[j].message

\* An id is known once a lookup of it was answered.
AnsweredOnce ==
  \A s \in Senders, t \in Feishu!IdTypes :
    fAnswered[s][t] <= 1 /\ (fNames[s][t] = "unknown" => fAnswered[s][t] = 0)

FeishuInv == FeishuTypes /\ OneAtATime /\ ThreadOverran /\ HandedInOrder /\ AnsweredOnce

\* Feishu takes its own steps, and the other parts none of them.
LEMMA FeishuSteps ==
  [PartsNext]_allVars => [Feishu!Next]_Feishu!vars
<1> USE DEF allVars, kVars, fVars, Feishu!vars, Feishu!lifeVars
<1>1. CASE UNCHANGED allVars
  BY <1>1
<1>2. CASE PartsNext
  BY <1>2 DEF PartsNext, OfSlack, OfDiscord, OfFeishu, OfWeCom, OfWeChat, OfDingTalk,
     OfSchedule, OfHarness, OfAgents, OfSignIn
<1> QED BY <1>1, <1>2

\* Messages are handed over.
LEMMA HandedShape ==
  ASSUME FeishuTypes
  PROVE  \A i \in DOMAIN fHanded : fHanded[i] \in FeishuHanded /\ fHanded[i].message \in Messages
<1>1. \A i \in DOMAIN fHanded : fHanded[i] \in FeishuHanded
  BY DEF FeishuTypes
<1> QED BY <1>1 DEF FeishuHanded

\* No message has come at first.
LEMMA FeishuStarts == Feishu!Init => FeishuInv
<1> SUFFICES ASSUME Feishu!Init PROVE FeishuInv
  OBVIOUS
<1> USE DEF Feishu!Init
<1>1. FeishuTypes
  BY DEF FeishuTypes
<1>2. OneAtATime
  BY DEF OneAtATime
<1>3. ThreadOverran
  BY DEF ThreadOverran
<1>4. HandedInOrder
  BY DEF HandedInOrder
<1>5. AnsweredOnce
  BY DEF AnsweredOnce
<1> QED BY <1>1, <1>2, <1>3, <1>4, <1>5 DEF FeishuInv

\* The loop and the thread start and end; none but the join of stop outlives the thread.
LEMMA LifeKeepsFeishu ==
  ASSUME FeishuInv, Feishu!Starts \/ Feishu!Stops \/ Feishu!ThreadEnds \/ Feishu!Joins
  PROVE  FeishuInv'
<1>1. UNCHANGED <<fEvent, fPc, fNames, fAnswered, fHanded>>
  BY DEF Feishu!Starts, Feishu!Stops, Feishu!ThreadEnds, Feishu!Joins
<1>2. FeishuTypes' /\ AnsweredOnce'
  BY <1>1 DEF FeishuInv, FeishuTypes, AnsweredOnce
<1>3. HandedInOrder'
  BY <1>1 DEF FeishuInv, HandedInOrder
<1>4. ThreadOverran'
  BY DEF Feishu!Starts, Feishu!Stops, Feishu!ThreadEnds, Feishu!Joins, FeishuInv, ThreadOverran
<1>5. OneAtATime'
  <2>1. \A m \in Messages : fPc[m] \in {"name", "build"} => fThread' = "blocked"
    BY DEF FeishuInv, OneAtATime, ThreadOverran, Feishu!Starts, Feishu!Stops, Feishu!ThreadEnds, Feishu!Joins
  <2> QED BY <1>1, <2>1 DEF FeishuInv, OneAtATime
<1> QED BY <1>2, <1>3, <1>4, <1>5 DEF FeishuInv

\* An event is given when those before it were.
LEMMA ReceivesInOrder ==
  ASSUME FeishuInv, NEW m \in Messages, Feishu!Receives(m)
  PROVE  FeishuInv'
<1>1. /\ fThread = "waiting" /\ fPc[m] = "due" /\ \A n \in Messages : n < m => fPc[n] # "due"
      /\ UNCHANGED <<fLoop, fOverran, fNames, fAnswered, fHanded>>
  BY DEF Feishu!Receives
<1>2. \/ /\ fThread' = "blocked" /\ fPc' = [fPc EXCEPT ![m] = "name"]
         /\ \E e \in Feishu!Events : fEvent' = [fEvent EXCEPT ![m] = e]
      \/ fPc' = [fPc EXCEPT ![m] = "dropped"] /\ UNCHANGED <<fThread, fEvent>>
  BY DEF Feishu!Receives, Feishu!Gives
<1>3. FeishuTypes'
  BY <1>1, <1>2 DEF FeishuInv, FeishuTypes
<1>4. OneAtATime'
  <2>1. \A n \in Messages : fPc[n] \notin {"name", "build"}
    BY <1>1 DEF FeishuInv, OneAtATime
  <2>2. \A n, k \in Messages : fPc'[n] = "due" /\ fPc'[k] # "due" => k < n
    BY <1>1, <1>2, ChannelsConstants DEF FeishuInv, FeishuTypes, OneAtATime, Feishu!FeishuConstants
  <2>3. \A n \in Messages : fPc'[n] \in {"name", "build"} =>
          n = m /\ fThread' = "blocked" /\ fEvent'[n] \in Feishu!Events
    BY <1>2, <2>1 DEF FeishuInv, FeishuTypes
  <2>4. \A n, k \in Messages : fPc'[n] \in {"name", "build"} /\ fPc'[k] # "due" => k <= n
    BY <1>1, <1>2, <2>3, ChannelsConstants DEF FeishuInv, FeishuTypes, OneAtATime, Feishu!FeishuConstants
  <2> QED BY <2>2, <2>3, <2>4 DEF OneAtATime
<1>5. ThreadOverran'
  BY <1>1, <1>2 DEF FeishuInv, ThreadOverran
<1>6. HandedInOrder'
  <2>1. \A n \in Messages : fPc[n] = "handed" => fPc'[n] = "handed"
    BY <1>1, <1>2 DEF FeishuInv, FeishuTypes
  <2>2. \A i \in DOMAIN fHanded : fHanded[i].message \in Messages
    BY HandedShape DEF FeishuInv
  <2>3. \A i \in DOMAIN fHanded : fPc'[fHanded[i].message] = "handed"
    BY <2>1, <2>2 DEF FeishuInv, HandedInOrder
  <2> QED BY <1>1, <2>3 DEF FeishuInv, HandedInOrder
<1>7. AnsweredOnce'
  BY <1>1 DEF FeishuInv, AnsweredOnce
<1> QED BY <1>3, <1>4, <1>5, <1>6, <1>7 DEF FeishuInv

\* What a lookup is answered for was unknown, and is known then.
LEMMA LooksUpOnce ==
  ASSUME FeishuInv, NEW s \in Senders, NEW last \in 0 .. 3, NEW found \in BOOLEAN,
         Feishu!LookedUp(s, last, found)
  PROVE  /\ fNames' \in [Senders -> [Feishu!IdTypes -> {"unknown", "name", "nameless"}]]
         /\ fAnswered' \in [Senders -> [Feishu!IdTypes -> Nat]]
         /\ AnsweredOnce'
<1>1. /\ \A t \in 1 .. last : fNames[s][t] = "unknown"
      /\ fNames' = [fNames EXCEPT ![s] = [t \in Feishu!IdTypes |->
           IF t > last THEN fNames[s][t] ELSE IF t = last /\ found THEN "name" ELSE "nameless"]]
      /\ fAnswered' = [fAnswered EXCEPT ![s] = [t \in Feishu!IdTypes |->
           IF t > last THEN fAnswered[s][t] ELSE fAnswered[s][t] + 1]]
  BY DEF Feishu!LookedUp
<1>2. /\ fNames' \in [Senders -> [Feishu!IdTypes -> {"unknown", "name", "nameless"}]]
      /\ fAnswered' \in [Senders -> [Feishu!IdTypes -> Nat]]
  BY <1>1 DEF FeishuInv, FeishuTypes
<1>3. ASSUME NEW q \in Senders, NEW t \in Feishu!IdTypes
      PROVE  fAnswered'[q][t] <= 1 /\ (fNames'[q][t] = "unknown" => fAnswered'[q][t] = 0)
  <2>1. fAnswered[q][t] <= 1 /\ (fNames[q][t] = "unknown" => fAnswered[q][t] = 0)
    BY DEF FeishuInv, AnsweredOnce
  <2>2. CASE q # s
    BY <1>1, <2>1, <2>2 DEF FeishuInv, FeishuTypes
  <2>3. CASE q = s
    <3>1. /\ fAnswered'[s][t] = IF t > last THEN fAnswered[s][t] ELSE fAnswered[s][t] + 1
          /\ fNames'[s][t] = IF t > last THEN fNames[s][t]
                             ELSE IF t = last /\ found THEN "name" ELSE "nameless"
      BY <1>1 DEF FeishuInv, FeishuTypes
    <3>2. ~ (t > last) => fNames[s][t] = "unknown"
      BY <1>1 DEF Feishu!IdTypes
    <3> QED BY <2>1, <2>3, <3>1, <3>2
  <2> QED BY <2>2, <2>3
<1> QED BY <1>2, <1>3 DEF AnsweredOnce

\* A message is given its sender's name.
LEMMA NamesOnce ==
  ASSUME FeishuInv, NEW m \in Messages, Feishu!Names(m)
  PROVE  FeishuInv'
<1>1. /\ fPc[m] = "name" /\ fPc' = [fPc EXCEPT ![m] = "build"]
      /\ UNCHANGED <<fLoop, fThread, fOverran, fEvent, fHanded>>
  BY DEF Feishu!Names, Feishu!lifeVars
<1>2. PICK last \in 0 .. 3, found \in BOOLEAN : Feishu!LookedUp(fEvent[m].sender, last, found)
  BY DEF Feishu!Names, Feishu!IdTypes
<1>3. fEvent[m].sender \in Senders
  BY <1>1 DEF FeishuInv, OneAtATime, Feishu!Events
<1>4. FeishuTypes' /\ AnsweredOnce'
  BY <1>1, <1>2, <1>3, LooksUpOnce DEF FeishuInv, FeishuTypes
<1>5. OneAtATime'
  BY <1>1 DEF FeishuInv, FeishuTypes, OneAtATime
<1>6. ThreadOverran'
  BY <1>1 DEF FeishuInv, ThreadOverran
<1>7. HandedInOrder'
  BY <1>1 DEF FeishuInv, FeishuTypes, HandedInOrder
<1> QED BY <1>4, <1>5, <1>6, <1>7 DEF FeishuInv

\* The message that is handed over is the latest that has come.
LEMMA BuildsInOrder ==
  ASSUME FeishuInv, NEW m \in Messages, Feishu!Builds(m)
  PROVE  FeishuInv'
<1> DEFINE h == [message |-> m, late |-> fLoop = "stopped", overran |-> fOverran,
                 item |-> Feishu!Item(fEvent[m])]
<1>1. /\ fPc[m] = "build" /\ fPc' = [fPc EXCEPT ![m] = "handed"]
      /\ fHanded' = Append(fHanded, h)
      /\ UNCHANGED <<fLoop, fOverran, fEvent, fNames, fAnswered>>
  BY DEF Feishu!Builds
<1>2. fThread = "blocked" /\ fThread' = "waiting"
  BY <1>1 DEF Feishu!Builds, FeishuInv, OneAtATime
<1>3. Feishu!Item(fEvent[m]) \in {"none", "image", "video", "audio", "document"}
  BY DEF Feishu!Item, Feishu!MediaItem
<1>4. h \in FeishuHanded
  BY <1>3 DEF FeishuInv, ThreadOverran, FeishuHanded
<1>5. /\ h.message = m /\ (h.late = TRUE => fLoop = "stopped") /\ h.overran = fOverran
  OBVIOUS
<1> HIDE DEF h
<1>6. /\ Len(fHanded) \in Nat /\ Len(fHanded') = Len(fHanded) + 1 /\ fHanded'[Len(fHanded) + 1] = h
      /\ \A i \in 1 .. Len(fHanded) : fHanded'[i] = fHanded[i] /\ fHanded[i].message \in Messages
  <2>1. fHanded \in Seq(FeishuHanded)
    BY DEF FeishuInv, FeishuTypes
  <2>2. \A i \in 1 .. Len(fHanded) : fHanded[i].message \in Messages
    BY <2>1, HandedShape DEF FeishuInv
  <2> QED BY <1>1, <1>4, <2>1, <2>2, AppendProperties
<1>7. FeishuTypes'
  BY <1>1, <1>4 DEF FeishuInv, FeishuTypes
<1>8. OneAtATime'
  <2>1. \A n \in Messages : fPc'[n] = IF n = m THEN "handed" ELSE fPc[n]
    BY <1>1 DEF FeishuInv, FeishuTypes
  <2>2. \A n \in Messages : fPc'[n] \notin {"name", "build"}
    BY <1>1, <2>1, ChannelsConstants DEF FeishuInv, OneAtATime, Feishu!FeishuConstants
  <2> QED BY <1>1, <2>1, <2>2 DEF FeishuInv, OneAtATime
<1>9. ThreadOverran'
  BY <1>1, <1>2 DEF FeishuInv, ThreadOverran
<1>10. \A i \in 1 .. Len(fHanded) : fHanded[i].message < m /\ fPc[fHanded[i].message] = "handed"
  <2> SUFFICES ASSUME NEW i \in 1 .. Len(fHanded)
               PROVE  fHanded[i].message < m /\ fPc[fHanded[i].message] = "handed"
    OBVIOUS
  <2>1. fHanded[i].message \in Messages /\ fPc[fHanded[i].message] = "handed"
    BY <1>6 DEF FeishuInv, HandedInOrder, FeishuTypes
  <2>2. fHanded[i].message <= m
    BY <1>1, <2>1 DEF FeishuInv, OneAtATime
  <2>3. fHanded[i].message # m
    BY <1>1, <2>1
  <2>4. fHanded[i].message \in Nat /\ m \in Nat
    BY <2>1, ChannelsConstants DEF Feishu!FeishuConstants
  <2> QED BY <2>1, <2>2, <2>3, <2>4
<1>11. HandedInOrder'
  <2>1. h.late = TRUE => h.overran = TRUE
    BY <1>2, <1>5 DEF FeishuInv, ThreadOverran
  <2>2. fPc'[m] = "handed" /\ \A n \in Messages : fPc[n] = "handed" => fPc'[n] = "handed"
    BY <1>1 DEF FeishuInv, FeishuTypes
  <2>3. DOMAIN fHanded' = 1 .. Len(fHanded) + 1 /\ DOMAIN fHanded = 1 .. Len(fHanded)
    BY <1>1, <1>4 DEF FeishuInv, FeishuTypes
  <2>4. \A i \in 1 .. Len(fHanded) + 1 : i \in 1 .. Len(fHanded) \/ i = Len(fHanded) + 1
    BY <1>6
  <2>5. \A i \in DOMAIN fHanded' : fPc'[fHanded'[i].message] = "handed"
                                   /\ (fHanded'[i].late = TRUE => fHanded'[i].overran = TRUE)
    BY <1>5, <1>6, <1>10, <2>1, <2>2, <2>3, <2>4 DEF FeishuInv, HandedInOrder
  <2>6. \A i, j \in DOMAIN fHanded' : i < j => fHanded'[i].message < fHanded'[j].message
    <3> SUFFICES ASSUME NEW i \in 1 .. Len(fHanded) + 1, NEW j \in 1 .. Len(fHanded) + 1, i < j
                 PROVE  fHanded'[i].message < fHanded'[j].message
      BY <2>3
    <3>1. i \in 1 .. Len(fHanded)
      BY <1>6
    <3>2. CASE j = Len(fHanded) + 1
      BY <1>5, <1>6, <1>10, <3>1, <3>2
    <3>3. CASE j \in 1 .. Len(fHanded)
      BY <1>6, <2>3, <3>1, <3>3 DEF FeishuInv, HandedInOrder
    <3> QED BY <2>4, <3>2, <3>3
  <2> QED BY <2>5, <2>6 DEF HandedInOrder
<1>12. AnsweredOnce'
  BY <1>1 DEF FeishuInv, AnsweredOnce
<1> QED BY <1>7, <1>8, <1>9, <1>11, <1>12 DEF FeishuInv

\* A message that has failed is not handed over, nor is a reply a message.
LEMMA FailsKeepsFeishu ==
  ASSUME FeishuInv,
         \/ UNCHANGED Feishu!vars
         \/ \E m \in Messages : Feishu!NamesFail(m) \/ Feishu!BuildFails(m)
         \/ \E r \in Sends : Feishu!Replies(r) \/ Feishu!Answers(r)
  PROVE  FeishuInv'
<1>1. ASSUME UNCHANGED <<fLoop, fThread, fOverran, fEvent, fPc, fNames, fAnswered, fHanded>>
      PROVE  FeishuInv'
  BY <1>1 DEF FeishuInv, FeishuTypes, OneAtATime, ThreadOverran, HandedInOrder, AnsweredOnce
<1>2. CASE \/ UNCHANGED Feishu!vars
           \/ \E r \in Sends : Feishu!Replies(r) \/ Feishu!Answers(r)
  BY <1>1, <1>2 DEF Feishu!vars, Feishu!lifeVars, Feishu!Replies, Feishu!Answers
<1>3. ASSUME NEW m \in Messages, Feishu!NamesFail(m) \/ Feishu!BuildFails(m)
      PROVE  FeishuInv'
  <2>1. /\ fPc[m] \in {"name", "build"} /\ fPc' = [fPc EXCEPT ![m] = "failed"]
        /\ UNCHANGED <<fLoop, fOverran, fEvent, fHanded>>
    BY <1>3 DEF Feishu!NamesFail, Feishu!BuildFails, Feishu!Swallows
  <2>2. fThread = "blocked" /\ fThread' = "waiting"
    BY <1>3, <2>1 DEF Feishu!NamesFail, Feishu!BuildFails, Feishu!Swallows, FeishuInv, OneAtATime
  <2>3. FeishuTypes' /\ AnsweredOnce'
    <3>1. CASE Feishu!NamesFail(m)
      <4>1. PICK t \in 1 .. 3 : Feishu!LookedUp(fEvent[m].sender, t - 1, FALSE)
        BY <3>1 DEF Feishu!NamesFail, Feishu!IdTypes
      <4>2. fEvent[m].sender \in Senders /\ t - 1 \in 0 .. 3
        BY <2>1 DEF FeishuInv, OneAtATime, Feishu!Events
      <4> QED BY <2>1, <4>1, <4>2, LooksUpOnce DEF FeishuInv, FeishuTypes
    <3>2. CASE Feishu!BuildFails(m)
      <4>1. UNCHANGED <<fNames, fAnswered>>
        BY <3>2 DEF Feishu!BuildFails
      <4> QED BY <2>1, <4>1 DEF FeishuInv, FeishuTypes, AnsweredOnce
    <3> QED BY <1>3, <3>1, <3>2
  <2>4. OneAtATime'
    <3>1. \A n \in Messages : fPc'[n] = IF n = m THEN "failed" ELSE fPc[n]
      BY <2>1 DEF FeishuInv, FeishuTypes
    <3>2. \A n \in Messages : fPc'[n] \notin {"name", "build"}
      BY <2>1, <3>1, ChannelsConstants DEF FeishuInv, OneAtATime, Feishu!FeishuConstants
    <3> QED BY <2>1, <3>1, <3>2 DEF FeishuInv, OneAtATime
  <2>5. ThreadOverran'
    BY <2>1, <2>2 DEF FeishuInv, ThreadOverran
  <2>6. HandedInOrder'
    <3>1. \A i \in DOMAIN fHanded : fPc'[fHanded[i].message] = "handed"
      BY <2>1 DEF FeishuInv, FeishuTypes, HandedInOrder
    <3> QED BY <2>1, <3>1 DEF FeishuInv, HandedInOrder
  <2> QED BY <2>3, <2>4, <2>5, <2>6 DEF FeishuInv
<1> QED BY <1>2, <1>3

\* Every step of the client's thread and of the loop keeps it.
LEMMA FeishuKeeps ==
  ASSUME FeishuInv, [Feishu!Next]_Feishu!vars
  PROVE  FeishuInv'
BY LifeKeepsFeishu, ReceivesInOrder, NamesOnce, BuildsInOrder, FailsKeepsFeishu DEF Feishu!Next

\* The messages are in order, then, and no id is looked up again once that was answered.
LEMMA FeishuInOrder == FeishuInv => Feishu!MessagesInOrder
<1> SUFFICES ASSUME FeishuInv PROVE Feishu!MessagesInOrder
  OBVIOUS
<1>1. \A i \in DOMAIN fHanded : fHanded[i].late => fHanded[i].overran
  BY DEF FeishuInv, FeishuTypes, HandedInOrder
<1>2. \A i, j \in DOMAIN fHanded : i < j => fHanded[i].message < fHanded[j].message
  BY DEF FeishuInv, HandedInOrder
<1>3. \A s \in Senders, t \in Feishu!IdTypes : fAnswered[s][t] <= 1
  BY DEF FeishuInv, AnsweredOnce
<1> QED BY <1>1, <1>2, <1>3 DEF Feishu!MessagesInOrder

-----------------------------------------------------------------------------
(* The proof that messages arrive in order: WeChat *)

\* The types of what WeChat keeps; a message that has come has its chat and kind.
ImageTypes(A, K, C, T, G, H) ==
  /\ A \in [WMessages -> {"due", "load", "next", "held", "handed", "dropped"}]
  /\ K \in [WMessages -> {"none", "command", "image", "text"}]
  /\ C \in [WMessages -> Chats \cup {"none"}]
  /\ \A m \in WMessages : A[m] # "due" => C[m] \in Chats
  /\ T \in Seq(WMessages) /\ G \in [Chats -> Seq(WMessages)] /\ H \in Seq(Seq(WMessages))

\* What is held waits, once and in its own chat; what goes before another is an image.
HeldWaits(A, K, C, G) ==
  /\ \A c \in Chats : \A i \in 1 .. Len(G[c]) :
       A[G[c][i]] = "held" /\ C[G[c][i]] = c /\ (i < Len(G[c]) => K[G[c][i]] = "image")
  /\ \A c \in Chats : \A i, j \in 1 .. Len(G[c]) : G[c][i] = G[c][j] => i = j
  /\ \A m \in WMessages : A[m] = "held" => \E i \in 1 .. Len(G[C[m]]) : G[C[m]][i] = m

\* What is handed over is so once, and what goes before another is an image.
Given(A, K, H) ==
  /\ \A i \in 1 .. Len(H) : \A k \in 1 .. Len(H[i]) :
       A[H[i][k]] = "handed" /\ (k < Len(H[i]) => K[H[i][k]] = "image")
  /\ \A i, j \in 1 .. Len(H) : \A k \in 1 .. Len(H[i]) : \A l \in 1 .. Len(H[j]) :
       H[i][k] = H[j][l] => i = j /\ k = l
  /\ \A m \in WMessages : A[m] = "handed" =>
       \E i \in 1 .. Len(H) : \E k \in 1 .. Len(H[i]) : H[i][k] = m

\* A message has its turn once; a command is what waits to be handed over.
Turns(A, K, T) ==
  /\ \A a \in 1 .. Len(T) : A[T[a]] \notin {"due", "load"}
  /\ \A a, b \in 1 .. Len(T) : T[a] = T[b] => a = b
  /\ \A m \in WMessages : A[m] = "next" => K[m] = "command"

\* Where x is held, y is held behind it; and where both were handed over, x was before y.
HeldBehind(g, x, y) ==
  \A i \in 1 .. Len(g) : g[i] = x => \E j \in 1 .. Len(g) : i < j /\ g[j] = y
GivenBefore(H, x, y) ==
  \A i, j \in 1 .. Len(H) : \A k \in 1 .. Len(H[i]) : \A l \in 1 .. Len(H[j]) :
    H[i][k] = x /\ H[j][l] = y => i < j \/ (i = j /\ k < l)

\* While a message is held so is what came later in its chat; and what is handed over
\* goes, unless it is a command, before what came later.
InTurn(K, C, T, G, H) ==
  \A a, b \in 1 .. Len(T) : a < b /\ C[T[a]] = C[T[b]] =>
    /\ C[T[a]] \in Chats => HeldBehind(G[C[T[a]]], T[a], T[b])
    /\ K[T[a]] # "command" => GivenBefore(H, T[a], T[b])

ImagesKept(A, K, C, T, G, H) ==
  /\ ImageTypes(A, K, C, T, G, H) /\ HeldWaits(A, K, C, G) /\ Given(A, K, H) /\ Turns(A, K, T)
  /\ InTurn(K, C, T, G, H)

\* What is held has a timer of its own, and is images.
HeldHasTimer ==
  /\ \A t \in wTimers : \E c \in Chats : t = <<c, wHeld[c]>> /\ wHeld[c] # <<>>
  /\ \A c \in Chats : wHeld[c] # <<>> => <<c, wHeld[c]>> \in wTimers
HeldAreImages == \A c \in Chats : \A i \in 1 .. Len(wHeld[c]) : wKind[wHeld[c][i]] = "image"

WeChatInv ==
  ImagesKept(wAt, wKind, wChat, wTurn, wHeld, wHanded) /\ HeldHasTimer /\ HeldAreImages

\* What is next in its chat has no message held before it.
LEMMA NextKeepsImages ==
  ASSUME NEW A, NEW K, NEW C, NEW T, NEW G, NEW H, ImagesKept(A, K, C, T, G, H),
         NEW m \in WMessages, A[m] = "load", K[m] = "command", G[C[m]] = <<>>
  PROVE  ImagesKept([A EXCEPT ![m] = "next"], K, C, Append(T, m), G, H)
<1> DEFINE B == [A EXCEPT ![m] = "next"]
           U == Append(T, m)
<1> USE DEF ImagesKept
<1>1. /\ Len(T) \in Nat /\ U \in Seq(WMessages) /\ Len(U) = Len(T) + 1 /\ U[Len(T) + 1] = m
      /\ \A a \in 1 .. Len(T) : U[a] = T[a] /\ T[a] \in WMessages
  BY AppendProperties DEF ImageTypes
<1>2. \A n \in WMessages : B[n] = IF n = m THEN "next" ELSE A[n]
  BY DEF ImageTypes
<1>3. B \in [WMessages -> {"due", "load", "next", "held", "handed", "dropped"}]
  BY DEF ImageTypes
<1>4. \A a \in 1 .. Len(U) : a \in 1 .. Len(T) \/ a = Len(T) + 1
  BY <1>1
<1>5. /\ \A c \in Chats : \A i \in 1 .. Len(G[c]) : G[c][i] \in WMessages /\ A[G[c][i]] = "held"
      /\ \A i \in 1 .. Len(H) : \A k \in 1 .. Len(H[i]) : H[i][k] \in WMessages /\ A[H[i][k]] = "handed"
  BY DEF ImageTypes, HeldWaits, Given
<1>6. \A a \in 1 .. Len(T) : T[a] # m
  BY DEF Turns
<1> HIDE DEF B, U
<1>7. ImageTypes(B, K, C, U, G, H)
  BY <1>1, <1>2, <1>3 DEF ImageTypes
<1>8. HeldWaits(B, K, C, G)
  BY <1>2, <1>5 DEF HeldWaits
<1>9. Given(B, K, H)
  BY <1>2, <1>5 DEF Given
<1>10. Turns(B, K, U)
  <2>1. \A a \in 1 .. Len(U) : B[U[a]] \notin {"due", "load"}
    BY <1>1, <1>2, <1>4 DEF Turns
  <2>2. \A a, b \in 1 .. Len(U) : U[a] = U[b] => a = b
    BY <1>1, <1>4, <1>6 DEF Turns
  <2> QED BY <1>2, <2>1, <2>2 DEF Turns
<1>11. \A a, b \in 1 .. Len(U) : a < b => a \in 1 .. Len(T) /\ U[a] = T[a]
  BY <1>1, <1>4
<1>12. InTurn(K, C, U, G, H)
  <2> SUFFICES ASSUME NEW a \in 1 .. Len(U), NEW b \in 1 .. Len(U), a < b, C[U[a]] = C[U[b]]
               PROVE  /\ C[U[a]] \in Chats => HeldBehind(G[C[U[a]]], U[a], U[b])
                      /\ K[U[a]] # "command" => GivenBefore(H, U[a], U[b])
    BY DEF InTurn
  <2>1. a \in 1 .. Len(T) /\ U[a] = T[a]
    BY <1>11
  <2>2. CASE b = Len(T) + 1
    <3>1. U[b] = m /\ G[C[U[a]]] = <<>>
      BY <1>1, <2>2
    <3>2. HeldBehind(G[C[U[a]]], U[a], U[b])
      BY <3>1 DEF HeldBehind
    <3>3. GivenBefore(H, U[a], m)
      BY <1>5 DEF GivenBefore
    <3> QED BY <3>1, <3>2, <3>3
  <2>3. CASE b \in 1 .. Len(T)
    BY <1>1, <2>1, <2>3 DEF InTurn
  <2> QED BY <1>4, <2>2, <2>3
<1> QED BY <1>7, <1>8, <1>9, <1>10, <1>12 DEF B, U

\* What is held comes after all that its chat holds.
LEMMA HoldKeepsImages ==
  ASSUME NEW A, NEW K, NEW C, NEW T, NEW G, NEW H, ImagesKept(A, K, C, T, G, H),
         NEW m \in WMessages, A[m] = "load",
         \A i \in 1 .. Len(G[C[m]]) : K[G[C[m]][i]] = "image"
  PROVE  ImagesKept([A EXCEPT ![m] = "held"], K, C, Append(T, m), [G EXCEPT ![C[m]] = Append(@, m)], H)
<1> DEFINE c == C[m]
           B == [A EXCEPT ![m] = "held"]
           U == Append(T, m)
           W == Append(G[c], m)
           F == [G EXCEPT ![c] = W]
<1> USE DEF ImagesKept
<1>1. /\ Len(T) \in Nat /\ U \in Seq(WMessages) /\ Len(U) = Len(T) + 1 /\ U[Len(T) + 1] = m
      /\ \A a \in 1 .. Len(T) : U[a] = T[a] /\ T[a] \in WMessages
  BY AppendProperties DEF ImageTypes
<1>2. \A n \in WMessages : B[n] = IF n = m THEN "held" ELSE A[n]
  BY DEF ImageTypes
<1>3. B \in [WMessages -> {"due", "load", "next", "held", "handed", "dropped"}]
  BY DEF ImageTypes
<1>4. \A a \in 1 .. Len(U) : a \in 1 .. Len(T) \/ a = Len(T) + 1
  BY <1>1
<1>5. /\ \A d \in Chats : \A i \in 1 .. Len(G[d]) : G[d][i] \in WMessages /\ A[G[d][i]] = "held"
      /\ \A i \in 1 .. Len(H) : \A k \in 1 .. Len(H[i]) : H[i][k] \in WMessages /\ A[H[i][k]] = "handed"
  BY DEF ImageTypes, HeldWaits, Given
<1>6. \A a \in 1 .. Len(T) : T[a] # m
  BY DEF Turns
<1>7. c \in Chats /\ G[c] \in Seq(WMessages)
  BY DEF ImageTypes
<1>8. /\ Len(G[c]) \in Nat /\ W \in Seq(WMessages) /\ Len(W) = Len(G[c]) + 1 /\ W[Len(G[c]) + 1] = m
      /\ \A i \in 1 .. Len(G[c]) : W[i] = G[c][i]
  BY <1>7, AppendProperties
<1> HIDE DEF W
<1>9. F \in [Chats -> Seq(WMessages)] /\ \A d \in Chats : F[d] = IF d = c THEN W ELSE G[d]
  BY <1>7, <1>8 DEF ImageTypes
<1>10. \A i \in 1 .. Len(W) : i \in 1 .. Len(G[c]) \/ i = Len(G[c]) + 1
  BY <1>8
<1>11. ImagesKept(B, K, C, U, F, H)
  <2> HIDE DEF B, U, F
  <2>1. ImageTypes(B, K, C, U, F, H)
    BY <1>1, <1>2, <1>3, <1>9 DEF ImageTypes
  <2>2. HeldWaits(B, K, C, F)
    <3>1. ASSUME NEW d \in Chats, NEW i \in 1 .. Len(F[d])
          PROVE  B[F[d][i]] = "held" /\ C[F[d][i]] = d /\ (i < Len(F[d]) => K[F[d][i]] = "image")
      <4>1. CASE d # c
        BY <1>2, <1>5, <1>9, <3>1, <4>1 DEF HeldWaits
      <4>2. CASE d = c /\ i = Len(G[c]) + 1
        BY <1>2, <1>8, <1>9, <4>2
      <4>3. CASE d = c /\ i \in 1 .. Len(G[c])
        <5>1. F[d][i] = G[c][i]
          BY <1>8, <1>9, <4>3
        <5> QED BY <1>2, <1>5, <4>3, <5>1 DEF HeldWaits
      <4> QED BY <1>9, <1>10, <3>1, <4>1, <4>2, <4>3
    <3>2. ASSUME NEW d \in Chats, NEW i \in 1 .. Len(F[d]), NEW j \in 1 .. Len(F[d]), F[d][i] = F[d][j]
          PROVE  i = j
      <4>1. CASE d # c
        BY <1>9, <3>2, <4>1 DEF HeldWaits
      <4>2. CASE d = c
        <5>1. F[d] = W /\ i \in 1 .. Len(W) /\ j \in 1 .. Len(W)
          BY <1>9, <3>2, <4>2
        <5>2. \A k \in 1 .. Len(G[c]) : W[k] # m
          BY <1>5, <1>7, <1>8
        <5>3. CASE i \in 1 .. Len(G[c]) /\ j \in 1 .. Len(G[c])
          BY <1>7, <1>8, <3>2, <5>1, <5>3 DEF HeldWaits
        <5> QED BY <1>8, <1>10, <3>2, <5>1, <5>2, <5>3
      <4> QED BY <4>1, <4>2
    <3>3. ASSUME NEW n \in WMessages, B[n] = "held"
          PROVE  \E i \in 1 .. Len(F[C[n]]) : F[C[n]][i] = n
      <4>1. CASE n = m
        <5>1. F[C[n]] = W /\ Len(G[c]) + 1 \in 1 .. Len(W) /\ W[Len(G[c]) + 1] = n
          BY <1>7, <1>8, <1>9, <4>1
        <5> QED BY <5>1
      <4>2. CASE n # m
        <5>1. PICK i \in 1 .. Len(G[C[n]]) : G[C[n]][i] = n
          BY <1>2, <3>3, <4>2 DEF HeldWaits
        <5>2. C[n] \in Chats
          BY <1>2, <3>3, <4>2 DEF ImageTypes
        <5>3. i \in 1 .. Len(F[C[n]]) /\ F[C[n]][i] = n
          BY <1>8, <1>9, <5>1, <5>2
        <5> QED BY <5>3
      <4> QED BY <4>1, <4>2
    <3> QED BY <3>1, <3>2, <3>3 DEF HeldWaits
  <2>3. Given(B, K, H)
    <3>1. \A i \in 1 .. Len(H) : \A k \in 1 .. Len(H[i]) :
            B[H[i][k]] = "handed" /\ (k < Len(H[i]) => K[H[i][k]] = "image")
      BY <1>2, <1>5 DEF Given
    <3>2. \A n \in WMessages : B[n] = "handed" => A[n] = "handed"
      BY <1>2
    <3> QED BY <3>1, <3>2 DEF Given
  <2>4. Turns(B, K, U)
    <3>1. \A a \in 1 .. Len(U) : B[U[a]] \notin {"due", "load"}
      BY <1>1, <1>2, <1>4 DEF Turns
    <3>2. \A a, b \in 1 .. Len(U) : U[a] = U[b] => a = b
      BY <1>1, <1>4, <1>6 DEF Turns
    <3> QED BY <1>2, <3>1, <3>2 DEF Turns
  <2>5. \A a, b \in 1 .. Len(U) : a < b => a \in 1 .. Len(T) /\ U[a] = T[a] /\ U[a] # m
    BY <1>1, <1>4, <1>6
  <2>6. InTurn(K, C, U, F, H)
    <3> SUFFICES ASSUME NEW a \in 1 .. Len(U), NEW b \in 1 .. Len(U), a < b, C[U[a]] = C[U[b]]
                 PROVE  /\ C[U[a]] \in Chats => HeldBehind(F[C[U[a]]], U[a], U[b])
                        /\ K[U[a]] # "command" => GivenBefore(H, U[a], U[b])
      BY DEF InTurn
    <3>1. a \in 1 .. Len(T) /\ U[a] = T[a] /\ U[a] # m
      BY <2>5
    <3>2. CASE b = Len(T) + 1
      <4>1. U[b] = m /\ F[C[U[a]]] = W
        BY <1>1, <1>7, <1>9, <3>2
      <4>2. ASSUME NEW i \in 1 .. Len(W), W[i] = U[a]
            PROVE  i < Len(G[c]) + 1
        BY <1>8, <1>10, <3>1, <4>2
      <4>3. Len(G[c]) + 1 \in 1 .. Len(W) /\ W[Len(G[c]) + 1] = m
        BY <1>8
      <4>4. HeldBehind(W, U[a], m)
        BY <4>2, <4>3 DEF HeldBehind
      <4>5. GivenBefore(H, U[a], m)
        BY <1>5 DEF GivenBefore
      <4> QED BY <4>1, <4>4, <4>5
    <3>3. CASE b \in 1 .. Len(T)
      <4>1. U[b] = T[b]
        BY <1>1, <3>3
      <4>2. /\ C[U[a]] \in Chats => HeldBehind(G[C[U[a]]], U[a], U[b])
            /\ K[U[a]] # "command" => GivenBefore(H, U[a], U[b])
        BY <3>1, <3>3, <4>1 DEF InTurn
      <4>3. HeldBehind(G[c], U[a], U[b]) => HeldBehind(W, U[a], U[b])
        <5> SUFFICES ASSUME HeldBehind(G[c], U[a], U[b]), NEW i \in 1 .. Len(W), W[i] = U[a]
                     PROVE  \E j \in 1 .. Len(W) : i < j /\ W[j] = U[b]
          BY DEF HeldBehind
        <5>1. i \in 1 .. Len(G[c]) /\ G[c][i] = U[a]
          BY <1>8, <1>10, <3>1
        <5>2. PICK j \in 1 .. Len(G[c]) : i < j /\ G[c][j] = U[b]
          BY <5>1 DEF HeldBehind
        <5>3. j \in 1 .. Len(W) /\ W[j] = U[b]
          BY <1>8, <5>2
        <5> QED BY <5>2, <5>3
      <4>4. C[U[a]] \in Chats => F[C[U[a]]] = IF C[U[a]] = c THEN W ELSE G[C[U[a]]]
        BY <1>9
      <4> QED BY <4>2, <4>3, <4>4
    <3> QED BY <1>4, <3>2, <3>3
  <2> QED BY <2>1, <2>2, <2>3, <2>4, <2>6
<1>12. F = [G EXCEPT ![C[m]] = Append(@, m)]
  BY DEF W
<1> QED BY <1>11, <1>12

\* Messages that were not handed over, are so as one.
HandsOver(A, N, K, B) ==
  /\ \A n \in WMessages : N[n] = "handed" <=> A[n] = "handed" \/ \E k \in 1 .. Len(B) : B[k] = n
  /\ \A k \in 1 .. Len(B) : A[B[k]] # "handed" /\ (k < Len(B) => K[B[k]] = "image")
  /\ \A k, l \in 1 .. Len(B) : B[k] = B[l] => k = l

\* What is handed over as one stays once and after what was before.
LEMMA GivenAppend ==
  ASSUME NEW A, NEW N, NEW K, NEW H \in Seq(Seq(WMessages)), NEW B \in Seq(WMessages),
         Given(A, K, H), HandsOver(A, N, K, B)
  PROVE  Given(N, K, Append(H, B))
<1> USE DEF HandsOver
<1> DEFINE I == Append(H, B)
<1>1. /\ Len(H) \in Nat /\ Len(I) = Len(H) + 1 /\ I[Len(H) + 1] = B
      /\ \A i \in 1 .. Len(H) : I[i] = H[i]
  BY AppendProperties
<1> HIDE DEF I
<1>2. \A i \in 1 .. Len(I) : i \in 1 .. Len(H) \/ i = Len(H) + 1
  BY <1>1
<1>3. \A i \in 1 .. Len(H) : \A k \in 1 .. Len(H[i]) :
        H[i][k] \in WMessages /\ A[H[i][k]] = "handed" /\ (k < Len(H[i]) => K[H[i][k]] = "image")
  <2>1. \A i \in 1 .. Len(H) : H[i] \in Seq(WMessages)
    OBVIOUS
  <2>2. \A i \in 1 .. Len(H) : \A k \in 1 .. Len(H[i]) : H[i][k] \in WMessages
    BY <2>1
  <2> QED BY <2>2 DEF Given
<1>4. \A k \in 1 .. Len(B) : B[k] \in WMessages
  OBVIOUS
<1>5. ASSUME NEW i \in 1 .. Len(I), NEW k \in 1 .. Len(I[i])
      PROVE  N[I[i][k]] = "handed" /\ (k < Len(I[i]) => K[I[i][k]] = "image")
  <2>1. CASE i = Len(H) + 1
    <3>1. I[i] = B
      BY <1>1, <2>1
    <3> QED BY <1>4, <3>1
  <2>2. CASE i \in 1 .. Len(H)
    <3>1. I[i] = H[i]
      BY <1>1, <2>2
    <3>2. H[i][k] \in WMessages /\ A[H[i][k]] = "handed" /\ (k < Len(H[i]) => K[H[i][k]] = "image")
      BY <1>3, <2>2, <3>1
    <3> QED BY <3>1, <3>2
  <2> QED BY <1>2, <2>1, <2>2
<1>6. ASSUME NEW i \in 1 .. Len(I), NEW j \in 1 .. Len(I), NEW k \in 1 .. Len(I[i]), NEW l \in 1 .. Len(I[j]),
             I[i][k] = I[j][l]
      PROVE  i = j /\ k = l
  <2>1. CASE i = Len(H) + 1 /\ j = Len(H) + 1
    <3>1. I[i] = B /\ I[j] = B
      BY <1>1, <2>1
    <3> QED BY <1>6, <2>1, <3>1
  <2>2. CASE i \in 1 .. Len(H) /\ j \in 1 .. Len(H)
    <3>1. I[i] = H[i] /\ I[j] = H[j]
      BY <1>1, <2>2
    <3> QED BY <1>6, <2>2, <3>1 DEF Given
  <2>3. CASE i = Len(H) + 1 /\ j \in 1 .. Len(H)
    <3>1. I[i] = B /\ I[j] = H[j]
      BY <1>1, <2>3
    <3>2. A[H[j][l]] = "handed" /\ A[B[k]] # "handed"
      BY <1>3, <2>3, <3>1
    <3> QED BY <1>6, <3>1, <3>2
  <2>4. CASE i \in 1 .. Len(H) /\ j = Len(H) + 1
    <3>1. I[i] = H[i] /\ I[j] = B
      BY <1>1, <2>4
    <3>2. A[H[i][k]] = "handed" /\ A[B[l]] # "handed"
      BY <1>3, <2>4, <3>1
    <3> QED BY <1>6, <3>1, <3>2
  <2> QED BY <1>2, <2>1, <2>2, <2>3, <2>4
<1>7. ASSUME NEW m \in WMessages, N[m] = "handed"
      PROVE  \E i \in 1 .. Len(I) : \E k \in 1 .. Len(I[i]) : I[i][k] = m
  <2>1. CASE \E k \in 1 .. Len(B) : B[k] = m
    <3>1. Len(H) + 1 \in 1 .. Len(I)
      BY <1>1
    <3> QED BY <1>1, <2>1, <3>1
  <2>2. CASE A[m] = "handed"
    <3>1. PICK i \in 1 .. Len(H) : \E k \in 1 .. Len(H[i]) : H[i][k] = m
      BY <2>2 DEF Given
    <3>2. i \in 1 .. Len(I) /\ I[i] = H[i]
      BY <1>1
    <3> QED BY <3>1, <3>2
  <2> QED BY <1>7, <2>1, <2>2
<1>8. Given(N, K, I)
  BY <1>5, <1>6, <1>7 DEF Given
<1> QED BY <1>8 DEF I

\* Nor does it come before what follows it.
LEMMA BeforeAppend ==
  ASSUME NEW H \in Seq(Seq(WMessages)), NEW B \in Seq(WMessages), NEW x, NEW y, GivenBefore(H, x, y),
         \A k, l \in 1 .. Len(B) : B[k] = x /\ B[l] = y => k < l,
         (\E k \in 1 .. Len(B) : B[k] = x) => \A j \in 1 .. Len(H) : \A l \in 1 .. Len(H[j]) : H[j][l] # y
  PROVE  GivenBefore(Append(H, B), x, y)
<1> DEFINE I == Append(H, B)
<1>1. /\ Len(H) \in Nat /\ Len(I) = Len(H) + 1 /\ I[Len(H) + 1] = B
      /\ \A i \in 1 .. Len(H) : I[i] = H[i]
  BY AppendProperties
<1> HIDE DEF I
<1>2. \A i \in 1 .. Len(I) : i \in 1 .. Len(H) \/ i = Len(H) + 1
  BY <1>1
<1>3. GivenBefore(I, x, y)
  <2> SUFFICES ASSUME NEW i \in 1 .. Len(I), NEW j \in 1 .. Len(I), NEW k \in 1 .. Len(I[i]), NEW l \in 1 .. Len(I[j]),
                      I[i][k] = x, I[j][l] = y
               PROVE  i < j \/ (i = j /\ k < l)
    BY DEF GivenBefore
  <2>1. CASE i = Len(H) + 1 /\ j = Len(H) + 1
    <3>1. I[i] = B /\ I[j] = B
      BY <1>1, <2>1
    <3> QED BY <2>1, <3>1
  <2>2. CASE i \in 1 .. Len(H) /\ j \in 1 .. Len(H)
    <3>1. I[i] = H[i] /\ I[j] = H[j]
      BY <1>1, <2>2
    <3> QED BY <2>2, <3>1 DEF GivenBefore
  <2>3. CASE i = Len(H) + 1 /\ j \in 1 .. Len(H)
    <3>1. I[i] = B /\ I[j] = H[j]
      BY <1>1, <2>3
    <3> QED BY <2>3, <3>1
  <2>4. CASE i \in 1 .. Len(H) /\ j = Len(H) + 1
    BY <1>1, <2>4
  <2> QED BY <1>2, <2>1, <2>2, <2>3, <2>4
<1> QED BY <1>3 DEF I

\* All that a chat holds is handed over as one.
LEMMA HandKeepsImages ==
  ASSUME NEW A, NEW K, NEW C, NEW T, NEW G, NEW H, ImagesKept(A, K, C, T, G, H), NEW c \in Chats, NEW N,
         N = [n \in WMessages |-> IF \E i \in 1 .. Len(G[c]) : G[c][i] = n THEN "handed" ELSE A[n]]
  PROVE  ImagesKept(N, K, C, T, [G EXCEPT ![c] = <<>>], Append(H, G[c]))
<1> DEFINE B == G[c]
           F == [G EXCEPT ![c] = <<>>]
           I == Append(H, B)
<1> USE DEF ImagesKept
<1>1. B \in Seq(WMessages) /\ H \in Seq(Seq(WMessages)) /\ Len(B) \in Nat
  BY DEF ImageTypes
<1>2. /\ \A i \in 1 .. Len(B) : B[i] \in WMessages /\ A[B[i]] = "held" /\ C[B[i]] = c
      /\ \A i \in 1 .. Len(B) : i < Len(B) => K[B[i]] = "image"
      /\ \A i, j \in 1 .. Len(B) : B[i] = B[j] => i = j
  BY DEF ImageTypes, HeldWaits
<1>3. \A i \in 1 .. Len(H) : \A k \in 1 .. Len(H[i]) : A[H[i][k]] = "handed"
  BY DEF Given
<1>4. F \in [Chats -> Seq(WMessages)] /\ \A d \in Chats : F[d] = IF d = c THEN <<>> ELSE G[d]
  BY DEF ImageTypes
<1>5. Given(N, K, I)
  <2>1. \A n \in WMessages : N[n] = "handed" <=> A[n] = "handed" \/ \E k \in 1 .. Len(B) : B[k] = n
    OBVIOUS
  <2>2. \A k \in 1 .. Len(B) : A[B[k]] # "handed" /\ (k < Len(B) => K[B[k]] = "image")
    BY <1>2
  <2>3. HandsOver(A, N, K, B)
    BY <1>2, <2>1, <2>2 DEF HandsOver
  <2> QED BY <1>1, <2>3, GivenAppend
<1>6. ImageTypes(N, K, C, T, F, I)
  <2>1. N \in [WMessages -> {"due", "load", "next", "held", "handed", "dropped"}]
    BY DEF ImageTypes
  <2>2. I \in Seq(Seq(WMessages))
    BY <1>1
  <2>3. \A m \in WMessages : N[m] # "due" => A[m] # "due"
    BY <1>2
  <2> HIDE DEF I, F
  <2> QED BY <1>4, <2>1, <2>2, <2>3 DEF ImageTypes
<1>7. HeldWaits(N, K, C, F)
  <2> HIDE DEF F
  <2>1. ASSUME NEW d \in Chats, NEW i \in 1 .. Len(F[d])
        PROVE  N[F[d][i]] = "held" /\ C[F[d][i]] = d /\ (i < Len(F[d]) => K[F[d][i]] = "image")
    <3>1. d # c /\ F[d] = G[d]
      BY <1>4, <2>1
    <3>2. G[d][i] \in WMessages /\ A[G[d][i]] = "held" /\ C[G[d][i]] = d /\ (i < Len(G[d]) => K[G[d][i]] = "image")
      BY <2>1, <3>1 DEF ImageTypes, HeldWaits
    <3>3. N[G[d][i]] = "held"
      BY <1>2, <3>1, <3>2
    <3> QED BY <3>1, <3>2, <3>3
  <2>2. \A d \in Chats : \A i, j \in 1 .. Len(F[d]) : F[d][i] = F[d][j] => i = j
    BY <1>4 DEF HeldWaits
  <2>3. ASSUME NEW m \in WMessages, N[m] = "held"
        PROVE  \E i \in 1 .. Len(F[C[m]]) : F[C[m]][i] = m
    <3>1. A[m] = "held" /\ ~\E i \in 1 .. Len(B) : B[i] = m
      BY <2>3
    <3>2. C[m] \in Chats
      BY <3>1 DEF ImageTypes
    <3>3. PICK i \in 1 .. Len(G[C[m]]) : G[C[m]][i] = m
      BY <3>1 DEF HeldWaits
    <3>4. C[m] # c
      BY <3>1, <3>3
    <3> QED BY <1>4, <3>2, <3>3, <3>4
  <2> QED BY <2>1, <2>2, <2>3 DEF HeldWaits
<1>8. Turns(N, K, T)
  <2>1. \A n \in WMessages : N[n] \in {"due", "load", "next"} => A[n] = N[n]
    OBVIOUS
  <2>2. \A a \in 1 .. Len(T) : T[a] \in WMessages
    BY DEF ImageTypes
  <2> QED BY <2>1, <2>2 DEF Turns
<1>9. InTurn(K, C, T, F, I)
  <2> HIDE DEF F, I
  <2> SUFFICES ASSUME NEW a \in 1 .. Len(T), NEW b \in 1 .. Len(T), a < b, C[T[a]] = C[T[b]]
               PROVE  /\ C[T[a]] \in Chats => HeldBehind(F[C[T[a]]], T[a], T[b])
                      /\ K[T[a]] # "command" => GivenBefore(I, T[a], T[b])
    BY DEF InTurn
  <2>1. /\ C[T[a]] \in Chats => HeldBehind(G[C[T[a]]], T[a], T[b])
        /\ K[T[a]] # "command" => GivenBefore(H, T[a], T[b])
    BY DEF InTurn
  <2>2. C[T[a]] \in Chats => HeldBehind(F[C[T[a]]], T[a], T[b])
    <3>1. CASE C[T[a]] = c
      BY <1>4, <3>1 DEF HeldBehind
    <3>2. CASE C[T[a]] # c
      BY <1>4, <2>1, <3>2
    <3> QED BY <3>1, <3>2
  <2>3. ASSUME NEW k \in 1 .. Len(B), B[k] = T[a]
        PROVE  \E j \in 1 .. Len(B) : k < j /\ B[j] = T[b]
    <3>1. C[T[a]] = c
      BY <1>2, <2>3
    <3> QED BY <2>1, <2>3, <3>1 DEF HeldBehind
  <2>4. \A k, l \in 1 .. Len(B) : B[k] = T[a] /\ B[l] = T[b] => k < l
    <3> HIDE DEF B
    <3> QED BY <1>2, <2>3
  <2>5. (\E k \in 1 .. Len(B) : B[k] = T[a]) => \A j \in 1 .. Len(H) : \A l \in 1 .. Len(H[j]) : H[j][l] # T[b]
    <3> HIDE DEF B
    <3> QED BY <1>2, <1>3, <2>3
  <2>6. K[T[a]] # "command" => GivenBefore(I, T[a], T[b])
    <3> HIDE DEF B
    <3> QED BY <1>1, <2>1, <2>4, <2>5, BeforeAppend DEF I
  <2> QED BY <2>2, <2>6
<1> QED BY <1>5, <1>6, <1>7, <1>8, <1>9

\* A command is handed over by itself.
LEMMA CommandKeepsImages ==
  ASSUME NEW A, NEW K, NEW C, NEW T, NEW G, NEW H, ImagesKept(A, K, C, T, G, H),
         NEW m \in WMessages, A[m] = "next"
  PROVE  ImagesKept([A EXCEPT ![m] = "handed"], K, C, T, G, Append(H, <<m>>))
<1> DEFINE N == [A EXCEPT ![m] = "handed"]
           B == <<m>>
           I == Append(H, B)
<1> USE DEF ImagesKept
<1>1. B \in Seq(WMessages) /\ H \in Seq(Seq(WMessages)) /\ Len(B) = 1 /\ B[1] = m
  BY DEF ImageTypes
<1>2. \A n \in WMessages : N[n] = IF n = m THEN "handed" ELSE A[n]
  BY DEF ImageTypes
<1>3. N \in [WMessages -> {"due", "load", "next", "held", "handed", "dropped"}]
  BY DEF ImageTypes
<1>4. /\ \A d \in Chats : \A i \in 1 .. Len(G[d]) : G[d][i] \in WMessages /\ A[G[d][i]] = "held"
      /\ \A i \in 1 .. Len(H) : \A k \in 1 .. Len(H[i]) : A[H[i][k]] = "handed"
      /\ \A a \in 1 .. Len(T) : T[a] \in WMessages
  BY DEF ImageTypes, HeldWaits, Given
<1> HIDE DEF N, B
<1>5. Given(N, K, I)
  <2>1. \A n \in WMessages : N[n] = "handed" <=> A[n] = "handed" \/ \E k \in 1 .. Len(B) : B[k] = n
    BY <1>1, <1>2
  <2>2. \A k \in 1 .. Len(B) : A[B[k]] # "handed" /\ (k < Len(B) => K[B[k]] = "image")
    BY <1>1
  <2>3. \A k, l \in 1 .. Len(B) : B[k] = B[l] => k = l
    BY <1>1
  <2>4. HandsOver(A, N, K, B)
    BY <2>1, <2>2, <2>3 DEF HandsOver
  <2> QED BY <1>1, <2>4, GivenAppend
<1>6. ImageTypes(N, K, C, T, G, I)
  <2>1. I \in Seq(Seq(WMessages))
    BY <1>1
  <2> HIDE DEF I
  <2> QED BY <1>2, <1>3, <2>1 DEF ImageTypes
<1>7. HeldWaits(N, K, C, G)
  BY <1>2, <1>4 DEF HeldWaits
<1>8. Turns(N, K, T)
  BY <1>2, <1>4 DEF Turns
<1>9. InTurn(K, C, T, G, I)
  <2> HIDE DEF I
  <2> SUFFICES ASSUME NEW a \in 1 .. Len(T), NEW b \in 1 .. Len(T), a < b, C[T[a]] = C[T[b]], K[T[a]] # "command"
               PROVE  GivenBefore(I, T[a], T[b])
    BY DEF InTurn
  <2>1. T[a] # m
    BY DEF Turns
  <2>2. GivenBefore(H, T[a], T[b])
    BY DEF InTurn
  <2>3. \A k, l \in 1 .. Len(B) : B[k] = T[a] /\ B[l] = T[b] => k < l
    BY <1>1, <2>1
  <2>4. ~\E k \in 1 .. Len(B) : B[k] = T[a]
    BY <1>1, <2>1
  <2> QED BY <1>1, <2>2, <2>3, <2>4, BeforeAppend DEF I
<1> QED BY <1>5, <1>6, <1>7, <1>8, <1>9 DEF N, B

\* WeChat takes its own steps, and the other parts none of them.
LEMMA WeChatSteps ==
  [PartsNext]_allVars => [WeChat!Next]_WeChat!vars
<1> USE DEF allVars, kVars, wVars, WeChat!vars
<1>1. CASE UNCHANGED allVars
  BY <1>1
<1>2. CASE PartsNext
  BY <1>2 DEF PartsNext, OfSlack, OfDiscord, OfFeishu, OfWeCom, OfWeChat, OfDingTalk,
     OfSchedule, OfHarness, OfAgents, OfSignIn
<1> QED BY <1>1, <1>2

\* No message has come at first.
LEMMA WeChatStarts == WeChat!Init => WeChatInv
<1> SUFFICES ASSUME WeChat!Init PROVE WeChatInv
  OBVIOUS
<1> USE DEF WeChat!Init
<1>1. ImageTypes(wAt, wKind, wChat, wTurn, wHeld, wHanded)
  BY DEF ImageTypes
<1>2. HeldWaits(wAt, wKind, wChat, wHeld)
  BY DEF HeldWaits
<1>3. Given(wAt, wKind, wHanded)
  BY DEF Given
<1>4. Turns(wAt, wKind, wTurn)
  BY DEF Turns
<1>5. InTurn(wKind, wChat, wTurn, wHeld, wHanded)
  BY DEF InTurn
<1>6. HeldHasTimer /\ HeldAreImages
  BY DEF HeldHasTimer, HeldAreImages
<1> QED BY <1>1, <1>2, <1>3, <1>4, <1>5, <1>6 DEF WeChatInv, ImagesKept

\* A message that has just come is nowhere yet.
LEMMA ReceivesKeepsImages ==
  ASSUME WeChatInv, NEW m \in WMessages, WeChat!Receives(m)
  PROVE  WeChatInv'
<1> USE DEF WeChatInv, ImagesKept
<1>1. /\ wAt[m] = "due" /\ wAt' = [wAt EXCEPT ![m] = "load"]
      /\ UNCHANGED <<wTurn, wHeld, wTimers, wHanded>>
  BY DEF WeChat!Receives
<1>2. PICK c \in Chats, k \in {"command", "image", "text"} :
        wChat' = [wChat EXCEPT ![m] = c] /\ wKind' = [wKind EXCEPT ![m] = k]
  BY DEF WeChat!Receives
<1>3. /\ \A n \in WMessages : wAt'[n] = IF n = m THEN "load" ELSE wAt[n]
      /\ \A n \in WMessages : wChat'[n] = IF n = m THEN c ELSE wChat[n]
      /\ \A n \in WMessages : wKind'[n] = IF n = m THEN k ELSE wKind[n]
  BY <1>1, <1>2 DEF ImageTypes
<1>4. ImageTypes(wAt, wKind, wChat, wTurn, wHeld, wHanded)'
  <2>1. wAt' \in [WMessages -> {"due", "load", "next", "held", "handed", "dropped"}]
    BY <1>1 DEF ImageTypes
  <2>2. wKind' \in [WMessages -> {"none", "command", "image", "text"}] /\ wChat' \in [WMessages -> Chats \cup {"none"}]
    BY <1>2 DEF ImageTypes
  <2>3. \A n \in WMessages : wAt'[n] # "due" => wChat'[n] \in Chats
    BY <1>3 DEF ImageTypes
  <2> QED BY <1>1, <2>1, <2>2, <2>3 DEF ImageTypes
<1>5. /\ \A d \in Chats : \A i \in 1 .. Len(wHeld[d]) : wHeld[d][i] \in WMessages /\ wHeld[d][i] # m
      /\ \A a \in 1 .. Len(wTurn) : wTurn[a] \in WMessages /\ wTurn[a] # m
  BY <1>1 DEF ImageTypes, HeldWaits, Turns
<1>6. \A i \in 1 .. Len(wHanded) : \A l \in 1 .. Len(wHanded[i]) : wHanded[i][l] \in WMessages /\ wHanded[i][l] # m
  <2>1. \A i \in 1 .. Len(wHanded) : wHanded[i] \in Seq(WMessages)
    BY DEF ImageTypes
  <2>2. \A i \in 1 .. Len(wHanded) : \A l \in 1 .. Len(wHanded[i]) : wHanded[i][l] \in WMessages
    BY <2>1
  <2> QED BY <1>1, <2>2 DEF Given
<1>7. HeldWaits(wAt, wKind, wChat, wHeld)'
  <2>1. \A d \in Chats : \A i \in 1 .. Len(wHeld[d]) :
          wAt'[wHeld[d][i]] = "held" /\ wChat'[wHeld[d][i]] = d
          /\ (i < Len(wHeld[d]) => wKind'[wHeld[d][i]] = "image")
    BY <1>3, <1>5 DEF HeldWaits
  <2>2. \A n \in WMessages : wAt'[n] = "held" => wAt[n] = "held" /\ wChat'[n] = wChat[n]
    BY <1>3
  <2> QED BY <1>1, <2>1, <2>2 DEF HeldWaits
<1>8. Given(wAt, wKind, wHanded)'
  <2>1. \A i \in 1 .. Len(wHanded) : \A l \in 1 .. Len(wHanded[i]) :
          wAt'[wHanded[i][l]] = "handed" /\ (l < Len(wHanded[i]) => wKind'[wHanded[i][l]] = "image")
    BY <1>3, <1>6 DEF Given
  <2>2. \A n \in WMessages : wAt'[n] = "handed" => wAt[n] = "handed"
    BY <1>3
  <2> QED BY <1>1, <2>1, <2>2 DEF Given
<1>9. Turns(wAt, wKind, wTurn)'
  BY <1>1, <1>3, <1>5 DEF Turns
<1>10. InTurn(wKind, wChat, wTurn, wHeld, wHanded)'
  BY <1>1, <1>3, <1>5 DEF InTurn
<1>11. HeldHasTimer' /\ HeldAreImages'
  <2>1. HeldHasTimer'
    BY <1>1 DEF HeldHasTimer
  <2>2. HeldAreImages'
    BY <1>1, <1>3, <1>5 DEF HeldAreImages
  <2> QED BY <2>1, <2>2
<1> QED BY <1>4, <1>7, <1>8, <1>9, <1>10, <1>11

\* What stop finds held is dropped.
LEMMA StopKeepsImages ==
  ASSUME WeChatInv, WeChat!Stops
  PROVE  WeChatInv'
<1> USE DEF WeChatInv, ImagesKept
<1>1. /\ wHeld' = [c \in Chats |-> <<>>] /\ wTimers' = {t \in wTimers : wHeld[t[1]] # t[2]}
      /\ wAt' = [m \in WMessages |-> IF \E c \in Chats : \E i \in DOMAIN wHeld[c] : wHeld[c][i] = m
                                     THEN "dropped" ELSE wAt[m]]
      /\ UNCHANGED <<wChat, wKind, wTurn, wHanded>>
  BY DEF WeChat!Stops, WeChat!ToSet
<1>2. \A m \in WMessages : wAt'[m] = IF wAt[m] = "held" THEN "dropped" ELSE wAt[m]
  <2>1. \A m \in WMessages : wAt[m] = "held" => \E c \in Chats : \E i \in DOMAIN wHeld[c] : wHeld[c][i] = m
    BY DEF ImageTypes, HeldWaits
  <2>2. \A c \in Chats : \A i \in DOMAIN wHeld[c] : wAt[wHeld[c][i]] = "held"
    BY DEF ImageTypes, HeldWaits
  <2> QED BY <1>1, <2>1, <2>2
<1>3. ImageTypes(wAt, wKind, wChat, wTurn, wHeld, wHanded)'
  <2>1. wAt' \in [WMessages -> {"due", "load", "next", "held", "handed", "dropped"}]
    BY <1>1 DEF ImageTypes
  <2>2. wHeld' \in [Chats -> Seq(WMessages)]
    BY <1>1
  <2> QED BY <1>1, <1>2, <2>1, <2>2 DEF ImageTypes
<1>4. HeldWaits(wAt, wKind, wChat, wHeld)'
  BY <1>1, <1>2 DEF HeldWaits
<1>5. \A i \in 1 .. Len(wHanded) : \A l \in 1 .. Len(wHanded[i]) : wHanded[i][l] \in WMessages
  <2>1. \A i \in 1 .. Len(wHanded) : wHanded[i] \in Seq(WMessages)
    BY DEF ImageTypes
  <2> QED BY <2>1
<1>6. Given(wAt, wKind, wHanded)'
  <2>1. \A i \in 1 .. Len(wHanded) : \A l \in 1 .. Len(wHanded[i]) :
          wAt'[wHanded[i][l]] = "handed" /\ (l < Len(wHanded[i]) => wKind[wHanded[i][l]] = "image")
    BY <1>2, <1>5 DEF Given
  <2>2. \A n \in WMessages : wAt'[n] = "handed" => wAt[n] = "handed"
    BY <1>2
  <2> QED BY <1>1, <2>1, <2>2 DEF Given
<1>7. Turns(wAt, wKind, wTurn)'
  <2>1. \A a \in 1 .. Len(wTurn) : wTurn[a] \in WMessages
    BY DEF ImageTypes
  <2> QED BY <1>1, <1>2, <2>1 DEF Turns
<1>8. InTurn(wKind, wChat, wTurn, wHeld, wHanded)'
  <2>1. \A c \in Chats, x, y \in WMessages : HeldBehind(wHeld'[c], x, y)
    BY <1>1 DEF HeldBehind
  <2>2. \A a \in 1 .. Len(wTurn) : wTurn[a] \in WMessages
    BY DEF ImageTypes
  <2>3. InTurn(wKind, wChat, wTurn, wHeld', wHanded)
    <3> SUFFICES ASSUME NEW a \in 1 .. Len(wTurn), NEW b \in 1 .. Len(wTurn), a < b,
                        wChat[wTurn[a]] = wChat[wTurn[b]]
                 PROVE  /\ wChat[wTurn[a]] \in Chats =>
                             HeldBehind(wHeld'[wChat[wTurn[a]]], wTurn[a], wTurn[b])
                        /\ wKind[wTurn[a]] # "command" => GivenBefore(wHanded, wTurn[a], wTurn[b])
      BY DEF InTurn
    <3>1. wKind[wTurn[a]] # "command" => GivenBefore(wHanded, wTurn[a], wTurn[b])
      BY DEF InTurn
    <3> QED BY <2>1, <2>2, <3>1
  <2> QED BY <1>1, <2>3
<1>9. HeldHasTimer'
  <2>1. \A t \in wTimers : wHeld[t[1]] = t[2]
    BY DEF HeldHasTimer
  <2> QED BY <1>1, <2>1 DEF HeldHasTimer
<1>10. HeldAreImages'
  BY <1>1 DEF HeldAreImages
<1> QED BY <1>3, <1>4, <1>6, <1>7, <1>8, <1>9, <1>10

\* A command waits until what was held is handed over.
LEMMA CommandsKeepImages ==
  ASSUME WeChatInv, NEW m \in WMessages, WeChat!Processes(m), wKind[m] = "command"
  PROVE  ImagesKept(wAt, wKind, wChat, wTurn, wHeld, wHanded)'
<1> DEFINE c == wChat[m]
<1>1. /\ wAt[m] = "load" /\ wTurn' = Append(wTurn, m) /\ UNCHANGED <<wKind, wChat>>
      /\ wHeld' = [wHeld EXCEPT ![c] = <<>>]
  BY DEF WeChat!Processes
<1>2. c \in Chats /\ wAt \in [WMessages -> {"due", "load", "next", "held", "handed", "dropped"}]
  BY <1>1 DEF WeChatInv, ImagesKept, ImageTypes
<1>3. wHeld[c] \in Seq(WMessages) /\ wHanded \in Seq(Seq(WMessages)) /\ wHeld \in [Chats -> Seq(WMessages)]
  BY <1>2 DEF WeChatInv, ImagesKept, ImageTypes
<1>4. CASE wHeld[c] = <<>>
  <2>1. wHanded' = wHanded \o << <<m>> >> /\ wHeld' = wHeld
    BY <1>1, <1>2, <1>3, <1>4 DEF WeChat!Processes
  <2>2. wHanded' = Append(wHanded, <<m>>)
    BY <1>3, <2>1, AppendIsConcat
  <2>3. wAt' = [n \in WMessages |-> IF n = m THEN "handed" ELSE wAt[n]]
    BY <1>4 DEF WeChat!Processes, WeChat!ToSet
  <2> DEFINE N == [wAt EXCEPT ![m] = "next"]
  <2>4. ImagesKept(N, wKind, wChat, wTurn', wHeld, wHanded)
    BY <1>1, <1>4, NextKeepsImages DEF WeChatInv
  <2>5. N[m] = "next" /\ wAt' = [N EXCEPT ![m] = "handed"]
    BY <1>2, <2>3
  <2> HIDE DEF N
  <2>6. ImagesKept(wAt', wKind, wChat, wTurn', wHeld, wHanded')
    BY <2>2, <2>4, <2>5, CommandKeepsImages
  <2> QED BY <1>1, <2>1, <2>6
<1>5. CASE wHeld[c] # <<>>
  <2>1. wHanded' = wHanded \o <<wHeld[c]>>
    BY <1>5 DEF WeChat!Processes
  <2>2. wHanded' = Append(wHanded, wHeld[c])
    BY <1>3, <2>1, AppendIsConcat
  <2>3. wAt' = [n \in WMessages |-> IF \E i \in 1 .. Len(wHeld[c]) : wHeld[c][i] = n THEN "handed"
                                    ELSE IF n # m THEN wAt[n] ELSE "next"]
    BY <1>3, <1>5 DEF WeChat!Processes, WeChat!ToSet
  <2> DEFINE N == [n \in WMessages |-> IF \E i \in 1 .. Len(wHeld[c]) : wHeld[c][i] = n
                                       THEN "handed" ELSE wAt[n]]
  <2>4. ImagesKept(N, wKind, wChat, wTurn, wHeld', wHanded')
    BY <1>1, <1>2, <2>2, HandKeepsImages DEF WeChatInv
  <2>5. ~\E i \in 1 .. Len(wHeld[c]) : wHeld[c][i] = m
    BY <1>1, <1>2 DEF WeChatInv, ImagesKept, HeldWaits
  <2>6. N[m] = "load" /\ wAt' = [N EXCEPT ![m] = "next"] /\ wHeld'[c] = <<>>
    BY <1>1, <1>2, <1>3, <2>3, <2>5
  <2> HIDE DEF N
  <2>7. ImagesKept(wAt', wKind, wChat, wTurn', wHeld', wHanded')
    BY <1>1, <2>4, <2>6, NextKeepsImages
  <2> QED BY <1>1, <2>7
<1> QED BY <1>4, <1>5

\* An image is held with the others; another message is handed over with them.
LEMMA OthersKeepImages ==
  ASSUME WeChatInv, NEW m \in WMessages, WeChat!Processes(m), wKind[m] # "command"
  PROVE  ImagesKept(wAt, wKind, wChat, wTurn, wHeld, wHanded)'
<1> DEFINE c == wChat[m]
           W == Append(wHeld[c], m)
           M == [wAt EXCEPT ![m] = "held"]
           F == [wHeld EXCEPT ![c] = Append(@, m)]
<1>1. wAt[m] = "load" /\ wTurn' = Append(wTurn, m) /\ UNCHANGED <<wKind, wChat>>
  BY DEF WeChat!Processes
<1>2. c \in Chats /\ wAt \in [WMessages -> {"due", "load", "next", "held", "handed", "dropped"}]
  BY <1>1 DEF WeChatInv, ImagesKept, ImageTypes
<1>3. wHeld[c] \in Seq(WMessages) /\ wHanded \in Seq(Seq(WMessages)) /\ wHeld \in [Chats -> Seq(WMessages)]
  BY <1>2 DEF WeChatInv, ImagesKept, ImageTypes
<1>4. wHeld[c] \o <<m>> = W
  BY <1>3, AppendIsConcat
<1>5. ImagesKept(M, wKind, wChat, wTurn', F, wHanded)
  <2>1. \A i \in 1 .. Len(wHeld[c]) : wKind[wHeld[c][i]] = "image"
    BY <1>2 DEF WeChatInv, HeldAreImages
  <2>2. ImagesKept(wAt, wKind, wChat, wTurn, wHeld, wHanded)
    BY DEF WeChatInv
  <2> QED BY <1>1, <2>1, <2>2, HoldKeepsImages
<1>6. CASE wKind[m] = "image"
  <2>1. wHanded' = wHanded \o << >> /\ wHeld' = [wHeld EXCEPT ![c] = wHeld[c] \o <<m>>]
    BY <1>6 DEF WeChat!Processes
  <2>2. wHanded' = wHanded
    BY <1>3, <2>1, ConcatEmptySeq
  <2>3. wAt' = [n \in WMessages |-> IF n # m THEN wAt[n] ELSE "held"]
    BY <1>6 DEF WeChat!Processes, WeChat!ToSet
  <2>4. wAt' = M
    BY <1>2, <2>3
  <2>5. wHeld' = F
    BY <1>4, <2>1
  <2> HIDE DEF M, F
  <2> QED BY <1>1, <1>5, <2>2, <2>4, <2>5
<1>7. CASE wKind[m] # "image"
  <2>1. wHanded' = wHanded \o <<wHeld[c] \o <<m>> >> /\ wHeld' = [wHeld EXCEPT ![c] = <<>>]
    BY <1>7 DEF WeChat!Processes
  <2>2. W \in Seq(WMessages)
    BY <1>3, AppendProperties
  <2>3. wHanded' = Append(wHanded, W)
    BY <1>3, <1>4, <2>1, <2>2, AppendIsConcat
  <2>4. wAt' = [n \in WMessages |-> IF \E i \in DOMAIN (wHeld[c] \o <<m>>) : (wHeld[c] \o <<m>>)[i] = n THEN "handed"
                                    ELSE IF n # m THEN wAt[n] ELSE "next"]
    <3> DEFINE V == wHeld[c] \o <<m>>
    <3>1. wAt' = [n \in WMessages |-> IF \E b \in WeChat!ToSet(<<V>>) : n \in WeChat!ToSet(b) THEN "handed"
                                      ELSE IF n # m THEN wAt[n] ELSE "next"]
      BY <1>7 DEF WeChat!Processes
    <3> HIDE DEF V
    <3>2. WeChat!ToSet(<<V>>) = {V} /\ \A n : n \in WeChat!ToSet(V) <=> \E i \in DOMAIN V : V[i] = n
      BY DEF WeChat!ToSet
    <3>3. wAt' = [n \in WMessages |-> IF \E i \in DOMAIN V : V[i] = n THEN "handed"
                                      ELSE IF n # m THEN wAt[n] ELSE "next"]
      BY <3>1, <3>2
    <3> QED BY <3>3 DEF V
  <2> HIDE DEF W
  <2>5. DOMAIN W = 1 .. Len(W)
    BY <2>2
  <2>6. \E i \in 1 .. Len(W) : W[i] = m
    <3>1. Len(wHeld[c]) + 1 \in 1 .. Len(W) /\ W[Len(wHeld[c]) + 1] = m
      BY <1>3, AppendProperties DEF W
    <3> QED BY <3>1
  <2>7. wAt' = [n \in WMessages |-> IF \E i \in 1 .. Len(W) : W[i] = n THEN "handed" ELSE M[n]]
    BY <1>2, <1>4, <2>4, <2>5, <2>6
  <2>8. F[c] = W /\ wHeld' = [F EXCEPT ![c] = <<>>]
    BY <1>2, <1>3, <2>1 DEF W
  <2> HIDE DEF M, F
  <2>9. ImagesKept(wAt', wKind, wChat, wTurn', wHeld', wHanded')
    BY <1>2, <1>5, <2>3, <2>7, <2>8, HandKeepsImages
  <2> QED BY <1>1, <2>9
<1> QED BY <1>6, <1>7

\* The timer of what was held is cancelled, and what is held is given one.
LEMMA ProcessKeepsImages ==
  ASSUME WeChatInv, NEW m \in WMessages, WeChat!Processes(m)
  PROVE  WeChatInv'
<1> DEFINE c == wChat[m]
           W == wHeld[c] \o <<m>>
<1>1. ImagesKept(wAt, wKind, wChat, wTurn, wHeld, wHanded)'
  BY CommandsKeepImages, OthersKeepImages
<1>2. wAt[m] = "load" /\ UNCHANGED <<wKind, wChat>>
  BY DEF WeChat!Processes
<1>3. c \in Chats /\ wHeld \in [Chats -> Seq(WMessages)] /\ wHeld[c] \in Seq(WMessages)
  BY <1>2 DEF WeChatInv, ImagesKept, ImageTypes
<1>4. /\ W \in Seq(WMessages) /\ W # <<>> /\ Len(wHeld[c]) \in Nat /\ Len(W) = Len(wHeld[c]) + 1
      /\ W[Len(wHeld[c]) + 1] = m /\ \A i \in 1 .. Len(wHeld[c]) : W[i] = wHeld[c][i]
  <2>1. W = Append(wHeld[c], m)
    BY <1>3, AppendIsConcat
  <2> QED BY <1>3, <2>1, AppendProperties
<1>5. /\ wHeld' = [wHeld EXCEPT ![c] = IF wKind[m] = "image" THEN W ELSE <<>>]
      /\ wTimers' = {t \in wTimers : ~(t[1] = c /\ t[2] = wHeld[c])}
                    \cup IF wKind[m] = "image" THEN {<<c, W>>} ELSE {}
  BY DEF WeChat!Processes, WeChat!TimersCancelled
<1> HIDE DEF W
<1>6. \A d \in Chats : wHeld'[d] = IF d # c THEN wHeld[d] ELSE IF wKind[m] = "image" THEN W ELSE <<>>
  BY <1>3, <1>5
<1>7. HeldHasTimer'
  <2>1. ASSUME NEW t \in wTimers'
        PROVE  \E d \in Chats : t = <<d, wHeld'[d]>> /\ wHeld'[d] # <<>>
    <3>1. CASE t \in wTimers
      <4>1. PICK d \in Chats : t = <<d, wHeld[d]>> /\ wHeld[d] # <<>>
        BY <3>1 DEF WeChatInv, HeldHasTimer
      <4>2. CASE d # c
        BY <1>6, <4>1, <4>2
      <4>3. CASE d = c
        BY <1>3, <1>4, <1>5, <1>6, <2>1, <4>1, <4>3
      <4> QED BY <4>2, <4>3
    <3>2. CASE t \notin wTimers
      BY <1>3, <1>4, <1>5, <1>6, <2>1, <3>2
    <3> QED BY <3>1, <3>2
  <2>2. ASSUME NEW d \in Chats, wHeld'[d] # <<>>
        PROVE  <<d, wHeld'[d]>> \in wTimers'
    <3>1. CASE d # c
      BY <1>5, <1>6, <2>2, <3>1 DEF WeChatInv, HeldHasTimer
    <3>2. CASE d = c
      BY <1>5, <1>6, <2>2, <3>2
    <3> QED BY <3>1, <3>2
  <2> QED BY <2>1, <2>2 DEF HeldHasTimer
<1>8. HeldAreImages'
  <2> SUFFICES ASSUME NEW d \in Chats, NEW i \in 1 .. Len(wHeld'[d])
               PROVE  wKind[wHeld'[d][i]] = "image"
    BY <1>2 DEF HeldAreImages
  <2>1. CASE d # c
    BY <1>6, <2>1 DEF WeChatInv, HeldAreImages
  <2>2. CASE d = c /\ wKind[m] = "image"
    <3>1. wHeld'[d] = W /\ (i \in 1 .. Len(wHeld[c]) \/ i = Len(wHeld[c]) + 1)
      BY <1>4, <1>6, <2>2
    <3> QED BY <1>3, <1>4, <2>2, <3>1 DEF WeChatInv, HeldAreImages
  <2>3. CASE d = c /\ wKind[m] # "image"
    BY <1>6, <2>3
  <2> QED BY <2>1, <2>2, <2>3
<1> QED BY <1>1, <1>7, <1>8 DEF WeChatInv

\* A command is handed over, and a timer hands over what it was set for.
LEMMA HandsKeepImages ==
  ASSUME WeChatInv,
         (\E m \in WMessages : WeChat!HandsCommand(m)) \/ (\E t \in wTimers : WeChat!Releases(t))
  PROVE  WeChatInv'
<1>1. ImagesKept(wAt, wKind, wChat, wTurn, wHeld, wHanded) /\ HeldHasTimer /\ HeldAreImages
  BY DEF WeChatInv
<1>2. ASSUME NEW m \in WMessages, WeChat!HandsCommand(m)
      PROVE  WeChatInv'
  <2>1. /\ wAt[m] = "next" /\ wAt' = [wAt EXCEPT ![m] = "handed"] /\ wHanded' = Append(wHanded, <<m>>)
        /\ UNCHANGED <<wChat, wKind, wTurn, wHeld, wTimers>>
    BY <1>2 DEF WeChat!HandsCommand
  <2>2. ImagesKept(wAt', wKind, wChat, wTurn, wHeld, wHanded')
    BY <1>1, <2>1, CommandKeepsImages
  <2>3. HeldHasTimer' /\ HeldAreImages'
    BY <1>1, <2>1 DEF HeldHasTimer, HeldAreImages
  <2> QED BY <2>1, <2>2, <2>3 DEF WeChatInv
<1>3. ASSUME NEW t \in wTimers, WeChat!Releases(t)
      PROVE  WeChatInv'
  <2>1. PICK c \in Chats : t = <<c, wHeld[c]>> /\ wHeld[c] # <<>>
    BY <1>1, <1>3 DEF HeldHasTimer
  <2>2. t[1] = c /\ t[2] = wHeld[c]
    BY <2>1
  <2>3. /\ wTimers' = wTimers \ {t} /\ wHeld' = [wHeld EXCEPT ![c] = <<>>]
        /\ wHanded' = Append(wHanded, wHeld[c]) /\ UNCHANGED <<wChat, wKind, wTurn>>
        /\ wAt' = [m \in WMessages |-> IF \E i \in DOMAIN wHeld[c] : wHeld[c][i] = m THEN "handed" ELSE wAt[m]]
    BY <1>3, <2>2 DEF WeChat!Releases, WeChat!ToSet
  <2>4. wHeld \in [Chats -> Seq(WMessages)] /\ DOMAIN wHeld[c] = 1 .. Len(wHeld[c])
    BY <1>1 DEF ImagesKept, ImageTypes
  <2>5. ImagesKept(wAt', wKind, wChat, wTurn, wHeld', wHanded')
    <3>1. wAt' = [m \in WMessages |-> IF \E i \in 1 .. Len(wHeld[c]) : wHeld[c][i] = m THEN "handed" ELSE wAt[m]]
      BY <2>3, <2>4
    <3>2. ImagesKept(wAt', wKind, wChat, wTurn, [wHeld EXCEPT ![c] = <<>>], Append(wHanded, wHeld[c]))
      BY <1>1, <3>1, HandKeepsImages
    <3> QED BY <2>3, <3>2
  <2>6. \A d \in Chats : wHeld'[d] = IF d = c THEN <<>> ELSE wHeld[d]
    BY <2>3, <2>4
  <2>7. HeldHasTimer'
    <3>1. \A u \in wTimers' : \E d \in Chats : u = <<d, wHeld'[d]>> /\ wHeld'[d] # <<>>
      BY <1>1, <2>1, <2>3, <2>6 DEF HeldHasTimer
    <3>2. \A d \in Chats : wHeld'[d] # <<>> => <<d, wHeld'[d]>> \in wTimers'
      BY <1>1, <2>1, <2>3, <2>6 DEF HeldHasTimer
    <3> QED BY <3>1, <3>2 DEF HeldHasTimer
  <2>8. HeldAreImages'
    BY <1>1, <2>3, <2>6 DEF HeldAreImages
  <2> QED BY <2>3, <2>5, <2>7, <2>8 DEF WeChatInv
<1> QED BY <1>2, <1>3

\* Every step of the bot and of its timers keeps it.
LEMMA WeChatKeeps ==
  ASSUME WeChatInv, [WeChat!Next]_WeChat!vars
  PROVE  WeChatInv'
<1>1. CASE WeChat!Starts \/ UNCHANGED WeChat!vars
  <2>1. UNCHANGED <<wChat, wKind, wAt, wTurn, wHeld, wTimers, wHanded>>
    BY <1>1 DEF WeChat!Starts, WeChat!vars
  <2> QED BY <2>1 DEF WeChatInv, HeldHasTimer, HeldAreImages
<1> QED BY <1>1, StopKeepsImages, ReceivesKeepsImages, ProcessKeepsImages, HandsKeepImages
     DEF WeChat!Next

\* What was handed over before another is in an earlier place.
LEMMA ImagesInOrder == WeChatInv => WeChat!ImagesArriveOnce
<1> SUFFICES ASSUME WeChatInv PROVE WeChat!ImagesArriveOnce
  OBVIOUS
<1> DEFINE places == UNION {{<<i, k>> : k \in DOMAIN wHanded[i]} : i \in DOMAIN wHanded}
           given(p) == wHanded[p[1]][p[2]]
           before(p, q) == p[1] < q[1] \/ (p[1] = q[1] /\ p[2] < q[2])
<1> USE DEF WeChatInv, ImagesKept
<1>1. \A p : p \in places <=> \E i \in 1 .. Len(wHanded) : \E k \in 1 .. Len(wHanded[i]) : p = <<i, k>>
  <2>1. DOMAIN wHanded = 1 .. Len(wHanded) /\ \A i \in 1 .. Len(wHanded) : DOMAIN wHanded[i] = 1 .. Len(wHanded[i])
    BY DEF ImageTypes
  <2> QED BY <2>1
<1>2. \A p \in places : /\ p[1] \in 1 .. Len(wHanded) /\ p[2] \in 1 .. Len(wHanded[p[1]])
                        /\ p = <<p[1], p[2]>> /\ given(p) \in WMessages
  <2>1. \A i \in 1 .. Len(wHanded) : wHanded[i] \in Seq(WMessages)
    BY DEF ImageTypes
  <2>2. \A i \in 1 .. Len(wHanded) : \A k \in 1 .. Len(wHanded[i]) : wHanded[i][k] \in WMessages
    BY <2>1
  <2> HIDE DEF places
  <2> QED BY <1>1, <2>2
<1>3. \A i \in 1 .. Len(wHanded) : \A k \in 1 .. Len(wHanded[i]) : <<i, k>> \in places
  BY <1>1
<1> HIDE DEF places
<1>4. \A p, q \in places : p # q => given(p) # given(q)
  <2> SUFFICES ASSUME NEW p \in places, NEW q \in places, given(p) = given(q)
               PROVE  p = q
    OBVIOUS
  <2>1. p[1] = q[1] /\ p[2] = q[2]
    BY <1>2 DEF Given
  <2> QED BY <1>2, <2>1
<1>5. \A p \in places : p[2] < Len(wHanded[p[1]]) => wKind[given(p)] = "image"
  BY <1>2 DEF Given
<1>6. \A c \in Chats : wHeld[c] # <<>> => <<c, wHeld[c]>> \in wTimers
  BY DEF HeldHasTimer
<1>7. ASSUME NEW a \in DOMAIN wTurn, NEW b \in DOMAIN wTurn, a < b, wChat[wTurn[a]] = wChat[wTurn[b]],
             NEW q \in places, given(q) = wTurn[b]
      PROVE  \/ wAt[wTurn[a]] \in {"next", "dropped"}
             \/ \E p \in places : given(p) = wTurn[a] /\ (before(p, q) \/ wKind[wTurn[a]] = "command")
  <2> DEFINE x == wTurn[a]
             y == wTurn[b]
  <2>1. a \in 1 .. Len(wTurn) /\ b \in 1 .. Len(wTurn) /\ x \in WMessages /\ y \in WMessages
    BY <1>7 DEF ImageTypes
  <2>2. wAt[x] \in {"next", "held", "handed", "dropped"}
    BY <2>1 DEF ImageTypes, Turns
  <2>3. wAt[y] = "handed"
    BY <1>2, <1>7 DEF Given
  <2>4. /\ wChat[x] \in Chats => HeldBehind(wHeld[wChat[x]], x, y)
        /\ wKind[x] # "command" => GivenBefore(wHanded, x, y)
    BY <1>7, <2>1 DEF InTurn
  <2> HIDE DEF x, y
  <2>5. wAt[x] # "held"
    <3> SUFFICES ASSUME wAt[x] = "held" PROVE FALSE
      OBVIOUS
    <3>1. PICK i \in 1 .. Len(wHeld[wChat[x]]) : wHeld[wChat[x]][i] = x
      BY <2>1 DEF HeldWaits
    <3>2. wChat[x] \in Chats
      BY <2>1 DEF ImageTypes
    <3>3. PICK j \in 1 .. Len(wHeld[wChat[x]]) : wHeld[wChat[x]][j] = y
      BY <2>4, <3>1, <3>2 DEF HeldBehind
    <3> QED BY <2>3, <3>2, <3>3 DEF HeldWaits
  <2>6. CASE wAt[x] = "handed"
    <3>1. PICK i \in 1 .. Len(wHanded) : \E l \in 1 .. Len(wHanded[i]) : wHanded[i][l] = x
      BY <2>1, <2>6 DEF Given
    <3>2. PICK k \in 1 .. Len(wHanded[i]) : wHanded[i][k] = x
      BY <3>1
    <3>3. <<i, k>> \in places /\ given(<<i, k>>) = x
      BY <1>3, <3>2
    <3>4. wKind[x] # "command" => before(<<i, k>>, q)
      <4>1. wHanded[q[1]][q[2]] = y
        BY <1>7 DEF y
      <4> QED BY <1>2, <2>4, <3>2, <4>1 DEF GivenBefore
    <3> QED BY <3>3, <3>4 DEF x
  <2> QED BY <2>2, <2>5, <2>6 DEF x
<1> QED BY <1>4, <1>5, <1>6, <1>7 DEF WeChat!ImagesArriveOnce, places

-----------------------------------------------------------------------------
\* Feishu hands messages over in the order of their events, and after stop only from a thread
\* that has outlived its join; WeChat hands a message over once, with the images before it and
\* in the order of its chat; and a task that the stop of DingTalk has found hands none over:
\* _on_message_event, process_message, stop.
THEOREM MessagesOrdered == PartsSpec => MessagesArriveInOrder
<1> DEFINE Inv == FeishuInv /\ WeChatInv /\ TasksKnown
           Stays == tStop # "no" => \A m \in Messages :
                      tTask'[m] = "handed" /\ tTask[m] # "handed" => m \in tKnown
<1>1. PartsInit => Inv
  BY FeishuStarts, WeChatStarts DEF PartsInit, DingTalk!Init, TasksKnown
<1>2. Inv /\ [PartsNext]_allVars => Inv'
  BY FeishuSteps, FeishuKeeps, WeChatSteps, WeChatKeeps, DingTalkSteps, DingTalkKnows
<1>3. Inv => Feishu!MessagesInOrder /\ WeChat!ImagesArriveOnce
  BY FeishuInOrder, ImagesInOrder
<1>4. Inv /\ [PartsNext]_allVars => [Stays]_DingTalk!vars
  BY DingTalkSteps, DingTalkStays
<1> QED BY <1>1, <1>2, <1>3, <1>4, PTL DEF PartsSpec, MessagesArriveInOrder, DingTalk!StoppedTasksStay

-----------------------------------------------------------------------------
(* The proof that replies find their messages: WeCom *)

\* The types of frames, of the streams of sessions and of replies.
WeComChats == Chats \cup Groups
WeComReplies ==
  [at : {"idle", "proactive", "stream", "sent", "failed"}, chat : WeComChats \cup {"none"},
   stream : {0} \cup Messages]
WeComTypes ==
  /\ cChat \in [Messages -> WeComChats \cup {"none"}]
  /\ cAt \in [Messages -> {"due", "refused", "handed", "plain", "opening", "open", "failed", "left"}]
  /\ \A f \in Messages : cAt[f] \notin {"due", "refused"} => cChat[f] \in WeComChats
  /\ cSessions \in [WeComChats -> {0} \cup Messages] /\ cEnded \in [Messages -> Nat]
  /\ cSend \in [Sends -> WeComReplies] /\ \A r \in Sends : cSend[r].at = "idle" => cSend[r].stream = 0

\* A frame whose turn has begun; only such a frame has a stream.
HasBegun(f) == f \in Messages /\ cAt[f] \notin {"due", "refused", "handed"}

\* The stream that a session's next reply ends is of a frame of its chat.
SessionsOwn == \A c \in WeComChats : cSessions[c] # 0 => HasBegun(cSessions[c]) /\ cChat[cSessions[c]] = c

\* A reply has the stream of a frame of its chat, and no session has it, nor another reply.
RepliesOwn ==
  \A r \in Sends : cSend[r].stream # 0 =>
    /\ HasBegun(cSend[r].stream) /\ cChat[cSend[r].stream] = cSend[r].chat
    /\ \A c \in WeComChats : cSessions[c] # cSend[r].stream
    /\ \A q \in Sends : q # r => cSend[q].stream # cSend[r].stream

\* What was ended was so by a reply that had it, and one that is to end a stream finds it open.
EndedByReplies ==
  /\ \A f \in Messages : cEnded[f] <= 1 /\ (cEnded[f] # 0 => \E r \in Sends : cSend[r].stream = f)
  /\ \A r \in Sends : cSend[r].at = "stream" => cSend[r].stream \in Messages /\ cEnded[cSend[r].stream] = 0

\* A stream that was opened is a session's, was overtaken or is a reply's.
OpenedKept ==
  \A f \in Messages : cAt[f] \in {"opening", "open"} =>
    cSessions[cChat[f]] = f \/ f \in cOvertaken \/ \E r \in Sends : cSend[r].stream = f

WeComInv == WeComTypes /\ SessionsOwn /\ RepliesOwn /\ EndedByReplies /\ OpenedKept

\* WeCom takes its own steps, and the other parts none of them.
LEMMA WeComSteps ==
  [PartsNext]_allVars => [WeCom!Next]_WeCom!vars
<1> USE DEF allVars, kVars, cVars, WeCom!vars
<1>1. CASE UNCHANGED allVars
  BY <1>1
<1>2. CASE PartsNext
  BY <1>2 DEF PartsNext, OfSlack, OfDiscord, OfFeishu, OfWeCom, OfWeChat, OfDingTalk,
     OfSchedule, OfHarness, OfAgents, OfSignIn
<1> QED BY <1>1, <1>2

\* There are no frames and no replies at first.
LEMMA WeComStarts == WeCom!Init => WeComInv
<1> SUFFICES ASSUME WeCom!Init PROVE WeComInv
  OBVIOUS
<1> USE DEF WeCom!Init, WeComChats
<1>1. WeComTypes
  BY DEF WeComTypes, WeComReplies
<1>2. SessionsOwn
  BY DEF SessionsOwn
<1>3. RepliesOwn
  BY DEF RepliesOwn
<1>4. EndedByReplies
  BY DEF EndedByReplies
<1>5. OpenedKept
  BY DEF OpenedKept
<1> QED BY <1>1, <1>2, <1>3, <1>4, <1>5 DEF WeComInv

\* The chat of a frame is known before it is handed over.
LEMMA HandlesKeepsWeCom ==
  ASSUME WeComInv, NEW f \in Messages, WeCom!Handles(f)
  PROVE  WeComInv'
<1>1. PICK c \in WeComChats \cup {"none"}, a \in {"handed", "refused"} :
        /\ cChat' = [cChat EXCEPT ![f] = c] /\ cAt' = [cAt EXCEPT ![f] = a]
        /\ (a = "handed" => c # "none")
  BY DEF WeCom!Handles, WeCom!Normalized, WeComChats
<1>2. cAt[f] = "due" /\ UNCHANGED <<cSessions, cEnded, cOvertaken, cSend>>
  BY DEF WeCom!Handles
<1>3. /\ \A g \in Messages : cAt'[g] = IF g = f THEN a ELSE cAt[g]
      /\ \A g \in Messages : cChat'[g] = IF g = f THEN c ELSE cChat[g]
  BY <1>1 DEF WeComInv, WeComTypes
<1>4. WeComTypes'
  BY <1>1, <1>2, <1>3 DEF WeComInv, WeComTypes
<1>5. \A g : HasBegun(g) => HasBegun(g)' /\ cChat'[g] = cChat[g]
  BY <1>2, <1>3 DEF HasBegun
<1>6. SessionsOwn' /\ RepliesOwn'
  BY <1>2, <1>5 DEF WeComInv, SessionsOwn, RepliesOwn
<1>7. EndedByReplies'
  BY <1>2 DEF WeComInv, EndedByReplies
<1>8. OpenedKept'
  BY <1>2, <1>3 DEF WeComInv, OpenedKept
<1> QED BY <1>4, <1>6, <1>7, <1>8 DEF WeComInv

\* A frame's stream takes the place of its chat's.
LEMMA EntersKeepsWeCom ==
  ASSUME WeComInv, NEW f \in Messages, WeCom!Enters(f)
  PROVE  WeComInv'
<1> DEFINE c == cChat[f]
<1>1. PICK a \in {"plain", "opening"} :
        /\ cAt' = [cAt EXCEPT ![f] = a]
        /\ a = "opening" => /\ cSessions' = [cSessions EXCEPT ![c] = f]
                            /\ cOvertaken' = cOvertaken \cup ({cSessions[c]} \ {0})
        /\ a = "plain" => UNCHANGED <<cSessions, cOvertaken>>
  BY DEF WeCom!Enters
<1>2. cAt[f] = "handed" /\ UNCHANGED <<cChat, cEnded, cSend>>
  BY DEF WeCom!Enters
<1>3. c \in WeComChats
  BY <1>2 DEF WeComInv, WeComTypes
<1>4. /\ \A g \in Messages : cAt'[g] = IF g = f THEN a ELSE cAt[g]
      /\ \A d \in WeComChats : cSessions'[d] = IF a = "opening" /\ d = c THEN f ELSE cSessions[d]
  BY <1>1, <1>3 DEF WeComInv, WeComTypes
<1>5. WeComTypes'
  <2>1. cSessions' \in [WeComChats -> {0} \cup Messages]
    BY <1>1 DEF WeComInv, WeComTypes
  <2>2. cAt' \in [Messages -> {"due", "refused", "handed", "plain", "opening", "open", "failed", "left"}]
    BY <1>1 DEF WeComInv, WeComTypes
  <2> QED BY <1>2, <1>4, <2>1, <2>2 DEF WeComInv, WeComTypes
<1>6. HasBegun(f)' /\ \A g : HasBegun(g) => HasBegun(g)' /\ g # f
  BY <1>1, <1>2, <1>4 DEF HasBegun
<1>7. SessionsOwn'
  BY <1>2, <1>4, <1>6 DEF WeComInv, SessionsOwn
<1>8. RepliesOwn'
  BY <1>2, <1>4, <1>6 DEF WeComInv, RepliesOwn
<1>9. EndedByReplies'
  BY <1>2 DEF WeComInv, EndedByReplies
<1>10. OpenedKept'
  <2> SUFFICES ASSUME NEW g \in Messages, cAt'[g] \in {"opening", "open"}
               PROVE  cSessions'[cChat[g]] = g \/ g \in cOvertaken' \/ \E r \in Sends : cSend[r].stream = g
    BY <1>2 DEF OpenedKept
  <2>1. CASE g = f
    BY <1>1, <1>3, <1>4, <2>1
  <2>2. CASE g # f
    <3>1. cSessions[cChat[g]] = g \/ g \in cOvertaken \/ \E r \in Sends : cSend[r].stream = g
      BY <1>4, <2>2 DEF WeComInv, OpenedKept
    <3>2. cChat[g] \in WeComChats
      BY <1>4, <2>2 DEF WeComInv, WeComTypes
    <3>3. g # 0
      BY ChannelsConstants DEF WeCom!WeComConstants
    <3> QED BY <1>1, <1>4, <3>1, <3>2, <3>3
  <2> QED BY <2>1, <2>2
<1> QED BY <1>5, <1>7, <1>8, <1>9, <1>10 DEF WeComInv

\* A stream that is not opened, and a turn without one, take the chat's away.
LEMMA LeavesKeepsWeCom ==
  ASSUME WeComInv, NEW f \in Messages, WeCom!Opens(f) \/ WeCom!Leaves(f)
  PROVE  WeComInv'
<1> DEFINE c == cChat[f]
<1>1. PICK a \in {"open", "failed", "left"} :
        /\ cAt' = [cAt EXCEPT ![f] = a] /\ (a = "open" => cAt[f] = "opening")
        /\ \/ UNCHANGED <<cSessions, cOvertaken>>
           \/ /\ cSessions' = [cSessions EXCEPT ![c] = 0]
              /\ cOvertaken' = cOvertaken \cup ({cSessions[c]} \ {0})
  BY DEF WeCom!Opens, WeCom!Leaves
<1>2. cAt[f] \in {"opening", "open", "plain"} /\ UNCHANGED <<cChat, cEnded, cSend>>
  BY DEF WeCom!Opens, WeCom!Leaves
<1>3. c \in WeComChats
  BY <1>2 DEF WeComInv, WeComTypes
<1>4. /\ \A g \in Messages : cAt'[g] = IF g = f THEN a ELSE cAt[g]
      /\ \A d \in WeComChats : cSessions'[d] = cSessions[d]
                               \/ (cSessions'[d] = 0 /\ cOvertaken' = cOvertaken \cup ({cSessions[d]} \ {0}))
      /\ cOvertaken \subseteq cOvertaken'
  BY <1>1, <1>3 DEF WeComInv, WeComTypes
<1>5. WeComTypes'
  <2>1. cSessions' \in [WeComChats -> {0} \cup Messages]
    BY <1>1 DEF WeComInv, WeComTypes
  <2>2. cAt' \in [Messages -> {"due", "refused", "handed", "plain", "opening", "open", "failed", "left"}]
    BY <1>1 DEF WeComInv, WeComTypes
  <2> QED BY <1>2, <1>4, <2>1, <2>2 DEF WeComInv, WeComTypes
<1>6. \A g : HasBegun(g) => HasBegun(g)'
  BY <1>2, <1>4 DEF HasBegun
<1>7. SessionsOwn'
  BY <1>2, <1>4, <1>6 DEF WeComInv, SessionsOwn
<1>8. RepliesOwn'
  BY <1>2, <1>4, <1>6 DEF WeComInv, RepliesOwn, HasBegun, WeComTypes
<1>9. EndedByReplies'
  BY <1>2 DEF WeComInv, EndedByReplies
<1>10. OpenedKept'
  <2> SUFFICES ASSUME NEW g \in Messages, cAt'[g] \in {"opening", "open"}
               PROVE  cSessions'[cChat[g]] = g \/ g \in cOvertaken' \/ \E r \in Sends : cSend[r].stream = g
    BY <1>2 DEF OpenedKept
  <2>1. cAt[g] \in {"opening", "open"}
    BY <1>1, <1>4
  <2>2. cSessions[cChat[g]] = g \/ g \in cOvertaken \/ \E r \in Sends : cSend[r].stream = g
    BY <2>1 DEF WeComInv, OpenedKept
  <2>3. cChat[g] \in WeComChats
    BY <2>1 DEF WeComInv, WeComTypes
  <2>4. g # 0
    BY ChannelsConstants DEF WeCom!WeComConstants
  <2> QED BY <1>4, <2>2, <2>3, <2>4
<1> QED BY <1>5, <1>7, <1>8, <1>9, <1>10 DEF WeComInv

\* A reply takes the stream of its session.
LEMMA RepliesKeepWeCom ==
  ASSUME WeComInv, NEW r \in Sends, WeCom!Replies(r)
  PROVE  WeComInv'
<1>1. PICK c \in WeComChats, a \in {"proactive", "stream", "failed"} :
        /\ cSessions' = [cSessions EXCEPT ![c] = 0]
        /\ cSend' = [cSend EXCEPT ![r] = [at |-> a, chat |-> c, stream |-> cSessions[c]]]
        /\ (a = "stream" => cSessions[c] # 0)
  BY DEF WeCom!Replies, WeCom!Popped, WeComChats
<1>2. cSend[r].at = "idle" /\ UNCHANGED <<cChat, cAt, cEnded, cOvertaken>>
  BY DEF WeCom!Replies
<1>3. /\ \A d \in WeComChats : cSessions'[d] = IF d = c THEN 0 ELSE cSessions[d]
      /\ cSend'[r] = [at |-> a, chat |-> c, stream |-> cSessions[c]]
      /\ \A q \in Sends : q # r => cSend'[q] = cSend[q]
  BY <1>1 DEF WeComInv, WeComTypes
<1>4. cSessions[c] \in {0} \cup Messages
  BY <1>1 DEF WeComInv, WeComTypes
<1>5. cSend[r].stream = 0
  BY <1>2 DEF WeComInv, WeComTypes
<1>6. WeComTypes'
  <2>1. cSend' \in [Sends -> WeComReplies]
    BY <1>1, <1>4 DEF WeComInv, WeComTypes, WeComReplies
  <2>2. \A q \in Sends : cSend'[q].at = "idle" => cSend'[q].stream = 0
    BY <1>1, <1>3 DEF WeComInv, WeComTypes
  <2>3. cSessions' \in [WeComChats -> {0} \cup Messages]
    BY <1>1 DEF WeComInv, WeComTypes
  <2> QED BY <1>2, <2>1, <2>2, <2>3 DEF WeComInv, WeComTypes
<1>7. \A g : HasBegun(g) => HasBegun(g)'
  BY <1>2 DEF HasBegun
<1>8. SessionsOwn'
  BY <1>2, <1>3, <1>7 DEF WeComInv, SessionsOwn
<1>9. \A q \in Sends : q # r /\ cSend[q].stream # 0 => cSend[q].stream # cSessions[c]
  BY <1>1 DEF WeComInv, RepliesOwn
<1>10. RepliesOwn'
  <2> SUFFICES ASSUME NEW q \in Sends, cSend'[q].stream # 0
               PROVE  /\ HasBegun(cSend'[q].stream) /\ cChat[cSend'[q].stream] = cSend'[q].chat
                      /\ \A d \in WeComChats : cSessions'[d] # cSend'[q].stream
                      /\ \A p \in Sends : p # q => cSend'[p].stream # cSend'[q].stream
    BY <1>2, <1>7 DEF RepliesOwn
  <2>1. CASE q = r
    <3>1. cSend'[q].stream = cSessions[c] /\ cSend'[q].chat = c
      BY <1>3, <2>1
    <3>2. HasBegun(cSessions[c]) /\ cChat[cSessions[c]] = c
      BY <1>1, <3>1 DEF WeComInv, SessionsOwn
    <3>3. \A d \in WeComChats : cSessions'[d] # cSessions[c]
      BY <1>3, <3>1, <3>2 DEF WeComInv, SessionsOwn
    <3>4. \A p \in Sends : p # q => cSend'[p].stream # cSend'[q].stream
      BY <1>3, <1>9, <2>1, <3>1
    <3> QED BY <3>1, <3>2, <3>3, <3>4
  <2>2. CASE q # r
    <3>1. cSend'[q] = cSend[q]
      BY <1>3, <2>2
    <3>2. /\ HasBegun(cSend[q].stream) /\ cChat[cSend[q].stream] = cSend[q].chat
          /\ \A d \in WeComChats : cSessions[d] # cSend[q].stream
          /\ \A p \in Sends : p # q => cSend[p].stream # cSend[q].stream
      BY <3>1 DEF WeComInv, RepliesOwn
    <3>3. \A d \in WeComChats : cSessions'[d] # cSend'[q].stream
      BY <1>3, <3>1, <3>2
    <3>4. \A p \in Sends : p # q => cSend'[p].stream # cSend'[q].stream
      BY <1>1, <1>3, <3>1, <3>2
    <3> QED BY <3>1, <3>2, <3>3, <3>4
  <2> QED BY <2>1, <2>2
<1>11. EndedByReplies'
  <2>1. \A g \in Messages : cEnded[g] <= 1 /\ (cEnded[g] # 0 => \E q \in Sends : cSend'[q].stream = g)
    <3>1. \A g \in Messages : g # 0
      BY ChannelsConstants DEF WeCom!WeComConstants
    <3> QED BY <1>3, <1>5, <3>1 DEF WeComInv, EndedByReplies
  <2>2. ASSUME NEW q \in Sends, cSend'[q].at = "stream"
        PROVE  cSend'[q].stream \in Messages /\ cEnded[cSend'[q].stream] = 0
    <3>1. CASE q = r
      <4>1. cSend'[q].stream = cSessions[c] /\ cSessions[c] \in Messages
        BY <1>1, <1>3, <1>4, <2>2, <3>1
      <4>2. \A p \in Sends : cSend[p].stream # cSessions[c]
        BY <1>1, <1>5, <1>9, <4>1, ChannelsConstants DEF WeCom!WeComConstants
      <4> QED BY <4>1, <4>2 DEF WeComInv, EndedByReplies
    <3>2. CASE q # r
      BY <1>3, <2>2, <3>2 DEF WeComInv, EndedByReplies
    <3> QED BY <3>1, <3>2
  <2> QED BY <1>2, <2>1, <2>2 DEF EndedByReplies
<1>12. OpenedKept'
  <2> SUFFICES ASSUME NEW g \in Messages, cAt[g] \in {"opening", "open"}
               PROVE  cSessions'[cChat[g]] = g \/ g \in cOvertaken \/ \E q \in Sends : cSend'[q].stream = g
    BY <1>2 DEF OpenedKept
  <2>1. cSessions[cChat[g]] = g \/ g \in cOvertaken \/ \E q \in Sends : cSend[q].stream = g
    BY DEF WeComInv, OpenedKept
  <2>2. cChat[g] \in WeComChats /\ g # 0
    BY ChannelsConstants DEF WeComInv, WeComTypes, WeCom!WeComConstants
  <2>3. CASE cSessions[cChat[g]] = g
    BY <1>3, <2>2, <2>3
  <2>4. CASE \E q \in Sends : cSend[q].stream = g
    BY <1>3, <1>5, <2>2, <2>4
  <2> QED BY <2>1, <2>3, <2>4
<1> QED BY <1>6, <1>8, <1>10, <1>11, <1>12 DEF WeComInv

\* A stream that is ended had not been.
LEMMA AnswersKeepWeCom ==
  ASSUME WeComInv, NEW r \in Sends, WeCom!Answers(r)
  PROVE  WeComInv'
<1>1. PICK a \in {"sent", "failed"} :
        /\ cSend' = [cSend EXCEPT ![r].at = a]
        /\ \/ UNCHANGED cEnded
           \/ /\ cSend[r].at = "stream"
              /\ cEnded' = [cEnded EXCEPT ![cSend[r].stream] = @ + 1]
  BY DEF WeCom!Answers
<1>2. cSend[r].at # "idle" /\ UNCHANGED <<cChat, cAt, cSessions, cOvertaken>>
  BY DEF WeCom!Answers
<1>3. \A q \in Sends : /\ cSend'[q].at = IF q = r THEN a ELSE cSend[q].at
                       /\ cSend'[q].stream = cSend[q].stream /\ cSend'[q].chat = cSend[q].chat
  BY <1>1 DEF WeComInv, WeComTypes, WeComReplies
<1>4. cSend[r].at = "stream" => cSend[r].stream \in Messages /\ cEnded[cSend[r].stream] = 0
  BY DEF WeComInv, EndedByReplies
<1>5. \A f \in Messages : cEnded'[f] = cEnded[f]
                          \/ (cEnded'[f] = 1 /\ f = cSend[r].stream /\ cSend[r].at = "stream")
  BY <1>1, <1>4 DEF WeComInv, WeComTypes
<1>6. WeComTypes'
  <2>1. cSend' \in [Sends -> WeComReplies]
    BY <1>1 DEF WeComInv, WeComTypes, WeComReplies
  <2>2. cEnded' \in [Messages -> Nat]
    BY <1>1, <1>4 DEF WeComInv, WeComTypes
  <2>3. \A q \in Sends : cSend'[q].at = "idle" => cSend'[q].stream = 0
    BY <1>1, <1>3 DEF WeComInv, WeComTypes
  <2> QED BY <1>2, <2>1, <2>2, <2>3 DEF WeComInv, WeComTypes
<1>7. \A g : HasBegun(g) => HasBegun(g)'
  BY <1>2 DEF HasBegun
<1>8. SessionsOwn' /\ RepliesOwn'
  BY <1>2, <1>3, <1>7 DEF WeComInv, SessionsOwn, RepliesOwn
<1>9. EndedByReplies'
  <2>1. \A f \in Messages : cEnded'[f] <= 1 /\ (cEnded'[f] # 0 => \E q \in Sends : cSend'[q].stream = f)
    BY <1>3, <1>5 DEF WeComInv, EndedByReplies
  <2>2. ASSUME NEW q \in Sends, cSend'[q].at = "stream"
        PROVE  cSend'[q].stream \in Messages /\ cEnded'[cSend'[q].stream] = 0
    <3>1. q # r /\ cSend[q].at = "stream" /\ cSend'[q].stream = cSend[q].stream
      BY <1>1, <1>3, <2>2
    <3>2. cSend[q].stream \in Messages /\ cEnded[cSend[q].stream] = 0
      BY <3>1 DEF WeComInv, EndedByReplies
    <3>3. cSend[r].at = "stream" => cSend[q].stream # cSend[r].stream
      BY <1>4, <3>1, <3>2, ChannelsConstants DEF WeComInv, RepliesOwn, WeCom!WeComConstants
    <3> QED BY <1>5, <3>1, <3>2, <3>3
  <2> QED BY <2>1, <2>2 DEF EndedByReplies
<1>10. OpenedKept'
  BY <1>2, <1>3 DEF WeComInv, OpenedKept
<1> QED BY <1>6, <1>8, <1>9, <1>10 DEF WeComInv

\* Every step of the channel keeps it.
LEMMA WeComKeeps ==
  ASSUME WeComInv, [WeCom!Next]_WeCom!vars
  PROVE  WeComInv'
<1>1. CASE WeCom!Connects \/ WeCom!Disconnects \/ UNCHANGED WeCom!vars
  <2>1. UNCHANGED <<cChat, cAt, cSessions, cEnded, cOvertaken, cSend>>
    BY <1>1 DEF WeCom!Connects, WeCom!Disconnects, WeCom!vars
  <2>2. WeComTypes'
    BY <2>1 DEF WeComInv, WeComTypes
  <2>3. \A g : HasBegun(g)' <=> HasBegun(g)
    BY <2>1 DEF HasBegun
  <2>4. SessionsOwn' /\ RepliesOwn'
    BY <2>1, <2>3 DEF WeComInv, SessionsOwn, RepliesOwn
  <2>5. EndedByReplies' /\ OpenedKept'
    BY <2>1 DEF WeComInv, EndedByReplies, OpenedKept
  <2> QED BY <2>2, <2>4, <2>5 DEF WeComInv
<1> QED BY <1>1, HandlesKeepsWeCom, EntersKeepsWeCom, LeavesKeepsWeCom, RepliesKeepWeCom, AnswersKeepWeCom
     DEF WeCom!Next

\* A stream is ended once, then, by a reply of its own chat.
LEMMA StreamsOwned == WeComInv => WeCom!StreamsEndOnce
<1> SUFFICES ASSUME WeComInv PROVE WeCom!StreamsEndOnce
  OBVIOUS
<1>1. \A f \in Messages : cEnded[f] <= 1
  BY DEF WeComInv, EndedByReplies
<1>2. \A r \in Sends : cSend[r].stream # 0 => cChat[cSend[r].stream] = cSend[r].chat
  BY DEF WeComInv, RepliesOwn
<1>3. \A f \in Messages : cAt[f] = "open" =>
        cSessions[cChat[f]] = f \/ f \in cOvertaken \/ \E r \in Sends : cSend[r].stream = f
  BY DEF WeComInv, OpenedKept
<1> QED BY <1>1, <1>2, <1>3 DEF WeCom!StreamsEndOnce

-----------------------------------------------------------------------------
(* The proof that replies find their messages: Feishu *)

\* The types of waiting commands and of replies.
FeishuReplies ==
  [at : {"idle", "create", "reply", "replied", "created", "failed"}, chat : Chats \cup {"none"},
   to : {0} \cup Messages]
WaitingTypes == fIds \in [Chats -> Seq(Messages)] /\ fSend \in [Sends -> FeishuReplies]

\* The commands of a chat that may have left their ids: handed over, or failed on the way.
CommandsOf ==
  [c \in Chats |-> {m \in Messages : fPc[m] \in {"handed", "failed"} /\ fEvent[m].command = TRUE /\ fEvent[m].chat = c}]

\* The commands of a chat wait in their order.
CommandsWait ==
  \A c \in Chats :
    /\ \A i \in 1 .. Len(fIds[c]) : fIds[c][i] \in CommandsOf[c]
    /\ \A i, j \in 1 .. Len(fIds[c]) : i < j => fIds[c][i] < fIds[c][j]

\* A reply is to a command of its chat that is before all that wait, and no other is.
RepliesAhead ==
  \A r \in Sends : fSend[r].to # 0 =>
    /\ fSend[r].chat \in Chats /\ fSend[r].to \in CommandsOf[fSend[r].chat]
    /\ \A q \in Sends : q # r => fSend[q].to # fSend[r].to
    /\ \A i \in 1 .. Len(fIds[fSend[r].chat]) : fSend[r].to < fIds[fSend[r].chat][i]

CommandsInv == WaitingTypes /\ CommandsWait /\ RepliesAhead

\* There are no commands at first.
LEMMA CommandsStart == Feishu!Init => CommandsInv
<1> SUFFICES ASSUME Feishu!Init PROVE CommandsInv
  OBVIOUS
<1> USE DEF Feishu!Init
<1>1. WaitingTypes
  BY DEF WaitingTypes, FeishuReplies
<1>2. CommandsWait
  BY DEF CommandsWait
<1>3. RepliesAhead
  BY DEF RepliesAhead
<1> QED BY <1>1, <1>2, <1>3 DEF CommandsInv

\* A command that leaves its id waits behind the others, be it handed over or not.
LEMMA BuildsKeepsCommands ==
  ASSUME FeishuInv, CommandsInv, NEW m \in Messages,
         Feishu!Builds(m) \/ (Feishu!BuildFails(m) /\ fIds' = Feishu!IdLeftBy(m))
  PROVE  CommandsInv'
<1> DEFINE c == fEvent[m].chat
<1>1. PICK at \in {"handed", "failed"} :
        /\ fPc[m] = "build" /\ fPc' = [fPc EXCEPT ![m] = at] /\ UNCHANGED <<fEvent, fSend>>
        /\ fIds' = IF fEvent[m].command THEN [fIds EXCEPT ![c] = Append(@, m)] ELSE fIds
  BY DEF Feishu!Builds, Feishu!BuildFails, Feishu!Swallows, Feishu!IdLeftBy
<1>2. fEvent[m] \in Feishu!Events /\ c \in Chats
  BY <1>1 DEF FeishuInv, OneAtATime, Feishu!Events
<1>3. \A d \in Chats : \A n : n \in CommandsOf[d] => n \in CommandsOf'[d] /\ n < m
  <2> SUFFICES ASSUME NEW d \in Chats, NEW n, n \in CommandsOf[d] PROVE n \in CommandsOf'[d] /\ n < m
    OBVIOUS
  <2>1. n \in Messages /\ fPc[n] \in {"handed", "failed"} /\ n # m
    BY <1>1 DEF CommandsOf
  <2>2. n <= m
    BY <1>1, <2>1 DEF FeishuInv, OneAtATime
  <2>3. n < m
    BY <2>1, <2>2, ChannelsConstants DEF Feishu!FeishuConstants
  <2> QED BY <1>1, <2>1, <2>3 DEF CommandsOf, FeishuInv, FeishuTypes
<1>4. CASE fEvent[m].command # TRUE
  <2>1. fEvent[m].command = FALSE
    BY <1>2, <1>4 DEF Feishu!Events
  <2>2. fIds' = fIds
    BY <1>1, <2>1
  <2> QED BY <1>1, <1>3, <2>2 DEF CommandsInv, WaitingTypes, CommandsWait, RepliesAhead
<1>5. CASE fEvent[m].command = TRUE
  <2> DEFINE W == Append(fIds[c], m)
  <2>1. fIds[c] \in Seq(Messages)
    BY <1>2 DEF CommandsInv, WaitingTypes
  <2>2. fIds' = [fIds EXCEPT ![c] = W]
    BY <1>1, <1>5
  <2>3. /\ Len(fIds[c]) \in Nat /\ W \in Seq(Messages) /\ Len(W) = Len(fIds[c]) + 1 /\ W[Len(fIds[c]) + 1] = m
        /\ \A i \in 1 .. Len(fIds[c]) : W[i] = fIds[c][i]
    BY <2>1, AppendProperties
  <2> HIDE DEF W
  <2>4. \A d \in Chats : fIds'[d] = IF d = c THEN W ELSE fIds[d]
    BY <1>2, <2>2 DEF CommandsInv, WaitingTypes
  <2>5. \A i \in 1 .. Len(W) : i \in 1 .. Len(fIds[c]) \/ i = Len(fIds[c]) + 1
    BY <2>3
  <2>6. m \in CommandsOf'[c]
    <3>1. fPc'[m] = at /\ fEvent'[m].command = TRUE /\ fEvent'[m].chat = c
      BY <1>1, <1>5 DEF FeishuInv, FeishuTypes
    <3> QED BY <1>2, <3>1 DEF CommandsOf
  <2>7. WaitingTypes'
    BY <1>1, <2>2, <2>3 DEF CommandsInv, WaitingTypes
  <2>8. CommandsWait'
    <3> SUFFICES ASSUME NEW d \in Chats
                 PROVE  /\ \A i \in 1 .. Len(fIds'[d]) : fIds'[d][i] \in CommandsOf'[d]
                        /\ \A i, j \in 1 .. Len(fIds'[d]) : i < j => fIds'[d][i] < fIds'[d][j]
      BY DEF CommandsWait
    <3>1. CASE d # c
      BY <1>3, <2>4, <3>1 DEF CommandsInv, CommandsWait
    <3>2. CASE d = c
      <4>1. \A i \in 1 .. Len(fIds[c]) : W[i] \in CommandsOf'[c] /\ W[i] < m
        BY <1>2, <1>3, <2>3 DEF CommandsInv, CommandsWait
      <4>2. \A i \in 1 .. Len(W) : W[i] \in CommandsOf'[c]
        BY <2>3, <2>5, <2>6, <4>1
      <4>3. ASSUME NEW i \in 1 .. Len(W), NEW j \in 1 .. Len(W), i < j
            PROVE  W[i] < W[j]
        <5>1. i \in 1 .. Len(fIds[c])
          BY <2>3, <2>5, <4>3
        <5>2. CASE j = Len(fIds[c]) + 1
          BY <2>3, <4>1, <5>1, <5>2
        <5>3. CASE j \in 1 .. Len(fIds[c])
          BY <1>2, <2>3, <4>3, <5>1, <5>3 DEF CommandsInv, CommandsWait
        <5> QED BY <2>5, <5>2, <5>3
      <4> QED BY <2>4, <3>2, <4>2, <4>3
    <3> QED BY <3>1, <3>2
  <2>9. RepliesAhead'
    <3> SUFFICES ASSUME NEW r \in Sends, fSend[r].to # 0
                 PROVE  /\ fSend[r].chat \in Chats /\ fSend[r].to \in CommandsOf'[fSend[r].chat]
                        /\ \A q \in Sends : q # r => fSend[q].to # fSend[r].to
                        /\ \A i \in 1 .. Len(fIds'[fSend[r].chat]) : fSend[r].to < fIds'[fSend[r].chat][i]
      BY <1>1 DEF RepliesAhead
    <3>1. /\ fSend[r].chat \in Chats /\ fSend[r].to \in CommandsOf[fSend[r].chat]
          /\ \A q \in Sends : q # r => fSend[q].to # fSend[r].to
          /\ \A i \in 1 .. Len(fIds[fSend[r].chat]) : fSend[r].to < fIds[fSend[r].chat][i]
      BY DEF CommandsInv, RepliesAhead
    <3>2. fSend[r].to \in CommandsOf'[fSend[r].chat] /\ fSend[r].to < m
      BY <1>3, <3>1
    <3>3. \A i \in 1 .. Len(fIds'[fSend[r].chat]) : fSend[r].to < fIds'[fSend[r].chat][i]
      <4>1. CASE fSend[r].chat # c
        BY <2>4, <3>1, <4>1
      <4>2. CASE fSend[r].chat = c
        BY <2>3, <2>4, <2>5, <3>1, <3>2, <4>2
      <4> QED BY <4>1, <4>2
    <3> QED BY <3>1, <3>2, <3>3
  <2> QED BY <2>7, <2>8, <2>9 DEF CommandsInv
<1> QED BY <1>4, <1>5

\* A reply is to the first that waits.
LEMMA RepliesKeepCommands ==
  ASSUME CommandsInv, NEW r \in Sends, Feishu!Replies(r)
  PROVE  CommandsInv'
<1>1. PICK c \in Chats :
        /\ fSend' = [fSend EXCEPT ![r] = [at |-> IF fIds[c] = <<>> THEN "create" ELSE "reply", chat |-> c,
                                          to |-> IF fIds[c] = <<>> THEN 0 ELSE Head(fIds[c])]]
        /\ fIds' = [fIds EXCEPT ![c] = IF @ = <<>> THEN @ ELSE Tail(@)]
  BY DEF Feishu!Replies, Feishu!IdPopped
<1>2. UNCHANGED <<fEvent, fPc>>
  BY DEF Feishu!Replies
<1> DEFINE s == fIds[c]
           a == IF s = <<>> THEN "create" ELSE "reply"
           t == IF s = <<>> THEN 0 ELSE Head(s)
           W == IF s = <<>> THEN s ELSE Tail(s)
<1>3. s \in Seq(Messages)
  BY <1>1 DEF CommandsInv, WaitingTypes
<1>4. /\ s = <<>> => t = 0 /\ W = s /\ Len(W) = 0
      /\ s # <<>> => /\ Len(s) \in Nat \ {0} /\ t = s[1] /\ t \in Messages /\ W \in Seq(Messages)
                     /\ Len(W) = Len(s) - 1 /\ \A i \in 1 .. Len(W) : W[i] = s[i + 1]
  BY <1>3, HeadTailProperties
<1>5. a \in {"create", "reply"}
  OBVIOUS
<1>6. /\ fSend' = [fSend EXCEPT ![r] = [at |-> a, chat |-> c, to |-> t]]
      /\ fIds' = [fIds EXCEPT ![c] = W]
  BY <1>1
<1> HIDE DEF a, t, W
<1>7. /\ \A d \in Chats : fIds'[d] = IF d = c THEN W ELSE fIds[d]
      /\ fSend'[r].to = t /\ fSend'[r].chat = c /\ \A q \in Sends : q # r => fSend'[q] = fSend[q]
  BY <1>6 DEF CommandsInv, WaitingTypes
<1>8. W \in Seq(Messages) /\ t \in {0} \cup Messages
  BY <1>3, <1>4
<1>9. WaitingTypes'
  <2>1. [at |-> a, chat |-> c, to |-> t] \in FeishuReplies
    BY <1>5, <1>8 DEF FeishuReplies
  <2> QED BY <1>6, <1>8, <2>1 DEF CommandsInv, WaitingTypes
<1>10. \A d \in Chats : \A n : n \in CommandsOf'[d] <=> n \in CommandsOf[d]
  BY <1>2 DEF CommandsOf
<1>11. /\ \A i \in 1 .. Len(s) : s[i] \in CommandsOf[c]
       /\ \A i, j \in 1 .. Len(s) : i < j => s[i] < s[j]
  BY DEF CommandsInv, CommandsWait
<1>12. \A i \in 1 .. Len(W) : s # <<>> /\ i \in 1 .. Len(s) /\ i + 1 \in 1 .. Len(s) /\ W[i] = s[i + 1]
  BY <1>4
<1>13. CommandsWait'
  <2> SUFFICES ASSUME NEW d \in Chats
               PROVE  /\ \A i \in 1 .. Len(fIds'[d]) : fIds'[d][i] \in CommandsOf'[d]
                      /\ \A i, j \in 1 .. Len(fIds'[d]) : i < j => fIds'[d][i] < fIds'[d][j]
    BY DEF CommandsWait
  <2>1. CASE d # c
    BY <1>7, <1>10, <2>1 DEF CommandsInv, CommandsWait
  <2>2. CASE d = c
    <3>1. \A i \in 1 .. Len(W) : W[i] \in CommandsOf'[c]
      BY <1>10, <1>11, <1>12
    <3>2. ASSUME NEW i \in 1 .. Len(W), NEW j \in 1 .. Len(W), i < j
          PROVE  W[i] < W[j]
      <4> HIDE DEF s
      <4>1. i + 1 < j + 1
        BY <3>2
      <4> QED BY <1>11, <1>12, <3>2, <4>1
    <3> QED BY <1>7, <2>2, <3>1, <3>2
  <2> QED BY <2>1, <2>2
<1>14. \A q \in Sends : q # r /\ t # 0 => fSend[q].to # t
  <2> SUFFICES ASSUME NEW q \in Sends, t # 0, fSend[q].to = t PROVE FALSE
    OBVIOUS
  <2>1. s # <<>> /\ t = s[1] /\ 1 \in 1 .. Len(s)
    BY <1>4
  <2>2. fEvent[t].chat = c
    BY <1>11, <2>1 DEF CommandsOf
  <2>3. fSend[q].chat = c /\ t < s[1]
    <3>1. /\ fSend[q].chat \in Chats /\ t \in CommandsOf[fSend[q].chat]
          /\ \A i \in 1 .. Len(fIds[fSend[q].chat]) : t < fIds[fSend[q].chat][i]
      BY DEF CommandsInv, RepliesAhead
    <3>2. fSend[q].chat = c
      BY <2>2, <3>1 DEF CommandsOf
    <3> QED BY <2>1, <3>1, <3>2
  <2>4. t \in Nat
    BY <1>4, <2>1, ChannelsConstants DEF Feishu!FeishuConstants
  <2> QED BY <2>1, <2>3, <2>4
<1>15. RepliesAhead'
  <2> SUFFICES ASSUME NEW q \in Sends, fSend'[q].to # 0
               PROVE  /\ fSend'[q].chat \in Chats /\ fSend'[q].to \in CommandsOf'[fSend'[q].chat]
                      /\ \A p \in Sends : p # q => fSend'[p].to # fSend'[q].to
                      /\ \A i \in 1 .. Len(fIds'[fSend'[q].chat]) : fSend'[q].to < fIds'[fSend'[q].chat][i]
    BY DEF RepliesAhead
  <2>1. CASE q = r
    <3>1. fSend'[q].to = t /\ fSend'[q].chat = c /\ t # 0
      BY <1>7, <2>1
    <3>2. s # <<>> /\ t = s[1] /\ 1 \in 1 .. Len(s)
      BY <1>4, <3>1
    <3>3. t \in CommandsOf'[c]
      BY <1>10, <1>11, <3>2
    <3>4. \A i \in 1 .. Len(W) : t < W[i]
      <4> SUFFICES ASSUME NEW i \in 1 .. Len(W) PROVE t < W[i]
        OBVIOUS
      <4>1. 1 < i + 1
        OBVIOUS
      <4> HIDE DEF s
      <4> QED BY <1>11, <1>12, <3>2, <4>1
    <3>5. \A p \in Sends : p # q => fSend'[p].to # t
      BY <1>7, <1>14, <2>1, <3>1
    <3> QED BY <1>7, <3>1, <3>3, <3>4, <3>5
  <2>2. CASE q # r
    <3>1. fSend'[q] = fSend[q]
      BY <1>7, <2>2
    <3>2. /\ fSend[q].chat \in Chats /\ fSend[q].to \in CommandsOf[fSend[q].chat]
          /\ \A p \in Sends : p # q => fSend[p].to # fSend[q].to
          /\ \A i \in 1 .. Len(fIds[fSend[q].chat]) : fSend[q].to < fIds[fSend[q].chat][i]
      BY <3>1 DEF CommandsInv, RepliesAhead
    <3>3. \A p \in Sends : p # q => fSend'[p].to # fSend[q].to
      BY <1>7, <1>14, <2>2, <3>1, <3>2
    <3>4. \A i \in 1 .. Len(fIds'[fSend[q].chat]) : fSend[q].to < fIds'[fSend[q].chat][i]
      <4>1. CASE fSend[q].chat # c
        BY <1>7, <3>2, <4>1
      <4>2. CASE fSend[q].chat = c
        BY <1>7, <1>12, <3>2, <4>2
      <4> QED BY <4>1, <4>2
    <3> QED BY <1>10, <3>1, <3>2, <3>3, <3>4
  <2> QED BY <2>1, <2>2
<1> QED BY <1>9, <1>13, <1>15 DEF CommandsInv

\* Every other step leaves the commands and the replies to them alone.
LEMMA FeishuKeepsCommands ==
  ASSUME FeishuInv, CommandsInv, [Feishu!Next]_Feishu!vars
  PROVE  CommandsInv'
<1>1. ASSUME UNCHANGED <<fIds, fSend>>, \A d \in Chats : \A n : n \in CommandsOf[d] => n \in CommandsOf'[d]
      PROVE  CommandsInv'
  BY <1>1 DEF CommandsInv, WaitingTypes, CommandsWait, RepliesAhead
<1>2. CASE Feishu!Starts \/ Feishu!Stops \/ Feishu!ThreadEnds \/ Feishu!Joins \/ UNCHANGED Feishu!vars
  <2>1. UNCHANGED <<fEvent, fPc, fIds, fSend>>
    BY <1>2 DEF Feishu!Starts, Feishu!Stops, Feishu!ThreadEnds, Feishu!Joins, Feishu!vars
  <2> QED BY <1>1, <2>1 DEF CommandsOf
<1>3. ASSUME NEW m \in Messages,
             \/ Feishu!Receives(m) \/ Feishu!Names(m) \/ Feishu!NamesFail(m)
             \/ Feishu!BuildFails(m) /\ fIds' = fIds
      PROVE  CommandsInv'
  <2>1. fPc[m] \notin {"handed", "failed"} /\ UNCHANGED <<fIds, fSend>>
    BY <1>3 DEF Feishu!Receives, Feishu!Names, Feishu!NamesFail, Feishu!BuildFails
  <2>2. \A n \in Messages : n # m => fPc'[n] = fPc[n] /\ fEvent'[n] = fEvent[n]
    BY <1>3 DEF Feishu!Receives, Feishu!Names, Feishu!NamesFail, Feishu!BuildFails, Feishu!Swallows,
       FeishuInv, FeishuTypes
  <2>3. \A d \in Chats : \A n : n \in CommandsOf[d] => n \in CommandsOf'[d]
    BY <2>1, <2>2 DEF CommandsOf
  <2> QED BY <1>1, <2>1, <2>3
<1>4. ASSUME NEW r \in Sends, Feishu!Answers(r)
      PROVE  CommandsInv'
  <2>1. PICK at \in {"replied", "created", "failed"} : fSend' = [fSend EXCEPT ![r].at = at]
    BY <1>4 DEF Feishu!Answers
  <2>2. UNCHANGED <<fEvent, fPc, fIds>>
    BY <1>4 DEF Feishu!Answers
  <2>3. \A q \in Sends : fSend'[q].to = fSend[q].to /\ fSend'[q].chat = fSend[q].chat
    BY <2>1 DEF CommandsInv, WaitingTypes, FeishuReplies
  <2>4. WaitingTypes'
    BY <2>1, <2>2 DEF CommandsInv, WaitingTypes, FeishuReplies
  <2>5. \A d \in Chats : \A n : n \in CommandsOf'[d] <=> n \in CommandsOf[d]
    BY <2>2 DEF CommandsOf
  <2>6. CommandsWait'
    BY <2>2, <2>5 DEF CommandsInv, CommandsWait
  <2>7. RepliesAhead'
    BY <2>2, <2>3, <2>5 DEF CommandsInv, RepliesAhead
  <2> QED BY <2>4, <2>6, <2>7 DEF CommandsInv
<1>5. ASSUME NEW m \in Messages, Feishu!BuildFails(m)
      PROVE  CommandsInv'
  <2>1. fIds' = fIds \/ fIds' = Feishu!IdLeftBy(m)
    BY <1>5 DEF Feishu!BuildFails
  <2> QED BY <1>3, <1>5, <2>1, BuildsKeepsCommands
<1> QED BY <1>2, <1>3, <1>4, <1>5, BuildsKeepsCommands, RepliesKeepCommands DEF Feishu!Next

\* A command is replied to once, then, in its own chat and in its order.
LEMMA CommandsReplied == CommandsInv => Feishu!CommandRepliesInOrder
<1> SUFFICES ASSUME CommandsInv, NEW r \in Sends, fSend[r].to # 0
             PROVE  /\ fEvent[fSend[r].to].command /\ fEvent[fSend[r].to].chat = fSend[r].chat
                    /\ \A q \in Sends : q # r => fSend[q].to # fSend[r].to
                    /\ \A c \in Chats : \A i \in DOMAIN fIds[c] : c = fSend[r].chat => fSend[r].to < fIds[c][i]
  BY DEF Feishu!CommandRepliesInOrder
<1>1. fEvent[fSend[r].to].command /\ fEvent[fSend[r].to].chat = fSend[r].chat
  BY DEF CommandsInv, RepliesAhead, CommandsOf
<1>2. \A q \in Sends : q # r => fSend[q].to # fSend[r].to
  BY DEF CommandsInv, RepliesAhead
<1>3. \A c \in Chats : DOMAIN fIds[c] = 1 .. Len(fIds[c])
  BY DEF CommandsInv, WaitingTypes
<1> QED BY <1>1, <1>2, <1>3 DEF CommandsInv, RepliesAhead

-----------------------------------------------------------------------------
(* The proof that replies find their messages: Slack *)

\* The types of events, marks and replies.
SlackReplies ==
  [at : {"idle", "post", "posted", "failed", "unreact", "react", "done"},
   session : Slack!Sessions \cup {Slack!NoSession}, ack : {0} \cup Messages]
SlackTypes ==
  /\ sPc \in [Messages -> {"due", "react", "handed", "ignored"}]
  /\ \A m \in Messages : sPc[m] # "due" => sEvent[m] \in Slack!Events
  /\ sEvent \in [Messages -> Slack!Events \cup {Slack!NoSession}]
  /\ sAckPending \in [Slack!Sessions -> {0} \cup Messages]
  /\ sMarks \in [Messages -> SUBSET {"hourglass", "done"}]
  /\ sSend \in [Sends -> SlackReplies]

\* The messages of a session that were taken.
TakenOf == [s \in Slack!Sessions |->
  {m \in Messages : sPc[m] \in {"react", "handed"} /\ Slack!Session(sEvent[m], m) = s}]

\* Events come in order.
EventsInOrder == \A m, n \in Messages : sPc[m] = "due" /\ sPc[n] # "due" => n < m

\* What the next reply of a session is to mark is its latest message.
LatestPending ==
  \A s \in Slack!Sessions : sAckPending[s] # 0 =>
    sAckPending[s] \in TakenOf[s] /\ \A m \in TakenOf[s] : m <= sAckPending[s]

\* A reply marks a message of its session, which no other reply marks, nor will; and it
\* marks none before it was posted.
AcksOwn ==
  \A r \in Sends :
    /\ sSend[r].at \in {"idle", "post", "posted"} => sSend[r].ack = 0
    /\ sSend[r].at \in {"unreact", "react"} => sSend[r].ack # 0
    /\ sSend[r].ack # 0 =>
         /\ sSend[r].session \in Slack!Sessions /\ sSend[r].ack \in TakenOf[sSend[r].session]
         /\ \A s \in Slack!Sessions : sAckPending[s] # sSend[r].ack
         /\ \A q \in Sends : q # r => sSend[q].ack # sSend[r].ack

\* What carries the mark of a reply was so marked.
DoneByReplies == \A m \in Messages : "done" \in sMarks[m] => \E r \in Sends : sSend[r].ack = m

\* A thread is the bot's once a reply to it has begun; what nobody has addressed to the
\* bot is taken in such a thread only.
Started(root) == \E r \in Sends : sSend[r].at # "idle" /\ sSend[r].session.root = root
ThreadsStarted ==
  /\ \A x \in sActive : Started(x)
  /\ \A m \in Messages :
       sPc[m] \in {"react", "handed"} /\ sEvent[m].channel \in Chats /\ sEvent[m].mentions # TRUE =>
         Started(sEvent[m].thread)

\* A reply that has begun has a session.
RepliesHaveSessions == \A r \in Sends : sSend[r].at # "idle" => sSend[r].session \in Slack!Sessions

SlackInv ==
  /\ SlackTypes /\ EventsInOrder /\ LatestPending /\ AcksOwn /\ DoneByReplies /\ ThreadsStarted
  /\ RepliesHaveSessions

\* Slack takes its own steps, and the other parts none of them.
LEMMA SlackSteps ==
  [PartsNext]_allVars => [Slack!Next]_Slack!vars
<1> USE DEF allVars, kVars, sVars, Slack!vars
<1>1. CASE UNCHANGED allVars
  BY <1>1
<1>2. CASE PartsNext
  BY <1>2 DEF PartsNext, OfSlack, OfDiscord, OfFeishu, OfWeCom, OfWeChat, OfDingTalk,
     OfSchedule, OfHarness, OfAgents, OfSignIn
<1> QED BY <1>1, <1>2

\* An event is of a session.
LEMMA EventHasSession ==
  \A e \in Slack!Events : \A m \in Messages : Slack!Session(e, m) \in Slack!Sessions
BY DEF Slack!Events, Slack!Session, Slack!Sessions

\* There are no events and no replies at first.
LEMMA SlackStarts == Slack!Init => SlackInv
<1> SUFFICES ASSUME Slack!Init PROVE SlackInv
  OBVIOUS
<1> USE DEF Slack!Init
<1>1. SlackTypes
  BY DEF SlackTypes, SlackReplies
<1>2. EventsInOrder
  BY DEF EventsInOrder
<1>3. LatestPending
  BY DEF LatestPending
<1>4. AcksOwn
  BY DEF AcksOwn
<1>5. DoneByReplies
  BY DEF DoneByReplies
<1>6. ThreadsStarted
  BY DEF ThreadsStarted
<1>7. RepliesHaveSessions
  BY DEF RepliesHaveSessions
<1> QED BY <1>1, <1>2, <1>3, <1>4, <1>5, <1>6, <1>7 DEF SlackInv

\* A message that is taken is the latest of its session.
LEMMA AcceptsKeepsSlack ==
  ASSUME SlackInv, NEW m \in Messages, Slack!Accepts(m)
  PROVE  SlackInv'
<1>0. Messages \subseteq Nat /\ Chats \cap DMs = {}
  BY ChannelsConstants DEF Slack!SlackConstants
<1>1. /\ sPc[m] = "due" /\ \A n \in Messages : n < m => sPc[n] # "due"
      /\ UNCHANGED <<sActive, sMarks, sSend>>
  BY DEF Slack!Accepts
<1>2. PICK e \in Slack!Events, a \in {"react", "ignored"} :
        /\ sEvent' = [sEvent EXCEPT ![m] = e] /\ sPc' = [sPc EXCEPT ![m] = a]
        /\ a = "react" => Slack!Addressed(e) /\ sAckPending' = [sAckPending EXCEPT ![Slack!Session(e, m)] = m]
        /\ a = "ignored" => UNCHANGED sAckPending
  BY DEF Slack!Accepts
<1> DEFINE t == Slack!Session(e, m)
<1>3. t \in Slack!Sessions
  BY EventHasSession
<1> HIDE DEF t
<1>4. /\ \A n \in Messages : sPc'[n] = IF n = m THEN a ELSE sPc[n]
      /\ \A n \in Messages : sEvent'[n] = IF n = m THEN e ELSE sEvent[n]
      /\ \A s \in Slack!Sessions : sAckPending'[s] = IF a = "react" /\ s = t THEN m ELSE sAckPending[s]
  BY <1>2, <1>3 DEF SlackInv, SlackTypes, t
<1>5. \A s \in Slack!Sessions : \A n \in Messages :
        n \in TakenOf'[s] <=> IF n = m THEN a = "react" /\ s = t ELSE n \in TakenOf[s]
  <2> SUFFICES ASSUME NEW s \in Slack!Sessions, NEW n \in Messages
               PROVE  n \in TakenOf'[s] <=> IF n = m THEN a = "react" /\ s = t ELSE n \in TakenOf[s]
    OBVIOUS
  <2>1. n \in TakenOf'[s] <=> sPc'[n] \in {"react", "handed"} /\ Slack!Session(sEvent'[n], n) = s
    BY DEF TakenOf
  <2>2. n \in TakenOf[s] <=> sPc[n] \in {"react", "handed"} /\ Slack!Session(sEvent[n], n) = s
    BY DEF TakenOf
  <2> QED BY <1>2, <1>4, <2>1, <2>2 DEF t
<1>6. \A s \in Slack!Sessions : TakenOf[s] \subseteq Messages /\ TakenOf'[s] \subseteq Messages /\ m \notin TakenOf[s]
  BY <1>1 DEF TakenOf
<1>7. SlackTypes'
  <2>1. sPc' \in [Messages -> {"due", "react", "handed", "ignored"}]
    BY <1>2 DEF SlackInv, SlackTypes
  <2>2. sEvent' \in [Messages -> Slack!Events \cup {Slack!NoSession}]
    BY <1>2 DEF SlackInv, SlackTypes
  <2>3. sAckPending' \in [Slack!Sessions -> {0} \cup Messages]
    BY <1>2 DEF SlackInv, SlackTypes
  <2>4. \A n \in Messages : sPc'[n] # "due" => sEvent'[n] \in Slack!Events
    BY <1>4 DEF SlackInv, SlackTypes
  <2> QED BY <1>1, <2>1, <2>2, <2>3, <2>4 DEF SlackInv, SlackTypes
<1>8. EventsInOrder'
  <2>1. \A k, n \in Messages : sPc'[k] = "due" /\ sPc'[n] # "due" => n < k
    BY <1>0, <1>1, <1>2, <1>4 DEF SlackInv, EventsInOrder
  <2> QED BY <2>1 DEF EventsInOrder
<1>9. LatestPending'
  <2> SUFFICES ASSUME NEW s \in Slack!Sessions, sAckPending'[s] # 0
               PROVE  sAckPending'[s] \in TakenOf'[s] /\ \A n \in TakenOf'[s] : n <= sAckPending'[s]
    BY DEF LatestPending
  <2>1. CASE a = "react" /\ s = t
    <3>1. sAckPending'[s] = m /\ m \in TakenOf'[s]
      BY <1>4, <1>5, <2>1
    <3>2. \A n \in TakenOf[s] : n < m
      BY <1>0, <1>1, <1>6 DEF SlackInv, EventsInOrder, TakenOf
    <3>3. \A n \in TakenOf'[s] : n = m \/ n \in TakenOf[s]
      BY <1>5, <1>6
    <3>4. m \in Nat /\ \A n \in TakenOf[s] : n \in Nat
      BY <1>0, <1>6
    <3> QED BY <3>1, <3>2, <3>3, <3>4
  <2>2. CASE ~(a = "react" /\ s = t)
    <3>1. sAckPending'[s] = sAckPending[s] /\ TakenOf'[s] = TakenOf[s]
      BY <1>4, <1>5, <1>6, <2>2
    <3> QED BY <3>1 DEF SlackInv, LatestPending
  <2> QED BY <2>1, <2>2
<1>10. AcksOwn'
  <2> SUFFICES ASSUME NEW r \in Sends, sSend[r].ack # 0
               PROVE  /\ sSend[r].session \in Slack!Sessions /\ sSend[r].ack \in TakenOf'[sSend[r].session]
                      /\ \A s \in Slack!Sessions : sAckPending'[s] # sSend[r].ack
                      /\ \A q \in Sends : q # r => sSend[q].ack # sSend[r].ack
    BY <1>1 DEF SlackInv, AcksOwn
  <2>1. /\ sSend[r].session \in Slack!Sessions /\ sSend[r].ack \in TakenOf[sSend[r].session]
        /\ \A s \in Slack!Sessions : sAckPending[s] # sSend[r].ack
        /\ \A q \in Sends : q # r => sSend[q].ack # sSend[r].ack
    BY DEF SlackInv, AcksOwn
  <2>2. sSend[r].ack \in Messages /\ sSend[r].ack # m
    BY <1>6, <2>1
  <2> QED BY <1>4, <1>5, <2>1, <2>2
<1>11. DoneByReplies'
  BY <1>1 DEF SlackInv, DoneByReplies
<1>12. ThreadsStarted'
  <2>1. \A x : Started(x)' <=> Started(x)
    BY <1>1 DEF Started
  <2>2. ASSUME NEW n \in Messages, sPc'[n] \in {"react", "handed"}, sEvent'[n].channel \in Chats,
               sEvent'[n].mentions # TRUE
        PROVE  \E r \in Sends : sSend[r].at # "idle" /\ sSend[r].session.root = sEvent'[n].thread
    <3>1. CASE n = m
      <4>1. a = "react" /\ sEvent'[n] = e
        BY <1>2, <1>4, <2>2, <3>1
      <4>2. e.channel \notin DMs /\ e.mentions = FALSE
        BY <1>0, <2>2, <4>1 DEF Slack!Events
      <4>3. e.thread \in sActive
        BY <1>2, <4>1, <4>2 DEF Slack!Addressed
      <4> QED BY <4>1, <4>3 DEF SlackInv, ThreadsStarted, Started
    <3>2. CASE n # m
      <4>1. sPc[n] \in {"react", "handed"} /\ sEvent'[n] = sEvent[n]
        BY <1>4, <2>2, <3>2
      <4> QED BY <2>2, <4>1 DEF SlackInv, ThreadsStarted, Started
    <3> QED BY <3>1, <3>2
  <2>3. \A x \in sActive' : \E r \in Sends : sSend[r].at # "idle" /\ sSend[r].session.root = x
    BY <1>1 DEF SlackInv, ThreadsStarted, Started
  <2> QED BY <1>1, <2>2, <2>3 DEF ThreadsStarted, Started
<1>13. RepliesHaveSessions'
  BY <1>1 DEF SlackInv, RepliesHaveSessions
<1> QED BY <1>7, <1>8, <1>9, <1>10, <1>11, <1>12, <1>13 DEF SlackInv

\* The hourglass is no reply's mark.
LEMMA ReactsKeepsSlack ==
  ASSUME SlackInv, NEW m \in Messages, Slack!Reacts(m)
  PROVE  SlackInv'
<1>1. /\ sPc[m] = "react" /\ sPc' = [sPc EXCEPT ![m] = "handed"]
      /\ sMarks' = [sMarks EXCEPT ![m] = @ \cup {"hourglass"}] \/ UNCHANGED sMarks
      /\ UNCHANGED <<sEvent, sAckPending, sActive, sSend>>
  BY DEF Slack!Reacts
<1>2. \A n \in Messages : /\ sPc'[n] = IF n = m THEN "handed" ELSE sPc[n]
                          /\ "done" \in sMarks'[n] <=> "done" \in sMarks[n]
  BY <1>1 DEF SlackInv, SlackTypes
<1>3. TakenOf' = TakenOf
  BY <1>1, <1>2 DEF TakenOf
<1>4. SlackTypes'
  BY <1>1, <1>2 DEF SlackInv, SlackTypes
<1>5. EventsInOrder'
  BY <1>1, <1>2 DEF SlackInv, EventsInOrder
<1>6. LatestPending' /\ AcksOwn'
  BY <1>1, <1>3 DEF SlackInv, LatestPending, AcksOwn
<1>7. DoneByReplies' /\ RepliesHaveSessions'
  BY <1>1, <1>2 DEF SlackInv, DoneByReplies, RepliesHaveSessions
<1>8. ThreadsStarted'
  BY <1>1, <1>2 DEF SlackInv, ThreadsStarted, Started
<1> QED BY <1>4, <1>5, <1>6, <1>7, <1>8 DEF SlackInv

\* A thread is the bot's from the reply on that begins in it.
LEMMA StartsKeepsSlack ==
  ASSUME SlackInv, NEW r \in Sends, Slack!Starts(r)
  PROVE  SlackInv'
<1>1. PICK m \in Messages : /\ sPc[m] = "handed"
        /\ LET s == Slack!Session(sEvent[m], m)
           IN /\ sSend' = [sSend EXCEPT ![r].at = "post", ![r].session = s]
              /\ sActive' = IF s.root = 0 THEN sActive ELSE sActive \cup {s.root}
  BY DEF Slack!Starts
<1>2. sSend[r].at = "idle" /\ UNCHANGED <<sEvent, sPc, sAckPending, sMarks>>
  BY DEF Slack!Starts
<1> DEFINE s == Slack!Session(sEvent[m], m)
<1>3. s \in Slack!Sessions
  BY <1>1, EventHasSession DEF SlackInv, SlackTypes
<1>4. sSend' = [sSend EXCEPT ![r].at = "post", ![r].session = s] /\ sActive' \subseteq sActive \cup {s.root}
  BY <1>1
<1> HIDE DEF s
<1>5. \A q \in Sends : /\ sSend'[q].at = (IF q = r THEN "post" ELSE sSend[q].at)
                       /\ sSend'[q].session = (IF q = r THEN s ELSE sSend[q].session)
                       /\ sSend'[q].ack = sSend[q].ack
  BY <1>4 DEF SlackInv, SlackTypes, SlackReplies
<1>6. TakenOf' = TakenOf
  BY <1>2 DEF TakenOf
<1>7. SlackTypes'
  <2>1. \A q \in Sends : sSend[q] \in SlackReplies
    BY DEF SlackInv, SlackTypes
  <2>2. [sSend[r] EXCEPT !.at = "post", !.session = s] \in SlackReplies
    BY <1>3, <2>1 DEF SlackReplies
  <2>3. sSend' = [sSend EXCEPT ![r] = [sSend[r] EXCEPT !.at = "post", !.session = s]]
    BY <1>4 DEF SlackInv, SlackTypes
  <2>4. sSend' \in [Sends -> SlackReplies]
    BY <2>2, <2>3 DEF SlackInv, SlackTypes
  <2> QED BY <1>2, <2>4 DEF SlackInv, SlackTypes
<1>8. EventsInOrder' /\ LatestPending'
  BY <1>2, <1>6 DEF SlackInv, EventsInOrder, LatestPending
<1>9. AcksOwn'
  BY <1>2, <1>5, <1>6 DEF SlackInv, AcksOwn
<1>10. DoneByReplies'
  BY <1>2, <1>5 DEF SlackInv, DoneByReplies
<1>11. ThreadsStarted'
  <2>1. \A x : Started(x) => Started(x)'
    BY <1>2, <1>5 DEF Started
  <2>2. \E q \in Sends : sSend'[q].at # "idle" /\ sSend'[q].session.root = s.root
    BY <1>5
  <2>3. ASSUME NEW x \in sActive'
        PROVE  \E q \in Sends : sSend'[q].at # "idle" /\ sSend'[q].session.root = x
    <3>1. x = s.root \/ Started(x)'
      BY <1>4, <2>1 DEF SlackInv, ThreadsStarted
    <3> QED BY <2>2, <3>1 DEF Started
  <2>4. ASSUME NEW n \in Messages, sPc[n] \in {"react", "handed"}, sEvent[n].channel \in Chats, sEvent[n].mentions # TRUE
        PROVE  Started(sEvent[n].thread)'
    BY <1>2, <2>1, <2>4 DEF SlackInv, ThreadsStarted, Started
  <2> QED BY <1>2, <2>3, <2>4 DEF ThreadsStarted, Started
<1>12. RepliesHaveSessions'
  BY <1>3, <1>5 DEF SlackInv, RepliesHaveSessions
<1> QED BY <1>7, <1>8, <1>9, <1>10, <1>11, <1>12 DEF SlackInv

\* A reply that was posted takes what is pending.
LEMMA PopsKeepsSlack ==
  ASSUME SlackInv, NEW r \in Sends, Slack!Pops(r)
  PROVE  SlackInv'
<1> DEFINE s == sSend[r].session
           a == sAckPending[s]
           b == IF a = 0 THEN "done" ELSE "unreact"
<1>1. /\ sSend[r].at = "posted" /\ sAckPending' = [sAckPending EXCEPT ![s] = 0]
      /\ sSend' = [sSend EXCEPT ![r].ack = a, ![r].at = b]
      /\ UNCHANGED <<sEvent, sPc, sActive, sMarks>>
  BY DEF Slack!Pops, Slack!AckPopped
<1>2. s \in Slack!Sessions /\ a \in {0} \cup Messages
  BY <1>1 DEF SlackInv, SlackTypes, RepliesHaveSessions
<1>3. b \in {"done", "unreact"} /\ (b = "unreact" <=> a # 0)
  OBVIOUS
<1>4. sSend[r].ack = 0
  BY <1>1 DEF SlackInv, AcksOwn
<1>5. a # 0 => a \in TakenOf[s] /\ \A q \in Sends : sSend[q].ack # a
  BY <1>2, <1>4 DEF SlackInv, LatestPending, AcksOwn
<1>6. \A t \in Slack!Sessions : t # s /\ sAckPending[t] # 0 => sAckPending[t] # a
  BY <1>2 DEF SlackInv, LatestPending, TakenOf
<1> HIDE DEF b
<1>7. \A q \in Sends : /\ sSend'[q].at = (IF q = r THEN b ELSE sSend[q].at)
                       /\ sSend'[q].session = sSend[q].session
                       /\ sSend'[q].ack = (IF q = r THEN a ELSE sSend[q].ack)
  BY <1>1 DEF SlackInv, SlackTypes, SlackReplies
<1>8. \A t \in Slack!Sessions : sAckPending'[t] = IF t = s THEN 0 ELSE sAckPending[t]
  BY <1>1 DEF SlackInv, SlackTypes
<1>9. TakenOf' = TakenOf
  BY <1>1 DEF TakenOf
<1>10. SlackTypes'
  <2>1. sSend' \in [Sends -> SlackReplies]
    BY <1>1, <1>2, <1>3 DEF SlackInv, SlackTypes, SlackReplies
  <2>2. sAckPending' \in [Slack!Sessions -> {0} \cup Messages]
    BY <1>1 DEF SlackInv, SlackTypes
  <2> QED BY <1>1, <2>1, <2>2 DEF SlackInv, SlackTypes
<1>11. EventsInOrder'
  BY <1>1 DEF SlackInv, EventsInOrder
<1>12. LatestPending'
  BY <1>8, <1>9 DEF SlackInv, LatestPending
<1>13. AcksOwn'
  <2> SUFFICES ASSUME NEW q \in Sends
               PROVE  /\ sSend'[q].at \in {"idle", "post", "posted"} => sSend'[q].ack = 0
                      /\ sSend'[q].at \in {"unreact", "react"} => sSend'[q].ack # 0
                      /\ sSend'[q].ack # 0 =>
                           /\ sSend'[q].session \in Slack!Sessions /\ sSend'[q].ack \in TakenOf[sSend'[q].session]
                           /\ \A t \in Slack!Sessions : sAckPending'[t] # sSend'[q].ack
                           /\ \A p \in Sends : p # q => sSend'[p].ack # sSend'[q].ack
    BY <1>9 DEF AcksOwn
  <2>1. CASE q = r
    <3>1. sSend'[q].at = b /\ sSend'[q].ack = a /\ sSend'[q].session = s
      BY <1>7, <2>1
    <3>2. ASSUME a # 0
          PROVE  /\ \A t \in Slack!Sessions : sAckPending'[t] # a
                 /\ \A p \in Sends : p # q => sSend'[p].ack # a
      BY <1>5, <1>6, <1>7, <1>8, <2>1, <3>2
    <3> HIDE DEF a, s
    <3> QED BY <1>2, <1>3, <1>5, <3>1, <3>2
  <2>2. CASE q # r
    <3>1. sSend'[q].at = sSend[q].at /\ sSend'[q].ack = sSend[q].ack /\ sSend'[q].session = sSend[q].session
      BY <1>7, <2>2
    <3>2. /\ sSend[q].at \in {"idle", "post", "posted"} => sSend[q].ack = 0
          /\ sSend[q].at \in {"unreact", "react"} => sSend[q].ack # 0
          /\ sSend[q].ack # 0 =>
               /\ sSend[q].session \in Slack!Sessions /\ sSend[q].ack \in TakenOf[sSend[q].session]
               /\ \A t \in Slack!Sessions : sAckPending[t] # sSend[q].ack
               /\ \A p \in Sends : p # q => sSend[p].ack # sSend[q].ack
      BY DEF SlackInv, AcksOwn
    <3>3. sSend[q].ack # 0 => a # sSend[q].ack
      BY <1>5
    <3> HIDE DEF a, s
    <3> QED BY <1>7, <1>8, <3>1, <3>2, <3>3
  <2> QED BY <2>1, <2>2
<1>14. DoneByReplies'
  <2>1. \A n \in Messages : "done" \in sMarks[n] => n # 0 /\ \E q \in Sends : sSend[q].ack = n
    BY ChannelsConstants DEF SlackInv, DoneByReplies, Slack!SlackConstants
  <2>2. \A n \in Messages : "done" \in sMarks[n] => \E q \in Sends : sSend'[q].ack = n
    BY <1>4, <1>7, <2>1
  <2> QED BY <1>1, <2>2 DEF DoneByReplies
<1>15. ThreadsStarted'
  <2>1. \A x : Started(x) => Started(x)'
    BY <1>1, <1>3, <1>7 DEF Started
  <2>2. ASSUME NEW n \in Messages, sPc[n] \in {"react", "handed"}, sEvent[n].channel \in Chats, sEvent[n].mentions # TRUE
        PROVE  Started(sEvent[n].thread)'
    <3>1. Started(sEvent[n].thread)
      BY <2>2 DEF SlackInv, ThreadsStarted
    <3> QED BY <1>1, <2>1, <3>1 DEF Started
  <2> QED BY <1>1, <2>1, <2>2 DEF SlackInv, ThreadsStarted
<1>16. RepliesHaveSessions'
  BY <1>1, <1>2, <1>7 DEF SlackInv, RepliesHaveSessions
<1> QED BY <1>10, <1>11, <1>12, <1>13, <1>14, <1>15, <1>16 DEF SlackInv

\* A reply that is posted, or that swaps its mark, keeps what it is to.
LEMMA SwapsKeepsSlack ==
  ASSUME SlackInv, NEW r \in Sends, Slack!Posts(r) \/ Slack!Swaps(r)
  PROVE  SlackInv'
<1>1. PICK b \in {"posted", "failed", "react", "done"} :
        /\ sSend' = [sSend EXCEPT ![r].at = b]
        /\ sSend[r].at = "post" => b \in {"posted", "failed"}
        /\ sSend[r].at # "post" => b \in {"react", "done"}
  BY DEF Slack!Posts, Slack!Swaps
<1>2. /\ sSend[r].at \in {"post", "unreact", "react"}
      /\ UNCHANGED <<sEvent, sPc, sAckPending, sActive>>
  BY DEF Slack!Posts, Slack!Swaps
<1>3. \/ UNCHANGED sMarks
      \/ sMarks' = [sMarks EXCEPT ![sSend[r].ack] = @ \ {"hourglass"}]
      \/ sMarks' = [sMarks EXCEPT ![sSend[r].ack] = @ \cup {"done"}]
  BY DEF Slack!Posts, Slack!Swaps
<1>4. \A q \in Sends : /\ sSend'[q].at = (IF q = r THEN b ELSE sSend[q].at)
                       /\ sSend'[q].session = sSend[q].session /\ sSend'[q].ack = sSend[q].ack
  BY <1>1 DEF SlackInv, SlackTypes, SlackReplies
<1>5. TakenOf' = TakenOf
  BY <1>2 DEF TakenOf
<1>6. SlackTypes'
  <2>1. sSend' \in [Sends -> SlackReplies]
    BY <1>1 DEF SlackInv, SlackTypes, SlackReplies
  <2>2. sMarks' \in [Messages -> SUBSET {"hourglass", "done"}]
    BY <1>3 DEF SlackInv, SlackTypes
  <2> QED BY <1>2, <2>1, <2>2 DEF SlackInv, SlackTypes
<1>7. EventsInOrder' /\ LatestPending'
  BY <1>2, <1>5 DEF SlackInv, EventsInOrder, LatestPending
<1>8. AcksOwn'
  BY <1>1, <1>2, <1>4, <1>5 DEF SlackInv, AcksOwn
<1>9. DoneByReplies'
  BY <1>3, <1>4 DEF SlackInv, SlackTypes, DoneByReplies
<1>10. ThreadsStarted'
  <2>1. \A x : Started(x) => Started(x)'
    BY <1>1, <1>4 DEF Started
  <2>2. \A n \in Messages : sPc[n] \in {"react", "handed"} /\ sEvent[n].channel \in Chats /\ sEvent[n].mentions # TRUE =>
          Started(sEvent[n].thread)'
    BY <1>2, <2>1 DEF SlackInv, ThreadsStarted, Started
  <2> QED BY <1>2, <2>1, <2>2 DEF SlackInv, ThreadsStarted
<1>11. RepliesHaveSessions'
  BY <1>2, <1>4 DEF SlackInv, RepliesHaveSessions
<1> QED BY <1>6, <1>7, <1>8, <1>9, <1>10, <1>11 DEF SlackInv

\* Every step of the channel keeps it.
LEMMA SlackKeeps ==
  ASSUME SlackInv, [Slack!Next]_Slack!vars
  PROVE  SlackInv'
<1>1. CASE UNCHANGED Slack!vars
  <2>1. UNCHANGED <<sEvent, sPc, sAckPending, sActive, sMarks, sSend>>
    BY <1>1 DEF Slack!vars
  <2>2. TakenOf' = TakenOf
    BY <2>1 DEF TakenOf
  <2>3. SlackTypes' /\ EventsInOrder' /\ RepliesHaveSessions'
    BY <2>1 DEF SlackInv, SlackTypes, EventsInOrder, RepliesHaveSessions
  <2>4. LatestPending' /\ AcksOwn'
    BY <2>1, <2>2 DEF SlackInv, LatestPending, AcksOwn
  <2>5. DoneByReplies' /\ ThreadsStarted'
    BY <2>1 DEF SlackInv, DoneByReplies, ThreadsStarted, Started
  <2> QED BY <2>3, <2>4, <2>5 DEF SlackInv
<1> QED BY <1>1, AcceptsKeepsSlack, ReactsKeepsSlack, StartsKeepsSlack, PopsKeepsSlack, SwapsKeepsSlack
     DEF Slack!Next

\* Marks follow the replies, then.
LEMMA MarksFollow == SlackInv => Slack!MarksFollowReplies
<1> SUFFICES ASSUME SlackInv PROVE Slack!MarksFollowReplies
  OBVIOUS
<1>1. ASSUME NEW r \in Sends, sSend[r].ack # 0
      PROVE  /\ sSend[r].session = Slack!Session(sEvent[sSend[r].ack], sSend[r].ack)
             /\ \A q \in Sends : q # r => sSend[q].ack # sSend[r].ack
  BY <1>1 DEF SlackInv, AcksOwn, TakenOf
<1>2. \A m \in Messages : "done" \in sMarks[m] => \E r \in Sends : sSend[r].ack = m
  BY DEF SlackInv, DoneByReplies
<1>3. \A s \in Slack!Sessions : sAckPending[s] # 0 =>
        \A m \in Messages :
          sPc[m] \in {"react", "handed"} /\ Slack!Session(sEvent[m], m) = s => m <= sAckPending[s]
  BY DEF SlackInv, LatestPending, TakenOf
<1>4. ASSUME NEW m \in Messages, sPc[m] \in {"react", "handed"}, sEvent[m].channel \in Chats, ~sEvent[m].mentions
      PROVE  \E r \in Sends : sSend[r].at # "idle" /\ sSend[r].session.root = sEvent[m].thread
  <2>1. sEvent[m].mentions # TRUE
    BY <1>4
  <2> QED BY <1>4, <2>1 DEF SlackInv, ThreadsStarted, Started
<1> QED BY <1>1, <1>2, <1>3, <1>4 DEF Slack!MarksFollowReplies

-----------------------------------------------------------------------------
(* Discord: the chunks of a text *)

\* The order of the natural numbers is well founded,
LEMMA NatOrder == \E R : IsWellFoundedOn(R, Nat) /\ \A x, y \in Nat : x < y => <<x, y>> \in R
<1>1. IsWellFoundedOn(OpToRel(<, Nat), Nat)
  BY NatLessThanWellFounded, Zenon
<1>2. \A x, y \in Nat : x < y => <<x, y>> \in OpToRel(<, Nat)
  BY DEF OpToRel
<1> QED BY <1>1, <1>2, Zenon

\* so that a set of them has a least element,
LEMMA Least ==
  ASSUME NEW S, S \subseteq Nat, S # {} PROVE \E m \in S : \A k \in S : m <= k
<1>1. PICK R : IsWellFoundedOn(R, Nat) /\ \A x, y \in Nat : x < y => <<x, y>> \in R
  BY NatOrder
<1>2. \A T \in SUBSET Nat : T # {} => \E x \in T : \A y \in T : ~ (<<y, x>> \in R)
  <2>1. IsWellFoundedOn(R, Nat)
    BY <1>1
  <2> TAKE T \in SUBSET Nat
  <2> HAVE T # {}
  <2>2. T \subseteq Nat
    OBVIOUS
  <2> QED BY <2>1, <2>2, WFMin
<1>3. PICK x \in S : \A y \in S : ~ (<<y, x>> \in R)
  BY <1>2
<1>4. \A y \in S : ~(y < x)
  BY <1>1, <1>3
<1> QED BY <1>3, <1>4

\* and one that is bounded a greatest.
LEMMA Greatest ==
  ASSUME NEW S, S \subseteq Nat, S # {}, NEW top \in Nat, \A k \in S : k <= top
  PROVE  \E m \in S : \A k \in S : k <= m
<1> DEFINE below == {top - k : k \in S}
<1>1. below \subseteq Nat /\ below # {}
  <2>1. \A k \in S : top - k \in Nat
    OBVIOUS
  <2>2. PICK k \in S : TRUE
    OBVIOUS
  <2>3. top - k \in below
    OBVIOUS
  <2> QED BY <2>1, <2>3
<1>2. PICK d \in below : \A k \in below : d <= k
  <2> HIDE DEF below
  <2> QED BY <1>1, Least
<1>3. PICK m \in S : d = top - m
  BY <1>2
<1>4. \A k \in S : top - m <= top - k
  BY <1>2, <1>3
<1> QED BY <1>3, <1>4

\* What a step makes of a value, again and again,
Iterated(f, a, step) == f[0] = a /\ \A n \in Nat : f[n + 1] = step[f[n]]

\* is a function too.
LEMMA Iterates ==
  ASSUME NEW S, NEW a \in S, NEW step \in [S -> S]
  PROVE  \E f \in [Nat -> S] : Iterated(f, a, step)
<1> DEFINE Upto(n, g) ==
      g \in [0..n -> S] /\ g[0] = a /\ \A k \in 0 .. n - 1 : g[k + 1] = step[g[k]]
<1>1. \A n \in Nat : \E g : Upto(n, g)
  <2> DEFINE bad == {n \in Nat : ~\E g : Upto(n, g)}
  <2> SUFFICES ASSUME bad # {} PROVE FALSE
    OBVIOUS
  <2>1. PICK m \in bad : \A k \in bad : m <= k
    <3>1. bad \subseteq Nat
      OBVIOUS
    <3> HIDE DEF bad
    <3> QED BY <3>1, Least
  <2>2. m \in Nat /\ ~\E g : Upto(m, g)
    BY <2>1
  <2>3. m # 0
    <3> SUFFICES ASSUME m = 0 PROVE FALSE
      OBVIOUS
    <3>1. Upto(0, [k \in 0..0 |-> a])
      OBVIOUS
    <3> QED BY <3>1, <2>2
  <2>4. m - 1 \in Nat /\ m - 1 \notin bad
    <3> HIDE DEF bad
    <3> QED BY <2>1, <2>2, <2>3
  <2>5. PICK g : Upto(m - 1, g)
    BY <2>4
  <2> DEFINE h == [k \in 0..m |-> IF k = m THEN step[g[m - 1]] ELSE g[k]]
  <2>6. g \in [0 .. m - 1 -> S] /\ g[0] = a /\ \A k \in 0 .. m - 2 : g[k + 1] = step[g[k]]
    BY <2>2, <2>4, <2>5
  <2>7. h \in [0..m -> S]
    BY <2>6, <2>2, <2>4
  <2>8. h[0] = a
    BY <2>6, <2>2, <2>3
  <2>9. ASSUME NEW k \in 0 .. m - 1 PROVE h[k + 1] = step[h[k]]
    BY <2>6, <2>2, <2>4
  <2>10. Upto(m, h)
    <3> HIDE DEF h
    <3> QED BY <2>7, <2>8, <2>9
  <2> QED BY <2>10, <2>2
<1>2. ASSUME NEW n \in Nat, NEW g, NEW h, Upto(n, g), Upto(n + 1, h) PROVE g[n] = h[n]
  <2> DEFINE bad == {k \in 0..n : g[k] # h[k]}
  <2> SUFFICES ASSUME bad # {} PROVE FALSE
    OBVIOUS
  <2>1. PICK m \in bad : \A k \in bad : m <= k
    <3>1. bad \subseteq Nat
      OBVIOUS
    <3> HIDE DEF bad
    <3> QED BY <3>1, Least
  <2>2. m \in 0..n /\ g[m] # h[m] /\ m # 0
    BY <2>1, <1>2
  <2>3. m - 1 \in 0 .. n - 1 /\ m - 1 \notin bad
    <3> HIDE DEF bad
    <3> QED BY <2>1, <2>2
  <2>4. g[m - 1] = h[m - 1]
    BY <2>3
  <2>5. g[m] = step[g[m - 1]] /\ h[m] = step[h[m - 1]]
    <3>1. m - 1 + 1 = m /\ m - 1 \in 0 .. n - 1 /\ m - 1 \in 0 .. n + 1 - 1
      BY <2>2, <2>3
    <3>2. \A k \in 0 .. n - 1 : g[k + 1] = step[g[k]]
      BY <1>2
    <3>3. \A k \in 0 .. n + 1 - 1 : h[k + 1] = step[h[k]]
      BY <1>2
    <3>4. g[m - 1 + 1] = step[g[m - 1]] /\ h[m - 1 + 1] = step[h[m - 1]]
      BY <3>1, <3>2, <3>3
    <3> QED BY <3>1, <3>4
  <2> QED BY <2>2, <2>4, <2>5
<1> DEFINE it(n) == CHOOSE g : Upto(n, g)
           f == [n \in Nat |-> it(n)[n]]
<1>3. \A n \in Nat : Upto(n, it(n))
  BY <1>1
<1> HIDE DEF it
<1>4. \A n \in Nat : f[n] = it(n)[n]
  OBVIOUS
<1>5. ASSUME NEW n \in Nat PROVE f[n] \in S
  BY <1>3, <1>4
<1>6. f[0] = a
  BY <1>3, <1>4
<1>7. ASSUME NEW n \in Nat PROVE f[n + 1] = step[f[n]]
  <2>1. Upto(n, it(n)) /\ Upto(n + 1, it(n + 1))
    BY <1>3
  <2>2. it(n)[n] = it(n + 1)[n]
    <3> HIDE DEF Upto
    <3> QED BY <2>1, <1>2, Zenon
  <2>3. it(n + 1)[n + 1] = step[it(n + 1)[n]]
    BY <2>1
  <2>4. f[n] = it(n)[n] /\ f[n + 1] = it(n + 1)[n + 1]
    BY <1>4
  <2> QED BY <2>2, <2>3, <2>4
<1>8. f \in [Nat -> S]
  BY <1>5
<1> HIDE DEF f
<1>9. Iterated(f, a, step)
  BY <1>6, <1>7 DEF Iterated
<1> QED BY <1>8, <1>9

\* A chunk with another after it takes one place at least, and no more than the limit.
LEMMA SplitFits ==
  ASSUME NEW t, NEW b \in Nat, NEW l \in Nat, l = Len(t), ~Discord!Fits(t, b)
  PROVE  Discord!SplitAt(t, b) \in 1..Limit /\ b + Limit <= l
<1> DEFINE breaks == {i \in 1 .. Limit - 1 : t[b + i] = "\n"}
<1>1. Limit \in Nat \ {0} /\ b + Limit <= l
  BY ChannelsConstants DEF Discord!DiscordConstants, Discord!Fits
<1>2. CASE breaks = {}
  <2>1. Discord!SplitAt(t, b) = Limit
    BY <1>2 DEF Discord!SplitAt
  <2> QED BY <1>1, <2>1
<1>3. CASE breaks # {}
  <2>1. breaks \subseteq Nat /\ \A k \in breaks : k <= Limit
    BY <1>1
  <2>2. \E i \in breaks : \A k \in breaks : k <= i
    <3> HIDE DEF breaks
    <3> QED BY <1>1, <1>3, <2>1, Greatest
  <2>3. Discord!SplitAt(t, b) = CHOOSE i \in breaks : \A k \in breaks : k <= i
    BY <1>3 DEF Discord!SplitAt
  <2>4. Discord!SplitAt(t, b) \in breaks
    BY <2>2, <2>3
  <2> QED BY <1>1, <2>4
<1> QED BY <1>2, <1>3

\* Where it ends, no blank follows that it would have taken.
LEMMA StripsRight ==
  ASSUME NEW t, NEW b \in Nat, b # 0, NEW l \in Nat, l = Len(t), ~Discord!Fits(t, b),
         NEW n, n = Discord!SplitAt(t, b)
  PROVE  /\ Discord!RStrip(t, b) \in b - 1 .. b + n - 1
         /\ \A k \in Discord!RStrip(t, b) + 1 .. b + n - 1 : t[k] \in Discord!Blank
<1> DEFINE solid == {k \in b .. b + n - 1 : t[k] \notin Discord!Blank}
           Ends(e) == /\ e >= b => t[e] \notin Discord!Blank
                      /\ \A k \in e + 1 .. b + n - 1 : t[k] \in Discord!Blank
<1>1. n \in 1..Limit /\ Limit \in Nat
  BY SplitFits, ChannelsConstants DEF Discord!DiscordConstants
<1>2. \E e \in b - 1 .. b + n - 1 : Ends(e)
  <2>1. CASE solid = {}
    <3>1. Ends(b - 1)
      <4>1. ~(b - 1 >= b) /\ b - 1 + 1 = b
        OBVIOUS
      <4>2. \A k \in b .. b + n - 1 : t[k] \in Discord!Blank
        BY <2>1
      <4> QED BY <4>1, <4>2
    <3>2. b - 1 \in b - 1 .. b + n - 1
      BY <1>1
    <3> HIDE DEF Ends
    <3> QED BY <3>1, <3>2
  <2>2. CASE solid # {}
    <3>1. solid \subseteq Nat /\ b + n - 1 \in Nat /\ \A k \in solid : k <= b + n - 1
      BY <1>1
    <3>2. PICK e \in solid : \A k \in solid : k <= e
      <4> HIDE DEF solid
      <4> QED BY <2>2, <3>1, Greatest
    <3>3. e \in b .. b + n - 1 /\ t[e] \notin Discord!Blank
      BY <3>2
    <3>4. ASSUME NEW k \in e + 1 .. b + n - 1 PROVE t[k] \in Discord!Blank
      <4>1. k \in b .. b + n - 1 /\ ~(k <= e)
        BY <1>1, <3>3
      <4> QED BY <3>2, <4>1
    <3>5. Ends(e)
      BY <3>3, <3>4
    <3>6. e \in b - 1 .. b + n - 1
      BY <3>3, <1>1
    <3> HIDE DEF Ends
    <3> QED BY <3>5, <3>6
  <2> QED BY <2>1, <2>2
<1>3. Discord!RStrip(t, b) = CHOOSE e \in b - 1 .. b + n - 1 : Ends(e)
  BY DEF Discord!RStrip
<1>4. Discord!RStrip(t, b) \in b - 1 .. b + n - 1 /\ Ends(Discord!RStrip(t, b))
  <2> HIDE DEF Ends
  <2> QED BY <1>2, <1>3
<1> QED BY <1>4

\* Only line breaks are left out before the next chunk.
LEMMA StripsLines ==
  ASSUME NEW t, NEW l \in Nat, l = Len(t), NEW p \in 1 .. l + 1
  PROVE  /\ Discord!LStripLines(t, p) \in p .. l + 1
         /\ \A k \in p .. Discord!LStripLines(t, p) - 1 : t[k] = "\n"
<1> DEFINE solid == {k \in p .. l + 1 : k = l + 1 \/ t[k] # "\n"}
           Ends(q) == /\ q <= l => t[q] # "\n"
                      /\ \A k \in p .. q - 1 : t[k] = "\n"
<1>1. solid \subseteq Nat /\ l + 1 \in solid
  OBVIOUS
<1>2. PICK q \in solid : \A k \in solid : q <= k
  <2> HIDE DEF solid
  <2> QED BY <1>1, Least
<1>3. q \in p .. l + 1 /\ (q <= l => t[q] # "\n")
  BY <1>2
<1>4. ASSUME NEW k \in p .. q - 1 PROVE t[k] = "\n"
  <2>1. k \in p .. l + 1 /\ k # l + 1 /\ ~(q <= k)
    BY <1>3
  <2> QED BY <1>2, <2>1
<1>5. Ends(q)
  BY <1>3, <1>4
<1>6. Discord!LStripLines(t, p) = CHOOSE e \in p .. l + 1 : Ends(e)
  BY DEF Discord!LStripLines
<1>7. Discord!LStripLines(t, p) \in p .. l + 1 /\ Ends(Discord!LStripLines(t, p))
  <2> HIDE DEF Ends
  <2> QED BY <1>3, <1>5, <1>6
<1> QED BY <1>7

\* The next chunk begins after the split, and nothing but line breaks is between.
LEMMA GoesOn ==
  ASSUME NEW t, NEW l \in Nat, l = Len(t), NEW b \in 1 .. l + 1
  PROVE  /\ Discord!NextBegin(t, b) \in b .. l + 1
         /\ ~Discord!Fits(t, b) =>
              /\ b + Discord!SplitAt(t, b) <= Discord!NextBegin(t, b)
              /\ \A k \in b + Discord!SplitAt(t, b) .. Discord!NextBegin(t, b) - 1 : t[k] = "\n"
<1>1. CASE Discord!Fits(t, b)
  BY <1>1 DEF Discord!NextBegin
<1>2. CASE ~Discord!Fits(t, b)
  <2> DEFINE n == Discord!SplitAt(t, b)
             q == Discord!LStripLines(t, b + n)
  <2>1. n \in 1..Limit /\ b + Limit <= l /\ Limit \in Nat
    BY <1>2, SplitFits, ChannelsConstants DEF Discord!DiscordConstants
  <2>2. Discord!NextBegin(t, b) = q
    BY <1>2 DEF Discord!NextBegin
  <2> HIDE DEF n
  <2>3. b + n \in 1 .. l + 1
    BY <2>1
  <2>4. q \in b + n .. l + 1 /\ \A k \in b + n .. q - 1 : t[k] = "\n"
    BY <2>3, StripsLines
  <2> HIDE DEF q
  <2>5. q \in b .. l + 1 /\ b + n <= q
    BY <2>1, <2>4
  <2> QED BY <2>2, <2>4, <2>5 DEF n
<1> QED BY <1>1, <1>2

\* The chunks begin with the text and each after the one before it.
LEMMA ChunksBegin ==
  ASSUME NEW t, NEW l \in Nat, l = Len(t)
  PROVE  /\ \A n \in Nat : Discord!Begins(t)[n] \in 1 .. l + 1
         /\ Discord!Begins(t)[0] = 1
         /\ \A n \in Nat : Discord!Begins(t)[n + 1] = Discord!NextBegin(t, Discord!Begins(t)[n])
<1> DEFINE P == 1 .. l + 1
           step == [b \in P |-> Discord!NextBegin(t, b)]
           At(f, n) == IF n = 0 THEN 1 ELSE Discord!NextBegin(t, f[n - 1])
           Grows(f) == f = [n \in Nat |-> At(f, n)]
<1>1. step \in [P -> P] /\ 1 \in P
  <2>1. ASSUME NEW b \in P PROVE Discord!NextBegin(t, b) \in P
    <3>1. Discord!NextBegin(t, b) \in b .. l + 1
      BY GoesOn
    <3> QED BY <3>1
  <2> QED BY <2>1
<1>2. PICK f \in [Nat -> P] : Iterated(f, 1, step)
  <2> HIDE DEF step, P
  <2> QED BY <1>1, Iterates
<1>3. f[0] = 1 /\ \A n \in Nat : f[n + 1] = Discord!NextBegin(t, f[n])
  BY <1>2 DEF Iterated
<1>4. Grows(f)
  <2>1. ASSUME NEW n \in Nat
        PROVE  f[n] = At(f, n)
    <3>1. CASE n = 0
      BY <1>3, <3>1
    <3>2. CASE n # 0
      <4>1. n - 1 \in Nat /\ n - 1 + 1 = n
        BY <3>2
      <4>2. f[n - 1 + 1] = Discord!NextBegin(t, f[n - 1])
        BY <4>1, <1>3
      <4> QED BY <4>1, <4>2, <3>2
    <3> QED BY <3>1, <3>2
  <2> HIDE DEF At, P
  <2> QED BY <2>1, <1>2
<1>5. Discord!Begins(t) = CHOOSE g : Grows(g)
  BY DEF Discord!Begins
<1>6. \A g : Grows(g) => g[0] = 1 /\ \A n \in Nat : g[n + 1] = Discord!NextBegin(t, g[n])
  <2> TAKE g
  <2> HAVE Grows(g)
  <2>1. ASSUME NEW n \in Nat PROVE g[n + 1] = Discord!NextBegin(t, g[n])
    <3>1. n + 1 \in Nat /\ n + 1 # 0 /\ n + 1 - 1 = n
      OBVIOUS
    <3>2. g[n + 1] = At(g, n + 1)
      <4> HIDE DEF At
      <4> QED BY <3>1
    <3> QED BY <3>1, <3>2
  <2>2. g[0] = At(g, 0)
    <3> HIDE DEF At
    <3> QED OBVIOUS
  <2> QED BY <2>1, <2>2
<1> DEFINE g == Discord!Begins(t)
<1>7. Grows(g)
  <2> HIDE DEF Grows
  <2> QED BY <1>4, <1>5
<1>8. g[0] = 1 /\ \A n \in Nat : g[n + 1] = Discord!NextBegin(t, g[n])
  <2> HIDE DEF Grows, g
  <2> QED BY <1>6, <1>7
<1>9. \A n \in Nat : g[n] = f[n]
  <2> DEFINE bad == {n \in Nat : g[n] # f[n]}
  <2> SUFFICES ASSUME bad # {} PROVE FALSE
    OBVIOUS
  <2>1. PICK m \in bad : \A k \in bad : m <= k
    <3>1. bad \subseteq Nat
      OBVIOUS
    <3> HIDE DEF bad
    <3> QED BY <3>1, Least
  <2> HIDE DEF g
  <2>2. m \in Nat /\ g[m] # f[m] /\ m # 0
    BY <2>1, <1>3, <1>8
  <2>3. m - 1 \in Nat /\ m - 1 \notin bad /\ m - 1 + 1 = m
    <3> HIDE DEF bad
    <3> QED BY <2>1, <2>2
  <2>4. g[m - 1] = f[m - 1]
    BY <2>3
  <2>5. g[m - 1 + 1] = Discord!NextBegin(t, g[m - 1]) /\ f[m - 1 + 1] = Discord!NextBegin(t, f[m - 1])
    BY <2>3, <1>3, <1>8
  <2> QED BY <2>2, <2>3, <2>4, <2>5
<1>10. \A n \in Nat : g[n] \in P
  BY <1>9, <1>2
<1> QED BY <1>8, <1>10

\* A later chunk begins after what the earlier one took.
LEMMA ChunksRise ==
  ASSUME NEW t, NEW l \in Nat, l = Len(t), NEW last \in Nat,
         \A k \in 0 .. last - 1 : ~Discord!Fits(t, Discord!Begins(t)[k]),
         NEW i \in 0 .. last, NEW j \in 0 .. last, i < j
  PROVE  /\ Discord!SplitAt(t, Discord!Begins(t)[i]) \in 1..Limit
         /\ Discord!Begins(t)[i] + Discord!SplitAt(t, Discord!Begins(t)[i]) <= Discord!Begins(t)[j]
<1> DEFINE B(k) == Discord!Begins(t)[k]
           n == Discord!SplitAt(t, B(i))
           bad == {k \in i + 1 .. last : ~(B(i) + n <= B(k))}
<1>1. \A k \in 0 .. last : B(k) \in 1 .. l + 1
  <2>1. \A k \in Nat : B(k) \in 1 .. l + 1
    BY ChunksBegin, Zenon
  <2>2. \A k \in 0 .. last : k \in Nat
    OBVIOUS
  <2> HIDE DEF B
  <2> QED BY <2>1, <2>2, Zenon
<1>2. \A k \in 0 .. last - 1 : B(k + 1) = Discord!NextBegin(t, B(k))
  BY ChunksBegin
<1>3. i \in 0 .. last - 1 /\ B(i) \in Nat /\ ~Discord!Fits(t, B(i))
  BY <1>1
<1>4. n \in 1..Limit /\ n \in Nat
  <2>1. n \in 1..Limit
    BY <1>3, SplitFits
  <2> QED BY <2>1, ChannelsConstants DEF Discord!DiscordConstants
<1>5. bad = {}
  <2> SUFFICES ASSUME bad # {} PROVE FALSE
    OBVIOUS
  <2>1. PICK m \in bad : \A k \in bad : m <= k
    <3>1. bad \subseteq Nat
      OBVIOUS
    <3> HIDE DEF bad
    <3> QED BY <3>1, Least
  <2>2. m \in i + 1 .. last /\ ~(B(i) + n <= B(m)) /\ m - 1 \in 0 .. last - 1 /\ m - 1 + 1 = m
    BY <2>1
  <2>3. B(m - 1) \in 1 .. l + 1 /\ ~Discord!Fits(t, B(m - 1)) /\ B(m) = Discord!NextBegin(t, B(m - 1))
    <3> HIDE DEF B
    <3>1. B(m - 1 + 1) = Discord!NextBegin(t, B(m - 1)) /\ m - 1 \in 0 .. last
      BY <2>2, <1>2
    <3>2. B(m - 1) \in 1 .. l + 1
      BY <3>1, <1>1
    <3>3. ~Discord!Fits(t, B(m - 1))
      BY <2>2 DEF B
    <3> QED BY <2>2, <3>1, <3>2, <3>3
  <2>4. /\ B(m) \in B(m - 1) .. l + 1
        /\ B(m - 1) + Discord!SplitAt(t, B(m - 1)) <= B(m)
    <3> HIDE DEF B
    <3> QED BY <2>3, GoesOn
  <2>5. CASE m = i + 1
    <3>1. m - 1 = i
      BY <2>5
    <3>2. B(m - 1) + Discord!SplitAt(t, B(m - 1)) = B(i) + n
      BY <3>1
    <3> QED BY <2>2, <2>4, <3>2
  <2>6. CASE m # i + 1
    <3>1. m - 1 \in i + 1 .. last /\ ~(m <= m - 1)
      BY <2>2, <2>6
    <3>2. m - 1 \notin bad
      <4> HIDE DEF bad
      <4> QED BY <2>1, <3>1
    <3>3. B(i) + n <= B(m - 1)
      <4> HIDE DEF B, n
      <4> QED BY <3>1, <3>2
    <3>4. B(m) \in Nat /\ B(m - 1) <= B(m) /\ B(m - 1) \in Nat
      <4> HIDE DEF B
      <4> QED BY <2>4, <2>3
    <3>5. ~(B(i) + n <= B(m)) /\ B(i) \in Nat /\ n \in Nat
      BY <2>2, <1>3, <1>4
    <3> DEFINE x == B(m - 1)  y == B(m)  z == B(i)
    <3>6. ~(z + n <= y) /\ z \in Nat /\ z + n <= x /\ x <= y /\ x \in Nat /\ y \in Nat
      BY <3>3, <3>4, <3>5
    <3> HIDE DEF x, y, z, n
    <3> QED BY <3>5, <3>6
  <2> QED BY <2>5, <2>6
<1>6. B(i) + n <= B(j)
  <2>1. j \in i + 1 .. last
    OBVIOUS
  <2> HIDE DEF B, n
  <2> QED BY <2>1, <1>5
<1> QED BY <1>4, <1>6

\* The last chunk ends with the text.
EndsWith(t, l, last) ==
  /\ Discord!Fits(t, Discord!Begins(t)[last])
  /\ \A k \in 0 .. last - 1 : ~Discord!Fits(t, Discord!Begins(t)[k])
  /\ Discord!Chunks(t) =
       [i \in 1 .. last + 1 |->
          [from |-> Discord!Begins(t)[i - 1],
           upto |-> IF i = last + 1 THEN l ELSE Discord!RStrip(t, Discord!Begins(t)[i - 1])]]

\* There is one.
LEMMA ChunksEnd ==
  ASSUME NEW t, NEW l \in Nat, l = Len(t)
  PROVE  \E last \in 0..l : EndsWith(t, l, last)
<1> DEFINE B(k) == Discord!Begins(t)[k]
           fit == {n \in 0..l : Discord!Fits(t, B(n))}
           IsLast(n) == Discord!Fits(t, B(n)) /\ \A k \in 0 .. n - 1 : ~Discord!Fits(t, B(k))
<1>0. (\A k \in Nat : B(k) \in 1 .. l + 1) /\ B(0) = 1
  BY ChunksBegin, Zenon
<1>1. fit # {}
  <2> SUFFICES ASSUME \A n \in 0..l : ~Discord!Fits(t, B(n)) PROVE FALSE
    OBVIOUS
  <2> DEFINE bad == {n \in 0..l : ~(n < B(n))}
  <2>1. bad = {}
    <3> SUFFICES ASSUME bad # {} PROVE FALSE
      OBVIOUS
    <3>1. PICK m \in bad : \A k \in bad : m <= k
      <4>1. bad \subseteq Nat
        OBVIOUS
      <4> HIDE DEF bad
      <4> QED BY <4>1, Least
    <3>2. m \in 0..l /\ ~(m < B(m)) /\ m # 0
      <4>1. m \in 0..l /\ ~(m < B(m))
        BY <3>1
      <4> HIDE DEF B
      <4> QED BY <4>1, <1>0
    <3>3. m - 1 \in 0..l /\ m - 1 \in 0 .. m /\ m - 1 < m /\ m \in 0..m
      BY <3>2
    <3>4. m - 1 \notin bad
      <4>1. ~(m <= m - 1)
        BY <3>2
      <4> HIDE DEF bad
      <4> QED BY <3>1, <4>1
    <3>5. m - 1 < B(m - 1)
      BY <3>3, <3>4
    <3>6. B(m - 1) + Discord!SplitAt(t, B(m - 1)) <= B(m) /\ Discord!SplitAt(t, B(m - 1)) \in 1..Limit
      <4>1. m \in Nat /\ \A k \in 0 .. m - 1 : ~Discord!Fits(t, B(k))
        BY <3>2
      <4> QED BY <3>3, <4>1, ChunksRise
    <3>7. B(m - 1) \in 1 .. l + 1 /\ B(m) \in 1 .. l + 1
      <4>1. m - 1 \in Nat /\ m \in Nat
        BY <3>2, <3>3
      <4> HIDE DEF B
      <4> QED BY <1>0, <4>1, Zenon
    <3>8. Limit \in Nat
      BY ChannelsConstants DEF Discord!DiscordConstants
    <3> HIDE DEF B
    <3> QED BY <3>2, <3>5, <3>6, <3>7, <3>8
  <2>2. l \in 0..l /\ B(l) \in 1 .. l + 1
    <3>1. l \in 0..l
      OBVIOUS
    <3> HIDE DEF B
    <3> QED BY <3>1, <1>0, Zenon
  <2>3. l < B(l)
    BY <2>1, <2>2
  <2>4. Discord!Fits(t, B(l))
    BY <2>2, <2>3, ChannelsConstants DEF Discord!DiscordConstants, Discord!Fits
  <2> QED BY <2>2, <2>4
<1>2. PICK n \in fit : \A k \in fit : n <= k
  <2>1. fit \subseteq Nat
    OBVIOUS
  <2> HIDE DEF fit
  <2> QED BY <1>1, <2>1, Least
<1>3. n \in 0..l /\ Discord!Fits(t, B(n))
  BY <1>2
<1>4. ASSUME NEW k \in 0 .. n - 1 PROVE ~Discord!Fits(t, B(k))
  <2>1. k \in 0..l /\ ~(n <= k)
    BY <1>3
  <2> HIDE DEF B
  <2> QED BY <1>2, <2>1
<1> DEFINE last == CHOOSE m \in 0 .. Len(t) : IsLast(m)
<1>5. IsLast(n)
  BY <1>3, <1>4
<1>6. last \in 0..l /\ IsLast(last)
  <2> HIDE DEF IsLast
  <2> QED BY <1>3, <1>5
<1>7. Discord!Chunks(t) =
        [i \in 1 .. last + 1 |->
           [from |-> B(i - 1), upto |-> IF i = last + 1 THEN Len(t) ELSE Discord!RStrip(t, B(i - 1))]]
  BY DEF Discord!Chunks
<1> HIDE DEF last
<1> QED BY <1>6, <1>7 DEF EndsWith

\* The chunks of a text overlap nowhere, leave out nothing but blanks and fit the limit:
\* _chunk_message.
LEMMA ChunksAreTheText ==
  ASSUME NEW S, NEW t \in Seq(S) PROVE Discord!ChunksCover(t, Discord!Chunks(t))
<1> DEFINE l == Len(t)
           B(k) == Discord!Begins(t)[k]
           n(k) == Discord!SplitAt(t, B(k))
           R(k) == Discord!RStrip(t, B(k))
           cs == Discord!Chunks(t)
<1>1. l \in Nat /\ DOMAIN t = 1..l /\ Limit \in Nat \ {0}
  BY ChannelsConstants DEF Discord!DiscordConstants
<1>2. PICK last \in 0..l : EndsWith(t, l, last)
  <2>1. l \in Nat /\ l = Len(t)
    BY <1>1
  <2> HIDE DEF l
  <2> QED BY <2>1, ChunksEnd
<1>3. last \in Nat /\ DOMAIN cs = 1 .. last + 1 /\ cs[last + 1].upto = l
  BY <1>1, <1>2 DEF EndsWith
<1>4. /\ \A i \in 1 .. last + 1 : cs[i].from = B(i - 1)
      /\ \A i \in 1 .. last : cs[i].upto = R(i - 1)
  <2>1. ASSUME NEW i \in 1 .. last + 1 PROVE cs[i].from = B(i - 1)
    BY <1>2 DEF EndsWith
  <2>2. ASSUME NEW i \in 1 .. last PROVE cs[i].upto = R(i - 1)
    <3>1. i \in 1 .. last + 1 /\ i # last + 1
      BY <1>3
    <3> HIDE DEF l
    <3> QED BY <1>2, <3>1 DEF EndsWith
  <2> QED BY <2>1, <2>2
<1>5. (\A k \in Nat : B(k) \in 1 .. l + 1) /\ B(0) = 1
  BY <1>1, ChunksBegin, Zenon
\* A chunk with another after it,
<1>6. ASSUME NEW k \in 0 .. last - 1
      PROVE  /\ n(k) \in 1..Limit /\ B(k) + Limit <= l
             /\ R(k) \in B(k) - 1 .. B(k) + n(k) - 1
             /\ \A p \in R(k) + 1 .. B(k) + n(k) - 1 : t[p] \in Discord!Blank
             /\ \A p \in B(k) + n(k) .. B(k + 1) - 1 : t[p] \in Discord!Blank
  <2>1. k \in Nat /\ ~Discord!Fits(t, B(k))
    BY <1>2, <1>3 DEF EndsWith
  <2>2. B(k) \in 1 .. l + 1 /\ B(k) \in Nat /\ B(k) # 0
    <3>1. B(k) \in 1 .. l + 1
      BY <2>1, <1>5, Zenon
    <3> HIDE DEF B, l
    <3> QED BY <3>1, <1>1
  <2>3. n(k) \in 1..Limit /\ B(k) + Limit <= l
    <3> HIDE DEF B
    <3> QED BY <1>1, <2>1, <2>2, SplitFits
  <2>4. /\ R(k) \in B(k) - 1 .. B(k) + n(k) - 1
        /\ \A p \in R(k) + 1 .. B(k) + n(k) - 1 : t[p] \in Discord!Blank
    <3> HIDE DEF B
    <3> QED BY <1>1, <2>1, <2>2, StripsRight
  <2>5. B(k + 1) = Discord!NextBegin(t, B(k))
    BY <2>1, <1>1, ChunksBegin
  <2>6. \A p \in B(k) + n(k) .. Discord!NextBegin(t, B(k)) - 1 : t[p] = "\n"
    <3> HIDE DEF B
    <3> QED BY <1>1, <2>1, <2>2, GoesOn
  <2>7. \A p \in B(k) + n(k) .. B(k + 1) - 1 : t[p] \in Discord!Blank
    <3>1. \A p \in B(k) + n(k) .. B(k + 1) - 1 : t[p] = "\n"
      <4> HIDE DEF B, n
      <4> QED BY <2>5, <2>6, Zenon
    <3>2. "\n" \in Discord!Blank
      BY DEF Discord!Blank
    <3> QED BY <3>1, <3>2, Zenon
  <2> QED BY <2>3, <2>4, <2>7
\* and before that one.
<1>7. ASSUME NEW i \in 0 .. last, NEW j \in 0 .. last, i < j
      PROVE  n(i) \in 1..Limit /\ B(i) + n(i) <= B(j)
  BY <1>1, <1>2, <1>3, <1>7, ChunksRise DEF EndsWith
<1>8. ASSUME NEW i \in DOMAIN cs, NEW j \in DOMAIN cs, i < j PROVE cs[i].upto < cs[j].from
  <2>1. i \in 1 .. last /\ j \in 1 .. last + 1 /\ i - 1 \in 0 .. last - 1 /\ i - 1 \in 0 .. last
        /\ j - 1 \in 0 .. last /\ i - 1 < j - 1
    BY <1>3, <1>8
  <2>2. cs[i].upto = R(i - 1) /\ cs[j].from = B(j - 1)
    BY <1>4, <2>1
  <2>3. R(i - 1) \in B(i - 1) - 1 .. B(i - 1) + n(i - 1) - 1
    BY <1>6, <2>1
  <2>4. n(i - 1) \in 1..Limit /\ B(i - 1) + n(i - 1) <= B(j - 1)
    BY <1>7, <2>1
  <2>5. B(i - 1) \in 1 .. l + 1 /\ B(j - 1) \in 1 .. l + 1
    <3>1. i - 1 \in Nat /\ j - 1 \in Nat
      BY <2>1, <1>3
    <3> QED BY <3>1, <1>5, Zenon
  <2> DEFINE x == B(i - 1)  y == B(j - 1)  r == R(i - 1)  m == n(i - 1)
  <2>6. r \in x - 1 .. x + m - 1 /\ x + m <= y /\ x \in 1 .. l + 1 /\ y \in 1 .. l + 1 /\ m \in 1..Limit
    BY <2>3, <2>4, <2>5
  <2>7. r < y
    <3> HIDE DEF x, y, r, m, l
    <3> QED BY <2>6, <1>1
  <2> QED BY <2>2, <2>7
<1>9. ASSUME NEW p \in DOMAIN t, t[p] \notin Discord!Blank
      PROVE  \E i \in Discord!Kept(cs) : p \in cs[i].from .. cs[i].upto
  <2> DEFINE before == {k \in 0 .. last : B(k) <= p}
  <2>1. p \in 1..l
    BY <1>1
  <2>2. before # {} /\ before \subseteq Nat /\ \A k \in before : k <= last
    <3>1. 0 \in 0 .. last /\ 1 <= p
      BY <1>3, <2>1
    <3>2. B(0) <= p
      BY <3>1, <1>5
    <3> HIDE DEF B
    <3>3. 0 \in before
      BY <3>1, <3>2
    <3> HIDE DEF before
    <3>4. \A k \in before : k \in 0 .. last
      BY DEF before
    <3> QED BY <3>3, <3>4, <1>3
  <2>3. PICK k \in before : \A j \in before : j <= k
    <3> HIDE DEF before
    <3> QED BY <2>2, <1>3, Greatest
  <2>4. k \in 0 .. last /\ B(k) <= p /\ k + 1 \in 1 .. last + 1 /\ k + 1 - 1 = k
    BY <2>3, <1>3
  <2>5. cs[k + 1].from = B(k)
    <3> HIDE DEF cs, B
    <3> QED BY <1>4, <2>4
  <2>6. B(k) \in 1 .. l + 1
    <3>1. k \in Nat
      BY <2>4
    <3> QED BY <3>1, <1>5, Zenon
  <2>7. p <= cs[k + 1].upto
    <3>1. CASE k = last
      <4>1. cs[k + 1].upto = l
        BY <1>3, <3>1
      <4> QED BY <2>1, <4>1
    <3>2. CASE k # last
      <4>1. k \in 0 .. last - 1 /\ k + 1 \in 0 .. last /\ k + 1 \in 1 .. last
        BY <2>4, <3>2, <1>3
      <4>2. k + 1 \notin before
        <5>1. ~(k + 1 <= k)
          BY <2>4
        <5> HIDE DEF before
        <5> QED BY <5>1, <2>3
      <4>3. ~(B(k + 1) <= p)
        <5> HIDE DEF B
        <5> QED BY <4>1, <4>2
      <4>4. B(k + 1) \in 1 .. l + 1
        <5>1. k + 1 \in Nat
          BY <4>1
        <5> QED BY <5>1, <1>5, Zenon
      <4>5. cs[k + 1].upto = R(k)
        <5> HIDE DEF cs, R
        <5> QED BY <1>4, <2>4, <4>1
      <4>6. /\ n(k) \in 1..Limit
            /\ R(k) \in B(k) - 1 .. B(k) + n(k) - 1
            /\ \A q \in R(k) + 1 .. B(k) + n(k) - 1 : t[q] \in Discord!Blank
            /\ \A q \in B(k) + n(k) .. B(k + 1) - 1 : t[q] \in Discord!Blank
        BY <1>6, <4>1
      <4> DEFINE x == B(k)  y == B(k + 1)  r == R(k)  m == n(k)
      <4>7. /\ m \in 1..Limit /\ x \in 1 .. l + 1 /\ y \in 1 .. l + 1
            /\ ~(y <= p)
            /\ r \in x - 1 .. x + m - 1
            /\ p \notin r + 1 .. x + m - 1 /\ p \notin x + m .. y - 1
        BY <4>3, <4>4, <4>6, <2>6, <1>9
      <4>8. p <= r
        <5> HIDE DEF x, y, r, m, l
        <5> QED BY <4>7, <2>1, <1>1
      <4> QED BY <4>5, <4>8
    <3> QED BY <3>1, <3>2
  <2>8. cs[k + 1].upto \in Int
    <3>1. CASE k = last
      BY <3>1, <1>1, <1>3
    <3>2. CASE k # last
      <4>1. k \in 0 .. last - 1 /\ k + 1 \in 1 .. last
        BY <3>2, <2>4, <1>3
      <4>2. cs[k + 1].upto = R(k)
        <5> HIDE DEF cs, R
        <5> QED BY <4>1, <2>4, <1>4
      <4>3. R(k) \in B(k) - 1 .. B(k) + n(k) - 1
        BY <4>1, <1>6
      <4> QED BY <4>2, <4>3
    <3> QED BY <3>1, <3>2
  <2>9. p \in cs[k + 1].from .. cs[k + 1].upto
    <3> DEFINE x == cs[k + 1].from  y == cs[k + 1].upto
    <3>1. x \in Nat /\ x <= p /\ p <= y
      BY <2>4, <2>5, <2>6, <2>7, <1>1
    <3>2. y \in Int
      BY <2>8
    <3> HIDE DEF x, y
    <3>3. p \in x .. y
      BY <3>1, <3>2, <2>1, <1>1
    <3> QED BY <3>3 DEF x, y
  <2>10. k + 1 \in Discord!Kept(cs)
    <3>1. cs[k + 1].from <= cs[k + 1].upto
      <4> DEFINE x == cs[k + 1].from  y == cs[k + 1].upto
      <4>1. x \in Int /\ y \in Int /\ x <= p /\ p <= y
        BY <2>4, <2>5, <2>6, <2>7, <2>8, <1>1
      <4> HIDE DEF x, y
      <4>2. x <= y
        BY <4>1, <2>1, <1>1
      <4> QED BY <4>2 DEF x, y
    <3> HIDE DEF cs
    <3> QED BY <3>1, <2>4, <1>3 DEF Discord!Kept
  <2> QED BY <2>9, <2>10
<1>10. ASSUME NEW i \in DOMAIN cs
       PROVE  cs[i].upto - cs[i].from < Limit /\ {cs[i].from - 1, cs[i].upto} \subseteq 0 .. Len(t)
  <2> DEFINE x == cs[i].from  y == cs[i].upto
  <2>1. i \in 1 .. last + 1 /\ i - 1 \in 0 .. last /\ x = B(i - 1)
    <3>1. i \in 1 .. last + 1
      BY <1>3
    <3> HIDE DEF B, cs
    <3> QED BY <3>1, <1>3, <1>4
  <2>2. x \in 1 .. l + 1
    <3>1. i - 1 \in Nat
      BY <2>1, <1>3
    <3> QED BY <2>1, <3>1, <1>5, Zenon
  <2>3. CASE i = last + 1
    <3>1. y = l /\ i - 1 = last
      BY <2>3, <1>3
    <3>2. l - x < Limit
      BY <2>1, <3>1, <1>2 DEF EndsWith, Discord!Fits
    <3> HIDE DEF x, y, l
    <3>3. y - x < Limit /\ {x - 1, y} \subseteq 0 .. l
      BY <2>2, <3>1, <3>2, <1>1
    <3> QED BY <3>3 DEF x, y, l
  <2>4. CASE i # last + 1
    <3>1. i \in 1 .. last /\ i - 1 \in 0 .. last - 1
      BY <2>1, <2>4, <1>3
    <3>2. y = R(i - 1)
      <4> HIDE DEF cs, R
      <4> QED BY <3>1, <1>4
    <3> DEFINE m == n(i - 1)
    <3>3. m \in 1..Limit /\ x + Limit <= l /\ y \in x - 1 .. x + m - 1
      BY <3>1, <3>2, <2>1, <1>6
    <3> HIDE DEF x, y, l, m
    <3>4. y - x < Limit /\ {x - 1, y} \subseteq 0 .. l
      BY <2>2, <3>3, <1>1
    <3> QED BY <3>4 DEF x, y, l
  <2> QED BY <2>3, <2>4
<1> QED
  <2> HIDE DEF cs
  <2>1. Discord!ChunksCover(t, cs)
    BY <1>8, <1>9, <1>10 DEF Discord!ChunksCover
  <2> QED BY <2>1 DEF cs

-----------------------------------------------------------------------------
(* Discord: the replies *)

DiscordReplies ==
  [at : {"idle", "resolve", "send", "failed", "dropped"}, chat : Chats \cup {"none"},
   to : DMessages \cup {0}, text : Discord!Texts,
   chunks : {<<>>} \cup {Discord!Chunks(t) : t \in Discord!Texts}, left : SUBSET Nat,
   sent : Seq([to : DMessages \cup {0}, chunk : Nat])]

DiscordTypes ==
  /\ dChat \in [DMessages -> Chats \cup {"none"}]
  /\ dTaken \in [DMessages -> {"due", "command", "active", "passive", "refused"}]
  /\ dLatest \in [Chats -> DMessages \cup {0}]
  /\ dSend \in [DSends -> DiscordReplies]

\* A message a reply of a channel may refer to.
TakenIn(m, c) == m \in DMessages /\ dChat[m] = c /\ dTaken[m] \notin {"due", "refused"}

\* The latest message of a channel is one.
LatestTaken == \A c \in Chats : dLatest[c] # 0 => TakenIn(dLatest[c], c)

\* A reply is for a channel that has one, and refers to one throughout.
RepliesRefer ==
  \A r \in DSends :
    /\ dSend[r].at \in {"resolve", "send", "failed"} =>
         dSend[r].chat \in Chats /\ dLatest[dSend[r].chat] # 0
    /\ dSend[r].at \in {"send", "failed"} => TakenIn(dSend[r].to, dSend[r].chat)
    /\ \A i \in DOMAIN dSend[r].sent : dSend[r].sent[i].to = dSend[r].to

SentOf(s) == {s.sent[i].chunk : i \in DOMAIN s.sent}

\* The chunks of a reply's text, those that are sent and those that are left.
InParts(s) ==
  /\ IF s.at \in {"send", "failed"} THEN s.chunks = Discord!Chunks(s.text)
     ELSE s.chunks = <<>> /\ s.left = {} /\ s.sent = <<>>
  /\ SentOf(s) \cup s.left = Discord!Kept(s.chunks) /\ \A i \in SentOf(s), k \in s.left : i < k
  /\ \A i, j \in DOMAIN s.sent : i < j => s.sent[i].chunk < s.sent[j].chunk

\* The inductive invariant of Discord's replies.
DiscordInv ==
  DiscordTypes /\ LatestTaken /\ RepliesRefer /\ \A r \in DSends : InParts(dSend[r])

\* A step is one of its own or leaves it alone.
LEMMA DiscordSteps ==
  [PartsNext]_allVars => [Discord!Next]_Discord!vars
<1> USE DEF allVars, kVars, dVars, Discord!vars
<1>1. CASE UNCHANGED allVars
  BY <1>1
<1>2. CASE PartsNext
  BY <1>2 DEF PartsNext, OfSlack, OfDiscord, OfFeishu, OfWeCom, OfWeChat, OfDingTalk,
     OfSchedule, OfHarness, OfAgents, OfSignIn
<1> QED BY <1>1, <1>2

\* Nothing is no chunk.
LEMMA NoneKept == Discord!Kept(<<>>) = {}
BY DEF Discord!Kept

\* Nothing is taken or sent at first.
LEMMA DiscordStarts == Discord!Init => DiscordInv
<1> SUFFICES ASSUME Discord!Init PROVE DiscordInv
  OBVIOUS
<1>1. <<>> \in Discord!Texts
  <2>1. MaxLength \in Nat
    BY ChannelsConstants DEF Discord!DiscordConstants
  <2>2. <<>> \in [1..0 -> {"x"} \cup Discord!Blank] /\ 0 \in 0..MaxLength
    BY <2>1
  <2> QED BY <2>2 DEF Discord!Texts
<1> USE DEF Discord!Init
<1>2. DiscordTypes
  BY <1>1 DEF DiscordTypes, DiscordReplies
<1>3. LatestTaken
  BY DEF LatestTaken
<1>4. RepliesRefer
  BY DEF RepliesRefer
<1>5. ASSUME NEW r \in DSends PROVE InParts(dSend[r])
  <2>1. /\ dSend[r].at = "idle" /\ dSend[r].chunks = <<>> /\ dSend[r].left = {} /\ dSend[r].sent = <<>>
    OBVIOUS
  <2>2. SentOf(dSend[r]) = {}
    BY <2>1 DEF SentOf
  <2> QED BY <2>1, <2>2, NoneKept DEF InParts
<1> QED BY <1>2, <1>3, <1>4, <1>5 DEF DiscordInv

\* The chunks of a text are numbered.
LEMMA ChunksNumbered ==
  ASSUME NEW t \in Discord!Texts
  PROVE  Discord!Kept(Discord!Chunks(t)) \subseteq Nat
<1>1. PICK n \in Nat : t \in [1..n -> {"x"} \cup Discord!Blank]
  BY ChannelsConstants DEF Discord!Texts, Discord!DiscordConstants
<1>2. Len(t) \in Nat
  BY <1>1
<1>3. PICK last \in 0 .. Len(t) : DOMAIN Discord!Chunks(t) = 1 .. last + 1
  <2> DEFINE l == Len(t)
  <2>1. l \in Nat /\ l = Len(t)
    BY <1>2
  <2> HIDE DEF l
  <2>2. \E last \in 0..l : DOMAIN Discord!Chunks(t) = 1 .. last + 1
    BY <2>1, ChunksEnd DEF EndsWith
  <2> QED BY <2>1, <2>2
<1>4. DOMAIN Discord!Chunks(t) \subseteq Nat
  BY <1>2, <1>3
<1> QED BY <1>4 DEF Discord!Kept

\* A message is the latest of its channel from when it is taken.
LEMMA TakesKeepsDiscord ==
  ASSUME DiscordInv, NEW m \in DMessages, Discord!Takes(m)
  PROVE  DiscordInv'
<1>1. PICK c \in Chats, how \in {"command", "active", "passive", "refused"} :
        /\ dChat' = [dChat EXCEPT ![m] = c] /\ dTaken' = [dTaken EXCEPT ![m] = how]
        /\ dLatest' = IF how = "refused" THEN dLatest ELSE [dLatest EXCEPT ![c] = m]
  BY DEF Discord!Takes
<1>2. dTaken[m] = "due" /\ dSend' = dSend /\ m # 0 /\ DiscordTypes
  BY ChannelsConstants DEF Discord!Takes, Discord!DiscordConstants, DiscordInv
<1>3. DiscordTypes'
  <2>1. /\ dChat' \in [DMessages -> Chats \cup {"none"}]
        /\ dTaken' \in [DMessages -> {"due", "command", "active", "passive", "refused"}]
    BY <1>1, <1>2 DEF DiscordTypes
  <2>2. dLatest' \in [Chats -> DMessages \cup {0}]
    BY <1>1, <1>2 DEF DiscordTypes
  <2> QED BY <2>1, <2>2, <1>2 DEF DiscordTypes
<1>4. \A n, d : TakenIn(n, d) => TakenIn(n, d)'
  BY <1>1, <1>2 DEF TakenIn, DiscordTypes
<1>5. /\ how # "refused" => TakenIn(m, c)'
      /\ \A d \in Chats : dLatest'[d] = IF how # "refused" /\ d = c THEN m ELSE dLatest[d]
  BY <1>1, <1>2 DEF TakenIn, DiscordTypes
<1>6. LatestTaken'
  <2> SUFFICES ASSUME NEW d \in Chats, dLatest'[d] # 0 PROVE TakenIn(dLatest[d], d)'
    BY DEF LatestTaken
  <2>1. CASE how # "refused" /\ d = c
    BY <2>1, <1>5
  <2>2. CASE ~(how # "refused" /\ d = c)
    <3>1. dLatest'[d] = dLatest[d] /\ TakenIn(dLatest[d], d)
      BY <2>2, <1>5 DEF DiscordInv, LatestTaken
    <3>2. dChat'[dLatest[d]] = d /\ dTaken'[dLatest[d]] \notin {"due", "refused"} /\ dLatest[d] \in DMessages
      BY <3>1, <1>4 DEF TakenIn
    <3> QED BY <3>1, <3>2 DEF TakenIn
  <2> QED BY <2>1, <2>2
<1>7. RepliesRefer'
  <2> SUFFICES ASSUME NEW r \in DSends
               PROVE  /\ dSend[r].at \in {"resolve", "send", "failed"} =>
                           dSend[r].chat \in Chats /\ dLatest'[dSend[r].chat] # 0
                      /\ dSend[r].at \in {"send", "failed"} => TakenIn(dSend[r].to, dSend[r].chat)'
                      /\ \A i \in DOMAIN dSend[r].sent : dSend[r].sent[i].to = dSend[r].to
    BY <1>2 DEF RepliesRefer, TakenIn
  <2>1. /\ dSend[r].at \in {"resolve", "send", "failed"} =>
             dSend[r].chat \in Chats /\ dLatest[dSend[r].chat] # 0
        /\ dSend[r].at \in {"send", "failed"} => TakenIn(dSend[r].to, dSend[r].chat)
        /\ \A i \in DOMAIN dSend[r].sent : dSend[r].sent[i].to = dSend[r].to
    BY DEF DiscordInv, RepliesRefer
  <2>2. dSend[r].at \in {"send", "failed"} => TakenIn(dSend[r].to, dSend[r].chat)'
    BY <2>1, <1>2, <1>4 DEF TakenIn
  <2> QED BY <2>1, <2>2, <1>2, <1>5
<1>8. \A r \in DSends : InParts(dSend'[r])
  BY <1>2 DEF DiscordInv
<1> QED BY <1>3, <1>6, <1>7, <1>8 DEF DiscordInv

\* Where a reply goes on, alone,
Refers(s) ==
  /\ s.at \in {"resolve", "send", "failed"} => s.chat \in Chats /\ dLatest[s.chat] # 0
  /\ s.at \in {"send", "failed"} => TakenIn(s.to, s.chat)
  /\ \A i \in DOMAIN s.sent : s.sent[i].to = s.to

\* the others stay.
LEMMA GoesOnAlone ==
  ASSUME DiscordInv, NEW r \in DSends, NEW s \in DiscordReplies,
         UNCHANGED <<dChat, dTaken, dLatest>>, dSend' = [dSend EXCEPT ![r] = s],
         Refers(s), InParts(s)
  PROVE  DiscordInv'
<1>1. DiscordTypes'
  BY DEF DiscordInv, DiscordTypes
<1>2. LatestTaken'
  BY DEF DiscordInv, LatestTaken, TakenIn
<1>3. \A q \in DSends : dSend'[q] = IF q = r THEN s ELSE dSend[q]
  BY DEF DiscordInv, DiscordTypes
<1>4. RepliesRefer'
  <2> SUFFICES ASSUME NEW q \in DSends
               PROVE  /\ dSend'[q].at \in {"resolve", "send", "failed"} =>
                           dSend'[q].chat \in Chats /\ dLatest[dSend'[q].chat] # 0
                      /\ dSend'[q].at \in {"send", "failed"} => TakenIn(dSend'[q].to, dSend'[q].chat)
                      /\ \A i \in DOMAIN dSend'[q].sent : dSend'[q].sent[i].to = dSend'[q].to
    BY DEF RepliesRefer, TakenIn
  <2>1. CASE q = r
    BY <2>1, <1>3 DEF Refers
  <2>2. CASE q # r
    <3>1. dSend'[q] = dSend[q]
      BY <2>2, <1>3
    <3> QED BY <3>1 DEF DiscordInv, RepliesRefer
  <2> QED BY <2>1, <2>2
<1>5. \A q \in DSends : InParts(dSend'[q])
  BY <1>3 DEF DiscordInv
<1> QED BY <1>1, <1>2, <1>4, <1>5 DEF DiscordInv

\* A reply is for a channel with a message.
LEMMA ResolvesKeepsDiscord ==
  ASSUME DiscordInv, NEW r \in DSends, Discord!Resolves(r)
  PROVE  DiscordInv'
<1>1. PICK c \in Chats :
        /\ dLatest[c] # 0
        /\ dSend' = [dSend EXCEPT ![r].chat = c, ![r].at = IF dUp THEN "resolve" ELSE "dropped"]
  BY DEF Discord!Resolves
<1>2. /\ dSend[r].at = "idle" /\ UNCHANGED <<dChat, dTaken, dLatest>>
      /\ dSend[r] \in DiscordReplies /\ dSend \in [DSends -> DiscordReplies]
  BY DEF Discord!Resolves, DiscordInv, DiscordTypes
<1> DEFINE a == IF dUp THEN "resolve" ELSE "dropped"
           s == [dSend[r] EXCEPT !.chat = c, !.at = a]
<1>3. dSend' = [dSend EXCEPT ![r] = s]
  BY <1>1
<1>4. a \in {"resolve", "dropped"}
  OBVIOUS
<1> HIDE DEF a
<1>5. /\ s \in DiscordReplies /\ s.at = a /\ s.chat = c /\ s.chunks = dSend[r].chunks
      /\ s.left = dSend[r].left /\ s.sent = dSend[r].sent
  BY <1>2, <1>4 DEF DiscordReplies
<1>6. InParts(dSend[r])
  BY DEF DiscordInv
<1> HIDE DEF s
<1>7. s.chunks = <<>> /\ s.left = {} /\ s.sent = <<>>
  BY <1>2, <1>5, <1>6 DEF InParts
<1>8. SentOf(s) = {}
  BY <1>7 DEF SentOf
<1>9. InParts(s)
  BY <1>4, <1>5, <1>7, <1>8, NoneKept DEF InParts
<1>10. Refers(s)
  BY <1>1, <1>4, <1>5, <1>7 DEF Refers
<1> QED BY <1>2, <1>3, <1>5, <1>9, <1>10, GoesOnAlone

\* It refers to that message from when its text is split.
LEMMA SplitsKeepsDiscord ==
  ASSUME DiscordInv, NEW r \in DSends, Discord!Splits(r)
  PROVE  DiscordInv'
<1>1. /\ dSend[r].at = "resolve" /\ UNCHANGED <<dChat, dTaken, dLatest>>
      /\ dSend[r] \in DiscordReplies /\ dSend \in [DSends -> DiscordReplies]
  <2>1. dSend[r].at = "resolve" /\ UNCHANGED <<dChat, dTaken, dLatest>>
    BY Zenon DEF Discord!Splits
  <2>2. dSend[r] \in DiscordReplies /\ dSend \in [DSends -> DiscordReplies]
    BY DEF DiscordInv, DiscordTypes
  <2> QED BY <2>1, <2>2
<1>2. InParts(dSend[r])
  BY DEF DiscordInv
<1>3. dSend[r].chunks = <<>> /\ dSend[r].left = {} /\ dSend[r].sent = <<>>
  BY <1>1, <1>2 DEF InParts
<1>4. CASE dSend' = [dSend EXCEPT ![r].at = "dropped"]
  <2> DEFINE s == [dSend[r] EXCEPT !.at = "dropped"]
  <2>1. dSend' = [dSend EXCEPT ![r] = s]
    BY <1>4
  <2>2. /\ s \in DiscordReplies /\ s.at = "dropped" /\ s.chunks = <<>>
        /\ s.left = {} /\ s.sent = <<>>
    BY <1>1, <1>3 DEF DiscordReplies
  <2> HIDE DEF s
  <2>3. SentOf(s) = {}
    BY <2>2 DEF SentOf
  <2>4. InParts(s)
    BY <2>2, <2>3, NoneKept DEF InParts
  <2>5. Refers(s)
    BY <2>2 DEF Refers
  <2> QED BY <1>1, <2>1, <2>2, <2>4, <2>5, GoesOnAlone
<1>5. ASSUME NEW t \in Discord!Texts,
             dSend' = [dSend EXCEPT ![r].at = "send", ![r].to = dLatest[dSend[r].chat],
                                    ![r].text = t, ![r].chunks = Discord!Chunks(t),
                                    ![r].left = Discord!Kept(Discord!Chunks(t))]
      PROVE  DiscordInv'
  <2> DEFINE c == dSend[r].chat
             cs == Discord!Chunks(t)
             ks == Discord!Kept(Discord!Chunks(t))
             s == [dSend[r] EXCEPT !.at = "send", !.to = dLatest[c], !.text = t, !.chunks = cs, !.left = ks]
  <2>1. dSend' = [dSend EXCEPT ![r] = s]
    BY <1>5
  <2>2. c \in Chats /\ dLatest[c] # 0 /\ TakenIn(dLatest[c], c)
    BY <1>1 DEF DiscordInv, RepliesRefer, LatestTaken
  <2>3. ks \subseteq Nat /\ ks = Discord!Kept(cs)
    BY ChunksNumbered
  <2>4. cs \in {<<>>} \cup {Discord!Chunks(u) : u \in Discord!Texts}
    OBVIOUS
  <2>5. dLatest[c] \in DMessages
    BY <2>2 DEF TakenIn
  <2> HIDE DEF c, cs, ks
  <2>6. s \in DiscordReplies
    BY <1>1, <2>3, <2>4, <2>5 DEF DiscordReplies
  <2>7. /\ s.at = "send" /\ s.chat = c /\ s.to = dLatest[c] /\ s.text = t /\ s.chunks = cs
        /\ s.left = ks /\ s.sent = <<>>
    BY <1>1, <1>3 DEF DiscordReplies, c
  <2> HIDE DEF s
  <2>8. SentOf(s) = {}
    BY <2>7 DEF SentOf
  <2>9. InParts(s)
    <3>1. s.chunks = Discord!Chunks(s.text)
      BY <2>7 DEF cs
    <3> QED BY <2>3, <2>7, <2>8, <3>1 DEF InParts
  <2>10. Refers(s)
    BY <2>2, <2>7 DEF Refers
  <2> QED BY <1>1, <2>1, <2>6, <2>9, <2>10, GoesOnAlone
<1> QED BY <1>4, <1>5, Zenon DEF Discord!Splits

\* The next chunk that is left refers to it too; one that Discord refuses is the last.
LEMMA SendsKeepsDiscord ==
  ASSUME DiscordInv, NEW r \in DSends, Discord!SendsChunk(r)
  PROVE  DiscordInv'
<1>1. /\ dSend[r].at = "send" /\ UNCHANGED <<dChat, dTaken, dLatest>>
      /\ dSend[r] \in DiscordReplies /\ dSend \in [DSends -> DiscordReplies]
  BY DEF Discord!SendsChunk, DiscordInv, DiscordTypes
<1> DEFINE s == dSend[r]
<1>2. InParts(s) /\ Refers(s)
  BY DEF DiscordInv, RepliesRefer, Refers
<1>3. PICK i \in s.left :
        /\ \A k \in s.left : i <= k
        /\ \/ dSend' = [dSend EXCEPT ![r].left = @ \ {i},
                          ![r].sent = Append(@, [to |-> s.to, chunk |-> i])]
           \/ dSend' = [dSend EXCEPT ![r].at = "failed"]
  BY DEF Discord!SendsChunk, Discord!Reference
<1>4. CASE dSend' = [dSend EXCEPT ![r].at = "failed"]
  <2> DEFINE u == [s EXCEPT !.at = "failed"]
  <2>1. dSend' = [dSend EXCEPT ![r] = u]
    BY <1>4
  <2>2. /\ u \in DiscordReplies /\ u.at = "failed" /\ u.chat = s.chat /\ u.to = s.to
        /\ u.text = s.text /\ u.chunks = s.chunks /\ u.left = s.left /\ u.sent = s.sent
    BY <1>1 DEF DiscordReplies
  <2> HIDE DEF u, s
  <2>3. SentOf(u) = SentOf(s)
    BY <2>2 DEF SentOf
  <2>4. s.at = "send"
    BY <1>1 DEF s
  <2>5. InParts(u)
    BY <1>2, <2>2, <2>3, <2>4 DEF InParts
  <2>6. Refers(u)
    BY <1>2, <2>2, <2>4 DEF Refers
  <2> QED BY <1>1, <2>1, <2>2, <2>5, <2>6, GoesOnAlone
<1>5. CASE dSend' = [dSend EXCEPT ![r].left = @ \ {i},
                       ![r].sent = Append(@, [to |-> s.to, chunk |-> i])]
  <2> DEFINE e == [to |-> s.to, chunk |-> i]
             u == [s EXCEPT !.left = s.left \ {i}, !.sent = Append(s.sent, e)]
             R == [to : DMessages \cup {0}, chunk : Nat]
             n == Len(s.sent)
  <2>1. dSend' = [dSend EXCEPT ![r] = u]
    BY <1>5
  <2>2. s.sent \in Seq(R) /\ s.to \in DMessages \cup {0} /\ s.left \subseteq Nat /\ i \in Nat
    BY <1>1, <1>3 DEF DiscordReplies
  <2>3. e \in R /\ e.to = s.to /\ e.chunk = i
    BY <2>2
  <2>4. /\ Append(s.sent, e) \in Seq(R) /\ n \in Nat
        /\ DOMAIN s.sent = 1..n /\ DOMAIN Append(s.sent, e) = 1 .. n + 1
        /\ \A k \in 1..n : Append(s.sent, e)[k] = s.sent[k]
        /\ Append(s.sent, e)[n + 1] = e
    <3> HIDE DEF e, R, s
    <3> QED BY <2>2, <2>3, AppendProperties
  <2>5. u \in DiscordReplies
    <3> HIDE DEF e
    <3> QED BY <1>1, <2>2, <2>4 DEF DiscordReplies
  <2>6. /\ u.at = "send" /\ u.chat = s.chat /\ u.to = s.to /\ u.text = s.text
        /\ u.chunks = s.chunks /\ u.left = s.left \ {i} /\ u.sent = Append(s.sent, e)
    <3> HIDE DEF e
    <3> QED BY <1>1 DEF DiscordReplies
  <2>7. s.at = "send"
    BY <1>1
  <2> HIDE DEF e, u, R, s, n
  <2>8. /\ DOMAIN u.sent = 1 .. n + 1 /\ u.sent[n + 1].to = s.to /\ u.sent[n + 1].chunk = i
        /\ \A k \in 1..n : u.sent[k] = s.sent[k]
    BY <2>3, <2>4, <2>6
  <2>9. SentOf(u) = SentOf(s) \cup {i}
    <3>1. ASSUME NEW k \in DOMAIN s.sent PROVE s.sent[k].chunk \in SentOf(u)
      <4>1. k \in 1 .. n + 1 /\ u.sent[k] = s.sent[k]
        BY <2>4, <2>8
      <4> QED BY <4>1, <2>8 DEF SentOf
    <3>2. i \in SentOf(u)
      <4>1. n + 1 \in 1 .. n + 1
        BY <2>4
      <4> QED BY <4>1, <2>8 DEF SentOf
    <3>3. ASSUME NEW k \in DOMAIN u.sent PROVE u.sent[k].chunk \in SentOf(s) \cup {i}
      <4>1. k \in 1..n \/ k = n + 1
        BY <2>4, <2>8
      <4> QED BY <4>1, <2>4, <2>8 DEF SentOf
    <3>4. SentOf(s) \cup {i} \subseteq SentOf(u)
      BY <3>1, <3>2 DEF SentOf
    <3>5. SentOf(u) \subseteq SentOf(s) \cup {i}
      BY <3>3 DEF SentOf
    <3> QED BY <3>4, <3>5
  <2>10. SentOf(s) \subseteq Nat /\ \A k \in SentOf(s) : k < i
    <3>1. \A k \in SentOf(s) : k < i
      BY <1>2, <1>3 DEF InParts
    <3>2. ASSUME NEW k \in DOMAIN s.sent PROVE s.sent[k].chunk \in Nat
      <4>1. s.sent[k] \in R
        BY <2>2, <2>4
      <4> QED BY <4>1 DEF R
    <3> QED BY <3>1, <3>2 DEF SentOf
  <2>11. SentOf(u) \cup u.left = Discord!Kept(u.chunks)
    <3>1. SentOf(s) \cup s.left = Discord!Kept(s.chunks)
      BY <1>2 DEF InParts
    <3>2. SentOf(u) \cup u.left = SentOf(s) \cup s.left
      BY <1>3, <2>6, <2>9
    <3> QED BY <2>6, <3>1, <3>2
  <2>12. ASSUME NEW j \in SentOf(u), NEW k \in u.left PROVE j < k
    <3>1. k \in s.left /\ k # i /\ i <= k /\ k \in Nat
      BY <1>3, <2>2, <2>6
    <3>2. j = i \/ (j < i /\ j \in Nat)
      BY <2>9, <2>10
    <3> QED BY <3>1, <3>2, <2>2
  <2>13. ASSUME NEW j \in DOMAIN u.sent, NEW k \in DOMAIN u.sent, j < k
         PROVE  u.sent[j].chunk < u.sent[k].chunk
    <3>1. j \in 1..n /\ k \in 1 .. n + 1 /\ (k \in 1..n \/ k = n + 1)
      BY <2>4, <2>8, <2>13
    <3>2. CASE k \in 1..n
      BY <3>1, <3>2, <1>2, <2>4, <2>8, <2>13 DEF InParts
    <3>3. CASE k = n + 1
      <4>1. u.sent[j].chunk \in SentOf(s)
        BY <3>1, <2>4, <2>8 DEF SentOf
      <4> QED BY <4>1, <3>3, <2>8, <2>10
    <3> QED BY <3>1, <3>2, <3>3
  <2>14. u.chunks = Discord!Chunks(u.text)
    BY <1>2, <2>6, <2>7 DEF InParts
  <2>15. InParts(u)
    BY <2>6, <2>11, <2>12, <2>13, <2>14 DEF InParts
  <2>16. Refers(u)
    <3>1. TakenIn(u.to, u.chat) /\ u.chat \in Chats /\ dLatest[u.chat] # 0
      BY <1>2, <2>6, <2>7 DEF Refers
    <3>2. ASSUME NEW k \in DOMAIN u.sent PROVE u.sent[k].to = u.to
      <4>1. k \in 1..n \/ k = n + 1
        BY <2>4, <2>8
      <4> QED BY <4>1, <1>2, <2>4, <2>6, <2>8 DEF Refers
    <3> QED BY <3>1, <3>2 DEF Refers
  <2> QED BY <1>1, <2>1, <2>5, <2>15, <2>16, GoesOnAlone
<1> QED BY <1>3, <1>4, <1>5

\* Every step of the channel keeps it.
LEMMA DiscordKeeps ==
  ASSUME DiscordInv, [Discord!Next]_Discord!vars
  PROVE  DiscordInv'
<1>1. CASE Discord!Connects \/ Discord!Stops \/ UNCHANGED Discord!vars
  <2>1. UNCHANGED <<dChat, dTaken, dLatest, dSend>>
    BY <1>1 DEF Discord!Connects, Discord!Stops, Discord!vars
  <2>2. DiscordTypes'
    BY <2>1 DEF DiscordInv, DiscordTypes
  <2>3. LatestTaken' /\ RepliesRefer'
    BY <2>1 DEF DiscordInv, LatestTaken, RepliesRefer, TakenIn
  <2>4. \A r \in DSends : InParts(dSend'[r])
    BY <2>1 DEF DiscordInv
  <2> QED BY <2>2, <2>3, <2>4 DEF DiscordInv
<1> QED BY <1>1, TakesKeepsDiscord, ResolvesKeepsDiscord, SplitsKeepsDiscord, SendsKeepsDiscord
     DEF Discord!Next

\* The chunks of a reply, then, are its text, go out in order and refer to one message.
LEMMA RepliesTogether == DiscordInv => Discord!RepliesStayTogether
<1> SUFFICES ASSUME DiscordInv, NEW r \in DSends
             PROVE  LET s == dSend[r]
                        gone == {s.sent[i].chunk : i \in DOMAIN s.sent}
                    IN
                    /\ s.at \in {"send", "failed"} => Discord!ChunksCover(s.text, s.chunks)
                    /\ gone \cup s.left = Discord!Kept(s.chunks) /\ \A i \in gone, k \in s.left : i < k
                    /\ \A i, j \in DOMAIN s.sent :
                         /\ i < j => s.sent[i].chunk < s.sent[j].chunk
                         /\ s.sent[i].to = s.sent[j].to
                         /\ dChat[s.sent[i].to] = s.chat /\ dTaken[s.sent[i].to] # "refused"
  BY DEF Discord!RepliesStayTogether
<1> DEFINE s == dSend[r]
           gone == {s.sent[i].chunk : i \in DOMAIN s.sent}
<1>1. s.text \in Discord!Texts /\ InParts(s)
  BY DEF DiscordInv, DiscordTypes, DiscordReplies
<1>2. Refers(s)
  BY DEF DiscordInv, RepliesRefer, Refers
<1> HIDE DEF s
<1>3. s.at \in {"send", "failed"} => Discord!ChunksCover(s.text, s.chunks)
  <2>1. PICK n \in Nat : s.text \in [1..n -> {"x"} \cup Discord!Blank]
    BY <1>1, ChannelsConstants DEF Discord!Texts, Discord!DiscordConstants
  <2>2. s.text \in Seq({"x"} \cup Discord!Blank)
    BY <2>1
  <2>3. Discord!ChunksCover(s.text, Discord!Chunks(s.text))
    BY <2>2, ChunksAreTheText
  <2> QED BY <2>3, <1>1 DEF InParts
<1>4. gone \cup s.left = Discord!Kept(s.chunks) /\ \A i \in gone, k \in s.left : i < k
  BY <1>1 DEF InParts, SentOf
<1>5. ASSUME NEW i \in DOMAIN s.sent, NEW j \in DOMAIN s.sent
      PROVE  /\ i < j => s.sent[i].chunk < s.sent[j].chunk
             /\ s.sent[i].to = s.sent[j].to
             /\ dChat[s.sent[i].to] = s.chat /\ dTaken[s.sent[i].to] # "refused"
  <2>1. i < j => s.sent[i].chunk < s.sent[j].chunk
    BY <1>1 DEF InParts
  <2>2. s.sent[i].to = s.to /\ s.sent[j].to = s.to
    BY <1>2 DEF Refers
  <2>3. s.at \in {"send", "failed"}
    BY <1>1 DEF InParts
  <2> QED BY <2>1, <2>2, <2>3, <1>2 DEF Refers, TakenIn
<1> QED BY <1>3, <1>4, <1>5 DEF s

\* A reply finds what it is to on every channel: Slack's marks, WeCom's streams, Discord's
\* references and Feishu's replies to commands, of any number of messages, replies and texts
\* of any length.
THEOREM RepliesFound == PartsSpec => []RepliesFindTheirMessages
<1> DEFINE Inv == SlackInv /\ WeComInv /\ DiscordInv /\ FeishuInv /\ CommandsInv
<1>1. PartsInit => Inv
  BY SlackStarts, WeComStarts, DiscordStarts, FeishuStarts, CommandsStart DEF PartsInit
<1>2. Inv /\ [PartsNext]_allVars => Inv'
  <2> SUFFICES ASSUME Inv, [PartsNext]_allVars PROVE Inv'
    OBVIOUS
  <2>1. SlackInv' /\ WeComInv'
    BY SlackSteps, SlackKeeps, WeComSteps, WeComKeeps
  <2>2. DiscordInv'
    BY DiscordSteps, DiscordKeeps
  <2>3. FeishuInv' /\ CommandsInv'
    BY FeishuSteps, FeishuKeeps, FeishuKeepsCommands
  <2> QED BY <2>1, <2>2, <2>3
<1>3. Inv => RepliesFindTheirMessages
  BY MarksFollow, StreamsOwned, RepliesTogether, CommandsReplied DEF RepliesFindTheirMessages
<1> QED BY <1>1, <1>2, <1>3, PTL DEF PartsSpec
=============================================================================
