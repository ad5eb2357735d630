------------------------------ MODULE AcpTurns ------------------------------
(***************************************************************************)
(* The turn lifecycle of BubACPAgent (bub-acp-server, agent.py) together   *)
(* with ACPSteeringInbox (steering.py): session/prompt, session/cancel,    *)
(* session/close and session/delete, and the steering extension, all of    *)
(* them asyncio tasks of one event loop that share the prompt runs, the    *)
(* prompt lock and the inbox.                                              *)
(*                                                                         *)
(* One action is the code a task executes between two awaits.  A prompt    *)
(* request runs its turn in its own task; a steering request may start a   *)
(* turn in a background task, and that turn is named by the request, so    *)
(* Runs is the set of every ACPPromptRun that can exist.                   *)
(***************************************************************************)
EXTENDS Integers, TLC

CONSTANTS
  Sessions,               \* ACP session ids
  Prompts,                \* session/prompt requests
  Steers,                 \* steering requests
  WithSteerId,            \* those that ask for an acknowledgement by steerId
  Ends,                   \* session/close and session/delete requests
  NoRun, NoSession,       \* the absent run and the absent session
  CancelBeforeFirstStep   \* may session/cancel be handled between the
                          \* create_task of a steering turn and its first step?

Runs == Prompts \cup Steers

ASSUME ConstantsAssumption ==
  /\ Prompts \cap Steers = {}
  /\ WithSteerId \subseteq Steers
  /\ NoRun \notin Runs
  /\ NoSession \notin Sessions
  /\ CancelBeforeFirstStep \in BOOLEAN

VARIABLES
  open,              \* keys of self._sessions
  closing,           \* self._closing_sessions
  sess,              \* the session a request named
  task,              \* where the task that executes a run stands
  registered,        \* the runs of self._prompt_runs, all sessions together
  born,              \* their order in the deque
  started,           \* run.started
  completed,         \* run.completed
  cancelRequested,   \* run.cancel_requested
  pendingCancel,     \* tasks a CancelledError is about to be thrown into
  cancels,           \* task.cancelling() of a run's task
  answer,            \* how the turn of a run answered
  lock,              \* the run that holds self._prompt_lock
  line,              \* arrival order at the prompt lock
  steer,             \* where a steering request stands
  outcome,           \* the answer to a steering request
  target,            \* the run a steering request waits for
  lockObject,        \* which steering lock of its session a request uses
  asked,             \* arrival order at the steering lock
  generation,        \* the lock self._steering_locks now holds for a session
  inbox,             \* steering messages queued and not yet consumed
  delivered,         \* receipt.delivered
  consumed,          \* history: the runs whose model steps saw a message
  end,               \* where a close or delete request stands
  ending,            \* [session, restores, runs] of such a request
  now                \* arrival counter

runVars   == <<sess, task, registered, born, started, completed,
               cancelRequested, pendingCancel, cancels, answer, lock, line>>
steerVars == <<steer, outcome, target, lockObject, asked, inbox, delivered,
               consumed>>
endVars   == <<end, ending, generation>>
vars == <<open, closing, runVars, steerVars, endVars, now>>

Live == {"created", "queued", "turn"}    \* a task that has not finished
NoEnding == [session |-> NoSession, restores |-> FALSE, runs |-> {}]

RunsOf(s) == {r \in registered : sess[r] = s}
LiveRunsOf(s) == {r \in Runs : sess[r] = s /\ task[r] \in Live}

Init ==
  /\ open \in SUBSET Sessions
  /\ closing = {}
  /\ sess = [r \in Runs |-> NoSession]
  /\ task = [r \in Runs |-> "none"]
  /\ registered = {}
  /\ born = [r \in Runs |-> 0]
  /\ started = {} /\ completed = {}
  /\ cancelRequested = {} /\ pendingCancel = {}
  /\ cancels = [r \in Runs |-> 0]
  /\ answer = [r \in Runs |-> "none"]
  /\ lock = NoRun
  /\ line = [r \in Runs |-> 0]
  /\ steer = [x \in Steers |-> "idle"]
  /\ outcome = [x \in Steers |-> "none"]
  /\ target = [x \in Steers |-> NoRun]
  /\ lockObject = [x \in Steers |-> 0]
  /\ asked = [x \in Steers |-> 0]
  /\ generation = [s \in Sessions |-> 0]
  /\ inbox = {} /\ delivered = {}
  /\ consumed = [x \in Steers |-> {}]
  /\ end = [e \in Ends |-> "idle"]
  /\ ending = [e \in Ends |-> NoEnding]
  /\ now = 0

-----------------------------------------------------------------------------
(***************************************************************************)
(* Runs and the prompt lock.                                               *)
(***************************************************************************)

\* _complete_prompt_run: set the event and leave the deque.
CompletePromptRuns(R) ==
  /\ completed' = completed \cup R
  /\ registered' = registered \ R

\* asyncio's task.cancel(): one more cancellation for tasks still running.
CancelTasks(R) ==
  LET T == {r \in R : task[r] \in Live} IN
  /\ pendingCancel' = pendingCancel \cup T
  /\ cancels' = [r \in Runs |-> cancels[r] + (IF r \in T THEN 1 ELSE 0)]

\* mutant: a session that is being closed is adopted again.
AdoptRefusedNever(s) == FALSE

\* _adopt_session refuses a session that is being closed.
AdoptRefused(s) == s \notin open /\ s \in closing

\* session/prompt: find or adopt the session and save the store, which may
\* raise, register the run, then wait for the prompt lock in the request's own
\* task.
Prompt(p, s) ==
  /\ task[p] = "none" /\ answer[p] = "none"
  /\ sess' = [sess EXCEPT ![p] = s]
  /\ \/ /\ AdoptRefused(s)
        /\ answer' = [answer EXCEPT ![p] = "rejected"]
        /\ UNCHANGED <<open, task, registered, born, line, now>>
     \/ /\ ~AdoptRefused(s)
        /\ open' = open \cup {s}
        /\ answer' = [answer EXCEPT ![p] = "error"]
        /\ UNCHANGED <<task, registered, born, line, now>>
     \/ /\ ~AdoptRefused(s)
        /\ open' = open \cup {s}
        /\ registered' = registered \cup {p}
        /\ task' = [task EXCEPT ![p] = "queued"]
        /\ born' = [born EXCEPT ![p] = now]
        /\ line' = [line EXCEPT ![p] = now]
        /\ now' = now + 1
        /\ UNCHANGED answer
  /\ UNCHANGED <<closing, started, completed, cancelRequested, pendingCancel,
                 cancels, lock, steerVars, endVars>>

\* The first step of a steering turn's background task.
TurnTaskFirstStep(x) ==
  /\ task[x] = "created" /\ x \notin pendingCancel
  /\ task' = [task EXCEPT ![x] = "queued"]
  /\ line' = [line EXCEPT ![x] = now]
  /\ now' = now + 1
  /\ UNCHANGED <<open, closing, sess, registered, born, started, completed,
                 cancelRequested, pendingCancel, cancels, answer, lock,
                 steerVars, endVars>>

\* A task cancelled before its first step never enters _execute_prompt: it
\* ends without the finally block that completes its run.
TurnTaskCancelledUnstarted(x) ==
  /\ task[x] = "created" /\ x \in pendingCancel
  /\ task' = [task EXCEPT ![x] = "done"]
  /\ pendingCancel' = pendingCancel \ {x}
  /\ answer' = [answer EXCEPT ![x] = "aborted"]
  /\ UNCHANGED <<open, closing, sess, registered, born, started, completed,
                 cancelRequested, cancels, lock, line, steerVars, endVars, now>>

\* mutant: the prompt lock is not released.
FinishTurnHoldingLock(r, result) ==
  /\ task' = [task EXCEPT ![r] = "done"]
  /\ answer' = [answer EXCEPT ![r] = result]
  /\ CompletePromptRuns({r})
  /\ UNCHANGED lock

\* The end of _execute_prompt: the task returns or raises, its run is
\* completed and the prompt lock, if it is held, is released.
FinishTurn(r, result) ==
  /\ task' = [task EXCEPT ![r] = "done"]
  /\ answer' = [answer EXCEPT ![r] = result]
  /\ CompletePromptRuns({r})
  /\ lock' = IF lock = r THEN NoRun ELSE lock

NextInLine(r) ==
  /\ task[r] = "queued" /\ lock = NoRun
  /\ \A q \in Runs : task[q] = "queued" => line[r] <= line[q]

\* The prompt lock is granted, first come first served: the turn starts
\* unless its session was closed while it waited or the agent of its session
\* cannot be built.
AcquirePromptLock(r) ==
  /\ NextInLine(r) /\ r \notin pendingCancel
  /\ \/ /\ sess[r] \in closing \/ sess[r] \notin open
        /\ FinishTurn(r, "rejected")
        /\ UNCHANGED <<started, consumed>>
     \/ /\ sess[r] \notin closing /\ sess[r] \in open
        /\ FinishTurn(r, "error")
        /\ UNCHANGED <<started, consumed>>
     \/ /\ sess[r] \notin closing /\ sess[r] \in open
        /\ lock' = r
        /\ started' = started \cup {r}
        /\ task' = [task EXCEPT ![r] = "turn"]
        /\ consumed' = [x \in Steers |-> IF x = r THEN consumed[x] \cup {r}
                                                  ELSE consumed[x]]
        /\ UNCHANGED <<answer, completed, registered>>
  /\ UNCHANGED <<open, closing, sess, born, cancelRequested, pendingCancel,
                 cancels, line, steer, outcome, target, lockObject, asked,
                 inbox, delivered, endVars, now>>

\* mutant: the drained messages stay queued.
DequeueNothing(M) == UNCHANGED inbox

\* Messages leave the inbox: popped by a model step or claimed back.
Dequeue(M) == inbox' = inbox \ M

\* A model step of the running turn takes every queued message of its
\* session (ACPSteeringInbox.drain_messages, called by Bub's agent loop).
DrainMessages(r) ==
  LET taken == {x \in inbox : sess[x] = sess[r]} IN
  /\ task[r] = "turn" /\ taken # {}
  /\ Dequeue(taken)
  /\ delivered' = delivered \cup taken
  /\ consumed' = [x \in Steers |-> IF x \in taken THEN consumed[x] \cup {r}
                                                  ELSE consumed[x]]
  /\ UNCHANGED <<open, closing, runVars, steer, outcome, target, lockObject,
                 asked, endVars, now>>

\* process_inbound returns or raises and the turn answers.  A turn that was
\* cancelled and carried on regardless still answers "cancelled".
TurnEnds(r) ==
  /\ task[r] = "turn" /\ r \notin pendingCancel
  /\ \/ FinishTurn(r, IF r \in cancelRequested THEN "cancelled" ELSE "end_turn")
     \/ FinishTurn(r, "error")
  /\ UNCHANGED <<open, closing, sess, born, started, cancelRequested,
                 pendingCancel, cancels, line, steerVars, endVars,
                 now>>

\* The running turn catches the CancelledError and carries on.
TurnSwallowsCancellation(r) ==
  /\ task[r] = "turn" /\ r \in pendingCancel
  /\ pendingCancel' = pendingCancel \ {r}
  /\ UNCHANGED <<open, closing, sess, task, registered, born, started,
                 completed, cancelRequested, cancels, answer, lock, line,
                 steerVars, endVars, now>>

\* The except branch of _execute_prompt: only a session/cancel, and only when
\* uncancel() leaves no other cancellation, turns into an answer.
CancelledAnswer(r) ==
  IF r \in cancelRequested /\ cancels[r] - 1 = 0 THEN "cancelled" ELSE "aborted"

\* The CancelledError reaches a task that waits for the lock or for its turn.
CancellationDelivered(r) ==
  /\ task[r] \in {"queued", "turn"} /\ r \in pendingCancel
  /\ pendingCancel' = pendingCancel \ {r}
  /\ FinishTurn(r, CancelledAnswer(r))
  /\ UNCHANGED <<open, closing, sess, born, started, cancelRequested, cancels,
                 line, steerVars, endVars, now>>

\* mutant: a repeated cancel cancels a run again.
CancellableAgain(s) == RunsOf(s)

\* Runs that session/cancel cancels: each run only once.
Cancellable(s) == RunsOf(s) \ cancelRequested

\* session/cancel; one that finds no run to cancel changes nothing.
Cancel(s) ==
  /\ Cancellable(s) # {}
  /\ CancelBeforeFirstStep \/ \A r \in RunsOf(s) : task[r] # "created"
  /\ cancelRequested' = cancelRequested \cup Cancellable(s)
  /\ CancelTasks(Cancellable(s))
  /\ UNCHANGED <<open, closing, sess, task, registered, born, started,
                 completed, answer, lock, line, steerVars, endVars, now>>

-----------------------------------------------------------------------------
(***************************************************************************)
(* Closing and deleting a session: _end_session.                           *)
(***************************************************************************)

\* Refused while another request ends the session; otherwise the session is
\* forgotten, its runs are collected and their tasks cancelled, or the store
\* cannot be saved.  A deletion of a session that is known, if only from disk,
\* brings its metadata back when it fails.
EndSession(e, s) ==
  /\ end[e] = "idle"
  /\ \/ /\ s \in closing
        /\ end' = [end EXCEPT ![e] = "refused"]
        /\ UNCHANGED <<open, closing, ending, generation, pendingCancel, cancels>>
     \/ /\ s \notin closing
        /\ closing' = closing \cup {s}
        /\ open' = open \ {s}
        /\ end' = [end EXCEPT ![e] = "gather"]
        /\ \E restores \in BOOLEAN :
             ending' = [ending EXCEPT ![e] =
               [session |-> s, restores |-> restores, runs |-> RunsOf(s)]]
        /\ CancelTasks(RunsOf(s))
        /\ UNCHANGED generation
     \/ /\ s \notin closing
        /\ open' \in {open \ {s}, open \cup {s}}
        /\ end' = [end EXCEPT ![e] = "failed"]
        /\ generation' = [generation EXCEPT ![s] = @ + 1]
        /\ UNCHANGED <<closing, ending, pendingCancel, cancels>>
  /\ UNCHANGED <<sess, task, registered, born, started, completed,
                 cancelRequested, answer, lock, line, steerVars, now>>

\* mutant: wait for the runs to complete instead of for their tasks.
GatheredRuns(e) == ending[e].runs \subseteq completed

\* asyncio.gather has seen every task end.
Gathered(e) == \A r \in ending[e].runs : task[r] \notin Live

\* The runs are completed, and the MCP channel, the subagents and the tape of
\* the session are torn down.
EndSessionGathered(e) ==
  /\ end[e] = "gather"
  /\ Gathered(e)
  /\ CompletePromptRuns(ending[e].runs)
  /\ end' = [end EXCEPT ![e] = "teardown"]
  /\ UNCHANGED <<open, closing, sess, task, born, started, cancelRequested,
                 pendingCancel, cancels, answer, lock, line, steerVars, ending,
                 generation, now>>

\* The teardown ends or raises; a deletion that raises brings the metadata
\* back.  Either way the steering lock is dropped and the session unlocked.
EndSessionTeardown(e) ==
  LET s == ending[e].session IN
  /\ end[e] = "teardown"
  /\ \/ /\ end' = [end EXCEPT ![e] = "ended"]
        /\ UNCHANGED open
     \/ /\ end' = [end EXCEPT ![e] = "failed"]
        /\ open' = IF ending[e].restores THEN open \cup {s} ELSE open
  /\ closing' = closing \ {s}
  /\ generation' = [generation EXCEPT ![s] = @ + 1]
  /\ UNCHANGED <<runVars, steerVars, ending, now>>

-----------------------------------------------------------------------------
(***************************************************************************)
(* Steering: _execute_or_queue_steering under the session's steering lock. *)
(***************************************************************************)

InCriticalSection == {"waitStart", "waitDelivery", "waitOwnTurn"}

SameLock(x, y) == sess[x] = sess[y] /\ lockObject[x] = lockObject[y]

\* The request arrives and queues on the lock its session has now.
SteerArrives(x, s) ==
  /\ steer[x] = "idle"
  /\ steer' = [steer EXCEPT ![x] = "waitLock"]
  /\ sess' = [sess EXCEPT ![x] = s]
  /\ lockObject' = [lockObject EXCEPT ![x] = generation[s]]
  /\ asked' = [asked EXCEPT ![x] = now]
  /\ now' = now + 1
  /\ UNCHANGED <<open, closing, task, registered, born, started, completed,
                 cancelRequested, pendingCancel, cancels, answer, lock, line,
                 outcome, target, inbox, delivered, consumed, endVars>>

\* mutant: steering requests of one session are not serialized.
SteeringLockIgnored(x) == steer[x] = "waitLock"

\* The steering lock is granted first come, first served.
SteeringLockGranted(x) ==
  /\ steer[x] = "waitLock"
  /\ \A y \in Steers \ {x} : SameLock(x, y) =>
       /\ steer[y] \notin InCriticalSection
       /\ steer[y] = "waitLock" => asked[x] <= asked[y]

\* The request is answered, or raises.
AnswerSteer(x, result) ==
  /\ steer' = [steer EXCEPT ![x] = "answered"]
  /\ outcome' = [outcome EXCEPT ![x] = result]

\* _execute_or_queue_steering returns and the steering lock is free.  The
\* result is the answer, unless the request has a steerId: then it is
\* acknowledged first.
SteerReturns(x, result) ==
  \/ x \notin WithSteerId /\ AnswerSteer(x, result)
  \/ /\ x \in WithSteerId
     /\ steer' = [steer EXCEPT ![x] = "notify"]
     /\ UNCHANGED outcome

\* _current_prompt_run: the oldest running run, else the oldest pending one.
Pending(s) == RunsOf(s) \ completed
Oldest(r, R) == r \in R /\ \A q \in R : born[r] <= born[q]
IsCurrentPromptRun(r, s) ==
  \/ Oldest(r, Pending(s) \cap started)
  \/ Pending(s) \cap started = {} /\ Oldest(r, Pending(s))

\* enqueue_with_receipt for the run that is running, then wait for delivery.
EnqueueFor(x, r) ==
  /\ inbox' = inbox \cup {x}
  /\ target' = [target EXCEPT ![x] = r]
  /\ steer' = [steer EXCEPT ![x] = "waitDelivery"]
  /\ UNCHANGED <<outcome, task, registered, born, now>>

\* _start_steering_turn: refused for a closed session, else the store is saved,
\* which may raise, and the message gets a new run and a background task for it.
StartSteeringTurn(x) ==
  \/ /\ sess[x] \in closing \/ sess[x] \notin open
     /\ AnswerSteer(x, "rejected")
     /\ UNCHANGED <<target, task, registered, born, now>>
  \/ /\ sess[x] \notin closing /\ sess[x] \in open
     /\ AnswerSteer(x, "failed")
     /\ UNCHANGED <<target, task, registered, born, now>>
  \/ /\ sess[x] \notin closing /\ sess[x] \in open
     /\ registered' = registered \cup {x}
     /\ task' = [task EXCEPT ![x] = "created"]
     /\ born' = [born EXCEPT ![x] = now]
     /\ now' = now + 1
     /\ target' = [target EXCEPT ![x] = x]
     /\ steer' = [steer EXCEPT ![x] = "waitOwnTurn"]
     /\ UNCHANGED outcome

unchangedBySteering ==
  <<open, closing, sess, started, completed, cancelRequested, pendingCancel,
    cancels, answer, lock, line, lockObject, asked, delivered, consumed,
    endVars>>

\* mutant: only wait for the start of a run that may end without starting.
StartAwaited(r) == r \in started

\* _wait_for_prompt_start_or_completion.
StartedOrCompleted(r) == r \in started \/ r \in completed

\* Inside the lock: reject, wait for the pending run to start, queue the
\* message for the running run, or start a turn.
SteerEnters(x) ==
  LET s == sess[x] IN
  /\ SteeringLockGranted(x)
  /\ \/ /\ s \notin open \/ s \in closing
        /\ AnswerSteer(x, "rejected")
        /\ UNCHANGED <<target, inbox, task, registered, born, now>>
     \/ /\ s \in open /\ s \notin closing
        /\ \E r \in Runs :
             /\ IsCurrentPromptRun(r, s)
             /\ \/ r \in started /\ EnqueueFor(x, r)
                \/ /\ r \notin started
                   /\ steer' = [steer EXCEPT ![x] = "waitStart"]
                   /\ target' = [target EXCEPT ![x] = r]
                   /\ UNCHANGED <<outcome, inbox, task, registered, born, now>>
     \/ /\ s \in open /\ s \notin closing /\ Pending(s) = {}
        /\ StartSteeringTurn(x)
        /\ UNCHANGED inbox
  /\ UNCHANGED unchangedBySteering

\* The pending run started or completed: queue the message for it, or start a
\* turn.
SteerRunStartedOrCompleted(x) ==
  LET r == target[x] IN
  /\ steer[x] = "waitStart" /\ StartedOrCompleted(r)
  /\ \/ r \in started \ completed /\ EnqueueFor(x, r)
     \/ r \in completed /\ StartSteeringTurn(x) /\ UNCHANGED inbox
  /\ UNCHANGED unchangedBySteering

\* _wait_for_delivery_or_completion is over: a message that no model step
\* took is claimed back (claim_pending) and becomes a turn of its own.
SteerDeliveredOrCompleted(x) ==
  /\ steer[x] = "waitDelivery" /\ (x \in delivered \/ target[x] \in completed)
  /\ \/ /\ x \in delivered \/ x \notin inbox
        /\ SteerReturns(x, "injected")
        /\ UNCHANGED <<inbox, target, task, registered, born, now>>
     \/ /\ x \notin delivered /\ x \in inbox
        /\ Dequeue({x})
        /\ StartSteeringTurn(x)
  /\ UNCHANGED unchangedBySteering

\* mutant: a turn that ended without starting counts as started.
OutcomeAnyway(result) == "startedNewTurn"

\* What becomes of a request whose own turn ended without starting: `await
\* task` raises what the turn raised.  ext_method passes a RequestError on,
\* reports another error as "failed" and does not catch a CancelledError; a
\* turn that answered is a RequestError, "turn did not start".
OutcomeOfUnstarted(result) ==
  IF result = "aborted" THEN "aborted"
  ELSE IF result = "error" THEN "failed" ELSE "rejected"

\* The turn it started began, or ended without beginning.
SteerOwnTurn(x) ==
  /\ steer[x] = "waitOwnTurn"
  /\ \/ x \in started /\ SteerReturns(x, "startedNewTurn")
     \/ /\ x \in completed \ started /\ task[x] = "done"
        /\ AnswerSteer(x, OutcomeOfUnstarted(answer[x]))
  /\ UNCHANGED <<target, inbox, task, registered, born, now>>
  /\ UNCHANGED unchangedBySteering

\* ext_notification tells the client that its message was applied, and the
\* answer is "injected", also for a turn of its own; or it raises, and the
\* answer is "failed" although the message was taken.
SteerAcknowledged(x) ==
  /\ steer[x] = "notify"
  /\ AnswerSteer(x, "injected") \/ AnswerSteer(x, "failed")
  /\ UNCHANGED <<target, inbox, task, registered, born, now>>
  /\ UNCHANGED unchangedBySteering

-----------------------------------------------------------------------------
Requests ==
  \E s \in Sessions :
    \/ \E p \in Prompts : Prompt(p, s)
    \/ \E x \in Steers : SteerArrives(x, s)
    \/ Cancel(s)
    \/ \E e \in Ends : EndSession(e, s)

\* What the scheduler runs for a turn's task once it is ready.
RunStep(r) ==
  \/ AcquirePromptLock(r)
  \/ TurnEnds(r)
  \/ CancellationDelivered(r)

BackgroundStep(x) ==
  \/ TurnTaskFirstStep(x)
  \/ TurnTaskCancelledUnstarted(x)

SteerStep(x) ==
  \/ SteerEnters(x)
  \/ SteerRunStartedOrCompleted(x)
  \/ SteerDeliveredOrCompleted(x)
  \/ SteerOwnTurn(x)
  \/ SteerAcknowledged(x)

EndStep(e) == EndSessionGathered(e) \/ EndSessionTeardown(e)

\* Every request that arrived has been answered and no task is left.
Quiescent ==
  /\ \A r \in Runs : task[r] \notin Live
  /\ \A x \in Steers : steer[x] \in {"idle", "answered"}
  /\ \A e \in Ends : end[e] \notin {"gather", "teardown"}

Idle == Quiescent /\ UNCHANGED vars

Next ==
  \/ Requests
  \/ \E r \in Runs : RunStep(r) \/ DrainMessages(r) \/ TurnSwallowsCancellation(r)
  \/ \E x \in Steers : BackgroundStep(x) \/ SteerStep(x)
  \/ \E e \in Ends : EndStep(e)
  \/ Idle

\* asyncio runs every ready task, and Bub's turns end; nothing makes a client
\* send a request, a model step drain the inbox or a turn swallow a
\* cancellation.
Fairness ==
  /\ \A r \in Runs : WF_vars(RunStep(r))
  /\ \A x \in Steers : WF_vars(BackgroundStep(x)) /\ WF_vars(SteerStep(x))
  /\ \A e \in Ends : WF_vars(EndStep(e))

Spec == Init /\ [][Next]_vars
FairSpec == Spec /\ Fairness

-----------------------------------------------------------------------------
(***************************************************************************)
(* Properties.                                                             *)
(***************************************************************************)

\* Every variable has the values its use in the code gives it.
RunTypes ==
  /\ sess \in [Runs -> Sessions \cup {NoSession}]
  /\ task \in [Runs -> {"none", "done"} \cup Live]
  /\ registered \in SUBSET Runs /\ completed \in SUBSET Runs
  /\ started \in SUBSET Runs /\ cancelRequested \in SUBSET Runs
  /\ pendingCancel \in SUBSET Runs
  /\ born \in [Runs -> Nat] /\ line \in [Runs -> Nat]
  /\ cancels \in [Runs -> Nat]
  /\ answer \in [Runs -> {"none", "end_turn", "cancelled", "error",
                          "rejected", "aborted"}]
  /\ lock \in Runs \cup {NoRun}
SteerTypes ==
  /\ steer \in [Steers -> {"idle", "waitLock", "notify", "answered"}
                           \cup InCriticalSection]
  /\ outcome \in [Steers -> {"none", "rejected", "failed", "aborted",
                             "injected", "startedNewTurn"}]
  /\ target \in [Steers -> Runs \cup {NoRun}]
  /\ lockObject \in [Steers -> Nat] /\ asked \in [Steers -> Nat]
  /\ inbox \in SUBSET Steers /\ delivered \in SUBSET Steers
  /\ consumed \in [Steers -> SUBSET Runs]
EndTypes ==
  /\ end \in [Ends -> {"idle", "refused", "gather", "teardown", "ended", "failed"}]
  /\ ending \in [Ends -> [session : Sessions \cup {NoSession},
                          restores : BOOLEAN, runs : SUBSET Runs]]
  /\ \A e \in Ends :
       end[e] \in {"gather", "teardown"} => ending[e].session \in Sessions
  /\ generation \in [Sessions -> Nat]
TypeOK ==
  /\ open \in SUBSET Sessions /\ closing \in SUBSET Sessions
  /\ RunTypes /\ SteerTypes /\ EndTypes
  /\ now \in Nat

\* While _end_session stops the session's MCP channel and resets its tape, no
\* task of a turn of that session exists, however prompts, steering requests
\* and cancellations interleaved with the close.
TeardownIsQuiet ==
  \A e \in Ends : end[e] = "teardown" => LiveRunsOf(ending[e].session) = {}

\* A steering message reaches model steps of at most one turn, and the outcome
\* reported for it says which: "startedNewTurn" for a turn of its own,
\* "injected" for another run's model step or, to a request with a steerId, for
\* either, and an error or a request that raises for none.  Only a request with
\* a steerId may hear "failed" of a message that was taken.
SteeringExactlyOnce ==
  \A x \in Steers :
    /\ \A q, r \in consumed[x] : q = r
    /\ outcome[x] = "injected" =>
         \E r \in Runs : consumed[x] = {r} /\ (r # x \/ x \in WithSteerId)
    /\ outcome[x] = "startedNewTurn" => consumed[x] = {x}
    /\ outcome[x] \in {"rejected", "aborted"} => consumed[x] = {}
    /\ outcome[x] = "failed" => consumed[x] = {} \/ x \in WithSteerId

\* A prompt that session/cancel stopped and no close interrupted answers
\* "cancelled", never a normal stop reason and never an abort, however often
\* the cancellation was repeated or swallowed; and no other prompt does.
InterruptedByEnd(r) == \E e \in Ends : r \in ending[e].runs
CancelIsAnswered ==
  \A r \in Runs :
    /\ answer[r] \in {"end_turn", "rejected"} => r \notin cancelRequested
    /\ answer[r] = "aborted" /\ task[r] = "done" =>
         InterruptedByEnd(r) \/ (r \in Steers /\ r \notin completed)
    /\ answer[r] = "cancelled" => r \in cancelRequested

\* The same promise, step by step: every step of the agent is one a steering
\* inbox may take, or none that concerns steering (SteeringDelivery).
Fate(x) ==
  IF steer[x] = "idle" THEN "absent"
  ELSE IF x \in inbox THEN "queued"
  ELSE IF consumed[x] = {} THEN "held"
  ELSE IF x \in consumed[x] THEN "ownTurn" ELSE "injected"
Delivery == INSTANCE SteeringDelivery WITH
  Messages <- Steers,
  Acknowledged <- WithSteerId,
  fate <- [x \in Steers |-> Fate(x)],
  report <- outcome
ImplementsSteeringDelivery == Delivery!Spec

\* Two messages queued for one session by way of the same steering lock are
\* consumed in the order in which their requests arrived: once a later one is
\* consumed, the earlier request has left the lock.
SteeringKeepsArrivalOrder ==
  \A x, y \in Steers :
    (sess[x] = sess[y] /\ lockObject[x] = lockObject[y] /\ asked[x] < asked[y]
       /\ steer[x] # "idle" /\ consumed[y] # {})
    => steer[x] \in {"notify", "answered"}

\* Every steering request is answered, every prompt that was accepted ends,
\* and every close or delete ends.
SteersAnswered ==
  \A x \in Steers : (steer[x] = "waitLock") ~> (steer[x] = "answered")
PromptsAnswered ==
  \A p \in Prompts : (task[p] = "queued") ~> (answer[p] # "none")
EndsFinish ==
  \A e \in Ends : (end[e] = "gather") ~> (end[e] \in {"ended", "failed"})

\* All of them: _execute_or_queue_steering, _run_prompt and _end_session come to an end.
RequestsEnd == SteersAnswered /\ PromptsAnswered /\ EndsFinish

\* Requests of one kind are interchangeable, for TLC.
RequestSymmetry ==
  Permutations(Sessions) \cup Permutations(Prompts)
    \cup Permutations(WithSteerId) \cup Permutations(Steers \ WithSteerId)
=============================================================================
