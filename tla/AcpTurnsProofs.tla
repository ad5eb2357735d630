--------------------------- MODULE AcpTurnsProofs ---------------------------
(* Theorems about AcpTurns for every set of requests, checked by TLAPS. *)
EXTENDS AcpTurns, TLAPS

-----------------------------------------------------------------------------
(***************************************************************************)
(* Type correctness.                                                       *)
(***************************************************************************)

\* The groups of TypeOK that an action leaves alone.
LEMMA RunTypesKept == RunTypes /\ UNCHANGED runVars => RunTypes'
  BY DEF RunTypes, runVars
\* Steps that leave the steerings alone keep their types,
LEMMA SteerTypesKept == SteerTypes /\ UNCHANGED steerVars => SteerTypes'
  BY DEF SteerTypes, steerVars
\* and steps that leave the ends of sessions alone keep theirs.
LEMMA EndTypesKept == EndTypes /\ UNCHANGED endVars => EndTypes'
  BY DEF EndTypes, endVars

\* The steps of one task or request keep the types.
LEMMA RequestsType == TypeOK /\ Requests => TypeOK'
<1> SUFFICES ASSUME TypeOK, Requests PROVE TypeOK'
  OBVIOUS
<1>1. ASSUME NEW p \in Prompts, NEW s \in Sessions, Prompt(p, s) PROVE TypeOK'
  <2>1. RunTypes'
    BY <1>1 DEF Prompt, TypeOK, RunTypes, Runs, Live
  <2>2. SteerTypes' /\ EndTypes'
    BY <1>1, SteerTypesKept, EndTypesKept DEF Prompt, TypeOK
  <2> QED
    BY <1>1, <2>1, <2>2 DEF Prompt, TypeOK
<1>2. ASSUME NEW x \in Steers, NEW s \in Sessions, SteerArrives(x, s)
      PROVE TypeOK'
  <2>1. RunTypes'
    BY <1>2 DEF SteerArrives, TypeOK, RunTypes, Runs
  <2>2. SteerTypes' /\ EndTypes'
    BY <1>2, EndTypesKept DEF SteerArrives, TypeOK, SteerTypes, EndTypes
  <2> QED
    BY <1>2, <2>1, <2>2 DEF SteerArrives, TypeOK
<1>3. ASSUME NEW s \in Sessions, Cancel(s) PROVE TypeOK'
  <2>1. RunTypes'
    BY <1>3 DEF Cancel, CancelTasks, Cancellable, RunsOf, TypeOK, RunTypes
  <2> QED
    BY <1>3, <2>1, SteerTypesKept, EndTypesKept DEF Cancel, TypeOK
<1>4. ASSUME NEW e \in Ends, NEW s \in Sessions, EndSession(e, s) PROVE TypeOK'
  <2>1. RunTypes'
    BY <1>4 DEF EndSession, CancelTasks, RunsOf, TypeOK, RunTypes
  <2>2. RunsOf(s) \in SUBSET Runs
    BY DEF TypeOK, RunTypes, RunsOf
  <2>3. EndTypes'
    BY <1>4, <2>2 DEF EndSession, TypeOK, EndTypes
  <2> QED
    BY <1>4, <2>1, <2>3, SteerTypesKept DEF EndSession, TypeOK
<1> QED
  BY <1>1, <1>2, <1>3, <1>4 DEF Requests

\* The steps of the runs of turns keep TypeOK.
LEMMA RunsType ==
  ASSUME TypeOK, NEW r \in Runs,
         RunStep(r) \/ DrainMessages(r) \/ TurnSwallowsCancellation(r)
  PROVE  TypeOK'
<1> USE DEF RunTypes
<1>1. ASSUME NEW result \in {"end_turn", "cancelled", "error", "rejected",
                             "aborted"},
             FinishTurn(r, result), pendingCancel' \in SUBSET pendingCancel,
             UNCHANGED <<sess, started, cancelRequested, born, cancels, line>>
      PROVE  RunTypes'
  BY <1>1 DEF FinishTurn, CompletePromptRuns, TypeOK
<1>2. CASE AcquirePromptLock(r)
  <2>1. SteerTypes'
    BY <1>2 DEF AcquirePromptLock, TypeOK, SteerTypes
  <2>2. RunTypes'
    <3>1. CASE (FinishTurn(r, "rejected") \/ FinishTurn(r, "error")) /\ UNCHANGED started
      BY <1>1, <1>2, <3>1 DEF AcquirePromptLock
    <3>2. CASE lock' = r
      BY <1>2, <3>2 DEF AcquirePromptLock, TypeOK, Live, FinishTurn,
                        CompletePromptRuns
    <3> QED
      BY <1>2, <3>1, <3>2 DEF AcquirePromptLock
  <2> QED
    BY <1>2, <2>1, <2>2, EndTypesKept DEF AcquirePromptLock, TypeOK
<1>3. CASE TurnEnds(r)
  <2>1. RunTypes'
    BY <1>1, <1>3 DEF TurnEnds
  <2> QED
    BY <1>3, <2>1, SteerTypesKept, EndTypesKept DEF TurnEnds, TypeOK
<1>4. CASE CancellationDelivered(r)
  <2>1. RunTypes'
    BY <1>1, <1>4 DEF CancellationDelivered, CancelledAnswer
  <2> QED
    BY <1>4, <2>1, SteerTypesKept, EndTypesKept
    DEF CancellationDelivered, TypeOK
<1>5. CASE DrainMessages(r)
  <2>1. SteerTypes'
    BY <1>5 DEF DrainMessages, Dequeue, TypeOK, SteerTypes
  <2> QED
    BY <1>5, <2>1, RunTypesKept, EndTypesKept DEF DrainMessages, TypeOK
<1>6. CASE TurnSwallowsCancellation(r)
  <2>1. RunTypes'
    BY <1>6 DEF TurnSwallowsCancellation, TypeOK
  <2> QED
    BY <1>6, <2>1, SteerTypesKept, EndTypesKept
    DEF TurnSwallowsCancellation, TypeOK
<1> QED
  BY <1>2, <1>3, <1>4, <1>5, <1>6 DEF RunStep

\* What a step of a steering request may change, with its types.
SteeringTypes ==
  /\ steer \in [Steers -> {"idle", "waitLock", "notify", "answered"}
                           \cup InCriticalSection]
  /\ outcome \in [Steers -> {"none", "rejected", "failed", "aborted",
                             "injected", "startedNewTurn"}]
  /\ target \in [Steers -> Runs \cup {NoRun}]
  /\ inbox \in SUBSET Steers
  /\ task \in [Runs -> {"none", "done"} \cup Live]
  /\ registered \in SUBSET Runs
  /\ born \in [Runs -> Nat]
  /\ now \in Nat

\* A step of a steering keeps TypeOK if it keeps the types of what it changes.
LEMMA SteeringTypesSuffice ==
  ASSUME TypeOK, SteeringTypes', UNCHANGED unchangedBySteering PROVE TypeOK'
<1>1. RunTypes'
  BY DEF TypeOK, RunTypes, SteeringTypes, unchangedBySteering
<1>2. SteerTypes'
  BY DEF TypeOK, SteerTypes, SteeringTypes, unchangedBySteering
<1> QED
  BY <1>1, <1>2, EndTypesKept DEF TypeOK, SteeringTypes, unchangedBySteering

\* The steps of the steerings keep TypeOK.
LEMMA SteersType ==
  ASSUME TypeOK, NEW x \in Steers, BackgroundStep(x) \/ SteerStep(x)
  PROVE  TypeOK'
<1> USE DEF RunTypes, SteerTypes
<1>1. CASE TurnTaskFirstStep(x)
  <2>1. RunTypes'
    BY <1>1 DEF TurnTaskFirstStep, TypeOK, Live
  <2> QED
    BY <1>1, <2>1, SteerTypesKept, EndTypesKept DEF TurnTaskFirstStep, TypeOK
<1>2. CASE TurnTaskCancelledUnstarted(x)
  <2>1. RunTypes'
    BY <1>2 DEF TurnTaskCancelledUnstarted, TypeOK
  <2> QED
    BY <1>2, <2>1, SteerTypesKept, EndTypesKept
    DEF TurnTaskCancelledUnstarted, TypeOK
<1>3. x \in Runs
  BY DEF Runs
<1>4. ASSUME StartSteeringTurn(x), inbox' \in SUBSET inbox
      PROVE SteeringTypes'
  BY <1>3, <1>4 DEF StartSteeringTurn, AnswerSteer, TypeOK, SteeringTypes,
                    Live, InCriticalSection
<1>5. ASSUME NEW r \in Runs, EnqueueFor(x, r) PROVE SteeringTypes'
  BY <1>5 DEF EnqueueFor, TypeOK, SteeringTypes, InCriticalSection
<1>6. ASSUME NEW result \in {"rejected", "failed", "aborted", "injected",
                             "startedNewTurn"},
             AnswerSteer(x, result) \/ SteerReturns(x, result),
             inbox' = inbox, UNCHANGED <<target, task, registered, born, now>>
      PROVE  SteeringTypes'
  BY <1>6 DEF AnswerSteer, SteerReturns, TypeOK, SteeringTypes
<1>7. CASE SteerEnters(x)
  <2>1. ASSUME NEW r \in Runs, steer' = [steer EXCEPT ![x] = "waitStart"],
               target' = [target EXCEPT ![x] = r],
               UNCHANGED <<outcome, inbox, task, registered, born, now>>
        PROVE  SteeringTypes'
    BY <2>1 DEF TypeOK, SteeringTypes, InCriticalSection
  <2>2. SteeringTypes'
    BY <1>4, <1>5, <1>6, <1>7, <2>1 DEF SteerEnters
  <2> QED
    BY <1>7, <2>2, SteeringTypesSuffice DEF SteerEnters
<1>8. CASE SteerRunStartedOrCompleted(x)
  <2>1. target[x] \in started => target[x] \in Runs
    BY DEF TypeOK
  <2>2. SteeringTypes'
    BY <1>4, <1>5, <1>8, <2>1 DEF SteerRunStartedOrCompleted
  <2> QED
    BY <1>8, <2>2, SteeringTypesSuffice DEF SteerRunStartedOrCompleted
<1>9. CASE SteerDeliveredOrCompleted(x)
  <2>1. SteeringTypes'
    BY <1>4, <1>6, <1>9 DEF SteerDeliveredOrCompleted, Dequeue
  <2> QED
    BY <1>9, <2>1, SteeringTypesSuffice DEF SteerDeliveredOrCompleted
<1>10. CASE SteerOwnTurn(x)
  <2>1. OutcomeOfUnstarted(answer[x]) \in {"rejected", "failed", "aborted"}
    BY DEF OutcomeOfUnstarted
  <2>2. SteeringTypes'
    BY <1>6, <1>10, <2>1 DEF SteerOwnTurn
  <2> QED
    BY <1>10, <2>2, SteeringTypesSuffice DEF SteerOwnTurn
<1>11. CASE SteerAcknowledged(x)
  <2>1. SteeringTypes'
    BY <1>6, <1>11 DEF SteerAcknowledged
  <2> QED
    BY <1>11, <2>1, SteeringTypesSuffice DEF SteerAcknowledged
<1> QED
  BY <1>1, <1>2, <1>7, <1>8, <1>9, <1>10, <1>11 DEF BackgroundStep, SteerStep

\* The steps of closes, deletes and the shutdown keep TypeOK.
LEMMA EndsType == ASSUME TypeOK, NEW e \in Ends, EndStep(e) PROVE TypeOK'
<1>1. ending[e].runs \subseteq Runs
  BY DEF TypeOK, EndTypes
<1>2. end[e] = "teardown" => ending[e].session \in Sessions
  BY DEF TypeOK, EndTypes
<1>3. CASE EndSessionGathered(e)
  <2>1. RunTypes' /\ EndTypes'
    BY <1>1, <1>3
    DEF EndSessionGathered, CompletePromptRuns, TypeOK, RunTypes, EndTypes
  <2> QED
    BY <1>3, <2>1, SteerTypesKept DEF EndSessionGathered, TypeOK
<1>4. CASE EndSessionTeardown(e)
  <2>1. EndTypes'
    BY <1>4 DEF EndSessionTeardown, TypeOK, EndTypes
  <2>2. open' \in SUBSET Sessions /\ closing' \in SUBSET Sessions
    BY <1>2, <1>4 DEF EndSessionTeardown, TypeOK
  <2> QED
    BY <1>4, <2>1, <2>2, RunTypesKept, SteerTypesKept
    DEF EndSessionTeardown, TypeOK
<1> QED
  BY <1>3, <1>4 DEF EndStep

\* A stuttering step keeps TypeOK.
LEMMA StutterType == TypeOK /\ UNCHANGED vars => TypeOK'
  BY RunTypesKept, SteerTypesKept, EndTypesKept DEF TypeOK, vars

\* Every step keeps TypeOK.
LEMMA TypeInductive == TypeOK /\ [Next]_vars => TypeOK'
  BY RequestsType, RunsType, SteersType, EndsType, StutterType DEF Next, Idle

\* Every reachable state has the types the code gives its variables.
THEOREM TypeCorrect == Spec => []TypeOK
<1>1. Init => TypeOK
  BY DEF Init, TypeOK, RunTypes, SteerTypes, EndTypes, Live, InCriticalSection,
         Runs, NoEnding
<1> QED
  BY <1>1, TypeInductive, PTL DEF Spec

-----------------------------------------------------------------------------
(***************************************************************************)
(* The inductive invariant: named parts, each about one mechanism.         *)
(***************************************************************************)

Active(e) == end[e] \in {"gather", "teardown"}

\* A run is in its deque as long as a task executes it.
RunInv ==
  /\ \A r \in Runs : task[r] \in Live => r \in registered
  /\ registered \cap completed = {}
  /\ \A r \in registered \cup completed \cup started \cup cancelRequested :
       task[r] # "none"
  /\ \A e \in Ends : \A r \in ending[e].runs : task[r] # "none"
  /\ \A r \in pendingCancel : task[r] \in Live
  /\ \A r \in Runs : task[r] \in {"created", "queued"} => r \notin started

\* An active close owns its session and knows every live run of it.
EndInv ==
  /\ \A e \in Ends : Active(e) =>
       ending[e].session \in closing /\ ending[e].session \notin open
  /\ \A e, f \in Ends :
       Active(e) /\ Active(f) /\ ending[e].session = ending[f].session => e = f
  /\ \A e \in Ends : end[e] = "gather" =>
       LiveRunsOf(ending[e].session) \subseteq ending[e].runs
  /\ TeardownIsQuiet

\* Where a steering message is, given where its request stands.
Injected(x) == \E r \in Runs \ {x} : consumed[x] = {r}
Taken(x) == \/ task[x] = "none" /\ Injected(x)
            \/ task[x] # "none" /\ consumed[x] = {x}
NotYetSent == {"idle", "waitLock", "waitStart"}
SteerAt(x) ==
  /\ steer[x] \in NotYetSent =>
       /\ outcome[x] = "none" /\ task[x] = "none" /\ consumed[x] = {}
       /\ x \notin inbox /\ x \notin delivered
  /\ steer[x] = "waitDelivery" =>
       /\ outcome[x] = "none" /\ task[x] = "none"
       /\ \/ x \in inbox /\ x \notin delivered /\ consumed[x] = {}
          \/ x \notin inbox /\ x \in delivered /\ Injected(x)
  /\ steer[x] = "waitOwnTurn" =>
       /\ outcome[x] = "none" /\ task[x] # "none" /\ x \notin inbox
       /\ consumed[x] = IF x \in started THEN {x} ELSE {}
  /\ steer[x] = "notify" =>
       outcome[x] = "none" /\ x \in WithSteerId /\ x \notin inbox /\ Taken(x)
  /\ steer[x] = "answered" =>
       /\ x \notin inbox
       /\ \/ x \in WithSteerId /\ outcome[x] \in {"injected", "failed"} /\ Taken(x)
          \/ outcome[x] = "injected" /\ task[x] = "none" /\ Injected(x)
          \/ outcome[x] = "startedNewTurn" /\ task[x] # "none" /\ consumed[x] = {x}
          \/ /\ outcome[x] \in {"rejected", "failed", "aborted"}
             /\ consumed[x] = {} /\ task[x] \in {"none", "done"}
  /\ task[x] \in {"created", "queued"} => steer[x] = "waitOwnTurn"
SteerInv == \A x \in Steers : SteerAt(x)

\* A run that no close collected carries at most the one cancellation of
\* session/cancel, and keeps it pending until its turn starts.
CancelInv ==
  /\ \A e \in Ends : end[e] = "idle" => ending[e].runs = {}
  /\ \A r \in pendingCancel : cancels[r] > 0
  /\ \A r \in Runs : InterruptedByEnd(r) \/
       cancels[r] = 0 \/ (cancels[r] = 1 /\ r \in cancelRequested)
  /\ \A r \in cancelRequested :
       task[r] \in {"created", "queued"} => r \in pendingCancel
  /\ \A r \in Runs : answer[r] \in {"end_turn", "rejected", "cancelled"} =>
       r \notin registered
  /\ \A x \in Steers : task[x] = "none" => answer[x] = "none"
  /\ CancelIsAnswered

IInv == TypeOK /\ RunInv /\ EndInv /\ SteerInv /\ CancelInv

-----------------------------------------------------------------------------
(***************************************************************************)
(* Every step preserves each part.                                         *)
(***************************************************************************)

\* All that the steering requests do to the turns: at most start one of an
\* open session.
LEMMA SteerStepMoves ==
  ASSUME SteerInv, NEW x \in Steers, SteerStep(x)
  PROVE  /\ UNCHANGED unchangedBySteering
         /\ \/ UNCHANGED <<task, registered>>
            \/ /\ task[x] = "none" /\ sess[x] \in open /\ sess[x] \notin closing
               /\ task' = [task EXCEPT ![x] = "created"]
               /\ registered' = registered \cup {x}
<1>1. CASE SteerEnters(x)
  BY <1>1 DEF SteerEnters, SteerInv, SteerAt, NotYetSent, SteeringLockGranted,
              StartSteeringTurn, EnqueueFor
<1>2. CASE SteerRunStartedOrCompleted(x)
  BY <1>2 DEF SteerRunStartedOrCompleted, SteerInv, SteerAt, NotYetSent,
              StartSteeringTurn, EnqueueFor
<1>3. CASE SteerDeliveredOrCompleted(x)
  BY <1>3 DEF SteerDeliveredOrCompleted, SteerInv, SteerAt, StartSteeringTurn
<1>4. CASE SteerOwnTurn(x) \/ SteerAcknowledged(x)
  BY <1>4 DEF SteerOwnTurn, SteerAcknowledged
<1> QED
  BY <1>1, <1>2, <1>3, <1>4 DEF SteerStep

\* The end of a turn keeps RunInv, whatever it answers.
LEMMA FinishTurnRunInv ==
  ASSUME TypeOK, RunInv, NEW r \in Runs, NEW result, FinishTurn(r, result),
         task[r] \in Live, pendingCancel' \subseteq pendingCancel \ {r},
         UNCHANGED <<started, cancelRequested, ending>>
  PROVE  RunInv'
BY DEF RunInv, TypeOK, RunTypes, Live, FinishTurn, CompletePromptRuns

\* Every step keeps what the invariant says of runs.
LEMMA RunInvStep ==
  ASSUME TypeOK, RunInv, SteerInv, [Next]_vars
  PROVE  RunInv'
<1> USE DEF RunInv, TypeOK, RunTypes, Live
<1>1. ASSUME NEW p \in Prompts, NEW s \in Sessions, Prompt(p, s) PROVE RunInv'
  <2>1. p \in Runs
    BY DEF Runs
  <2>2. CASE UNCHANGED <<task, registered>>
    BY <1>1, <2>2 DEF Prompt, endVars
  <2>3. CASE /\ task' = [task EXCEPT ![p] = "queued"]
             /\ registered' = registered \cup {p}
    <3>1. UNCHANGED <<completed, started, cancelRequested, pendingCancel, ending>>
      BY <1>1 DEF Prompt, endVars
    <3>2. task[p] = "none"
      BY <1>1 DEF Prompt
    <3> QED
      BY <2>1, <2>3, <3>1, <3>2
  <2> QED
    BY <1>1, <2>2, <2>3 DEF Prompt
<1>2. ASSUME NEW x \in Steers, NEW s \in Sessions, SteerArrives(x, s)
      PROVE  RunInv'
  BY <1>2 DEF SteerArrives, endVars
<1>3. ASSUME NEW s \in Sessions, Cancel(s) PROVE RunInv'
  BY <1>3 DEF Cancel, CancelTasks, Cancellable, RunsOf, endVars
<1>4. ASSUME NEW e \in Ends, NEW s \in Sessions, EndSession(e, s)
      PROVE  RunInv'
  <2>1. UNCHANGED <<task, registered, completed, started, cancelRequested>>
    BY <1>4 DEF EndSession
  <2>2. \A r \in pendingCancel' : task[r] \in {"created", "queued", "turn"}
    BY <1>4 DEF EndSession, CancelTasks
  <2>3. \A f \in Ends : \A r \in ending'[f].runs : task[r] # "none"
    BY <1>4 DEF EndSession, RunsOf, EndTypes
  <2> QED
    BY <2>1, <2>2, <2>3
<1>5. ASSUME NEW r \in Runs, AcquirePromptLock(r) PROVE RunInv'
  <2>1. CASE (FinishTurn(r, "rejected") \/ FinishTurn(r, "error")) /\ UNCHANGED started
    BY <1>5, <2>1, FinishTurnRunInv DEF AcquirePromptLock, NextInLine, endVars
  <2>2. CASE /\ started' = started \cup {r}
             /\ task' = [task EXCEPT ![r] = "turn"]
             /\ UNCHANGED <<completed, registered>>
    BY <1>5, <2>2 DEF AcquirePromptLock, NextInLine, endVars
  <2> QED
    BY <1>5, <2>1, <2>2 DEF AcquirePromptLock
<1>6. ASSUME NEW r \in Runs, TurnEnds(r) PROVE RunInv'
  BY <1>6, FinishTurnRunInv DEF TurnEnds, endVars
<1>7. ASSUME NEW r \in Runs, CancellationDelivered(r) PROVE RunInv'
  BY <1>7, FinishTurnRunInv DEF CancellationDelivered, endVars
<1>8. ASSUME NEW r \in Runs, DrainMessages(r) PROVE RunInv'
  BY <1>8 DEF DrainMessages, runVars, endVars
<1>9. ASSUME NEW r \in Runs, TurnSwallowsCancellation(r) PROVE RunInv'
  BY <1>9 DEF TurnSwallowsCancellation, endVars
<1>10. ASSUME NEW x \in Steers, TurnTaskFirstStep(x) PROVE RunInv'
  BY <1>10 DEF TurnTaskFirstStep, endVars
<1>11. ASSUME NEW x \in Steers, TurnTaskCancelledUnstarted(x) PROVE RunInv'
  BY <1>11 DEF TurnTaskCancelledUnstarted, endVars
<1>12. ASSUME NEW e \in Ends, EndSessionGathered(e) PROVE RunInv'
  <2>1. ending[e].runs \subseteq Runs
    BY DEF EndTypes
  <2>2. \A r \in ending[e].runs : task[r] \notin {"none"} \cup Live
    BY <1>12 DEF EndSessionGathered, Gathered
  <2> QED
    BY <1>12, <2>1, <2>2 DEF EndSessionGathered, CompletePromptRuns
<1>13. ASSUME NEW e \in Ends, EndSessionTeardown(e) PROVE RunInv'
  BY <1>13 DEF EndSessionTeardown, runVars
<1>14. ASSUME NEW x \in Steers, SteerStep(x) PROVE RunInv'
  <2>1. x \in Runs
    BY DEF Runs
  <2>2. UNCHANGED <<completed, started, cancelRequested, pendingCancel, ending>>
    BY <1>14, SteerStepMoves DEF unchangedBySteering, endVars
  <2>3. CASE UNCHANGED <<task, registered>>
    BY <2>2, <2>3
  <2>4. CASE /\ task[x] = "none"
             /\ task' = [task EXCEPT ![x] = "created"]
             /\ registered' = registered \cup {x}
    BY <2>1, <2>2, <2>4
  <2> QED
    BY <1>14, <2>3, <2>4, SteerStepMoves
<1>15. CASE UNCHANGED vars
  BY <1>15 DEF vars, runVars, endVars
<1> QED
  BY <1>1, <1>2, <1>3, <1>4, <1>5, <1>6, <1>7, <1>8, <1>9, <1>10, <1>11,
     <1>12, <1>13, <1>14, <1>15
  DEF Next, Requests, RunStep, BackgroundStep, EndStep, Idle

\* A close of a session sees the same turns as before when no run of that
\* session was added and none changed its session.
LEMMA EndInvFrame ==
  ASSUME EndInv, UNCHANGED <<end, ending, open, closing>>,
         \A e \in Ends : Active(e) =>
           LiveRunsOf(ending[e].session)' \subseteq LiveRunsOf(ending[e].session)
  PROVE  EndInv'
BY DEF EndInv, Active, TeardownIsQuiet

\* Every step keeps what it says of ends.
LEMMA EndInvStep ==
  ASSUME TypeOK, RunInv, SteerInv, EndInv, [Next]_vars
  PROVE  EndInv'
<1> USE DEF TypeOK, RunTypes
<1>1. ASSUME NEW p \in Prompts, NEW s \in Sessions, Prompt(p, s) PROVE EndInv'
  <2>1. \A e \in Ends : Active(e) => ending[e].session # s \/ task' = task
    BY <1>1 DEF Prompt, EndInv, AdoptRefused
  <2>2. \A e \in Ends : Active(e) =>
          LiveRunsOf(ending[e].session)' \subseteq LiveRunsOf(ending[e].session)
    BY <1>1, <2>1 DEF Prompt, LiveRunsOf, Live, TypeOK, RunTypes, Runs, endVars
  <2>3. \A e \in Ends : Active(e) => ending[e].session \notin open'
    BY <1>1 DEF Prompt, EndInv, AdoptRefused
  <2> QED
    BY <1>1, <2>2, <2>3 DEF Prompt, endVars, EndInv, Active, TeardownIsQuiet
<1>2. ASSUME NEW x \in Steers, NEW s \in Sessions, SteerArrives(x, s)
      PROVE  EndInv'
  <2>1. task[x] = "none"
    BY <1>2 DEF SteerArrives, SteerInv, SteerAt, NotYetSent
  <2>2. \A e \in Ends :
          LiveRunsOf(ending[e].session)' \subseteq LiveRunsOf(ending[e].session)
    BY <1>2, <2>1 DEF SteerArrives, LiveRunsOf, Live, TypeOK, RunTypes, endVars
  <2> QED
    BY <1>2, <2>2, EndInvFrame DEF SteerArrives, endVars
<1>3. ASSUME NEW s \in Sessions, Cancel(s) PROVE EndInv'
  <2>1. \A e \in Ends :
          LiveRunsOf(ending[e].session)' \subseteq LiveRunsOf(ending[e].session)
    BY <1>3 DEF Cancel, LiveRunsOf, endVars
  <2> QED
    BY <1>3, <2>1, EndInvFrame DEF Cancel, endVars
<1>4. ASSUME NEW e \in Ends, NEW s \in Sessions, EndSession(e, s)
      PROVE  EndInv'
  <2>1. CASE UNCHANGED <<open, closing, ending>> /\ end' = [end EXCEPT ![e] = "refused"]
    BY <1>4, <2>1 DEF EndSession, EndInv, Active, TeardownIsQuiet, LiveRunsOf, EndTypes
  <2>3. CASE /\ s \notin closing /\ open' \in {open \ {s}, open \cup {s}}
             /\ end' = [end EXCEPT ![e] = "failed"] /\ UNCHANGED <<closing, ending>>
    <3>1. \A f \in Ends : Active(f)' => Active(f) /\ end'[f] = end[f]
      BY <2>3 DEF Active, EndTypes
    <3>2. \A f \in Ends : Active(f) => ending[f].session # s
      BY <2>3 DEF EndInv
    <3>3. UNCHANGED <<sess, task>>
      BY <1>4 DEF EndSession
    <3> QED
      BY <2>3, <3>1, <3>2, <3>3 DEF EndInv, Active, TeardownIsQuiet, LiveRunsOf
  <2>2. CASE s \notin closing /\ end'[e] = "gather"
    <3>1. \A f \in Ends : Active(f) => ending[f].session # s /\ f # e
      BY <1>4, <2>2 DEF EndSession, EndInv, Active
    <3>2. \A f \in Ends : f # e =>
            end'[f] = end[f] /\ ending'[f] = ending[f]
      BY <1>4, <2>2 DEF EndSession, EndTypes
    <3>3. end'[e] = "gather" /\ ending'[e].session = s /\ ending'[e].runs = RunsOf(s)
      BY <1>4, <2>2 DEF EndSession, EndTypes
    <3>4. LiveRunsOf(s) \subseteq RunsOf(s)
      BY DEF LiveRunsOf, RunsOf, RunInv
    <3>5. closing' = closing \cup {s} /\ open' = open \ {s} /\ UNCHANGED <<sess, task>>
      BY <1>4, <2>2 DEF EndSession, EndTypes
    <3> QED
      BY <3>1, <3>2, <3>3, <3>4, <3>5
      DEF EndInv, Active, TeardownIsQuiet, LiveRunsOf
  <2> QED
    BY <1>4, <2>1, <2>2, <2>3 DEF EndSession, EndTypes
<1>5. ASSUME NEW r \in Runs, AcquirePromptLock(r) PROVE EndInv'
  <2>1. \A e \in Ends :
          LiveRunsOf(ending[e].session)' \subseteq LiveRunsOf(ending[e].session)
    BY <1>5 DEF AcquirePromptLock, NextInLine, FinishTurn, LiveRunsOf, Live, endVars
  <2> QED
    BY <1>5, <2>1, EndInvFrame DEF AcquirePromptLock, endVars
<1>6. ASSUME NEW r \in Runs, TurnEnds(r) PROVE EndInv'
  <2>1. \A e \in Ends :
          LiveRunsOf(ending[e].session)' \subseteq LiveRunsOf(ending[e].session)
    BY <1>6 DEF TurnEnds, FinishTurn, LiveRunsOf, Live, endVars
  <2> QED
    BY <1>6, <2>1, EndInvFrame DEF TurnEnds, endVars
<1>7. ASSUME NEW r \in Runs, CancellationDelivered(r) PROVE EndInv'
  <2>1. \A e \in Ends :
          LiveRunsOf(ending[e].session)' \subseteq LiveRunsOf(ending[e].session)
    BY <1>7 DEF CancellationDelivered, FinishTurn, LiveRunsOf, Live, endVars
  <2> QED
    BY <1>7, <2>1, EndInvFrame DEF CancellationDelivered, endVars
<1>8. ASSUME NEW r \in Runs, DrainMessages(r) PROVE EndInv'
  <2>1. \A e \in Ends :
          LiveRunsOf(ending[e].session)' \subseteq LiveRunsOf(ending[e].session)
    BY <1>8 DEF DrainMessages, LiveRunsOf, runVars, endVars
  <2> QED
    BY <1>8, <2>1, EndInvFrame DEF DrainMessages, endVars
<1>9. ASSUME NEW r \in Runs, TurnSwallowsCancellation(r) PROVE EndInv'
  <2>1. \A e \in Ends :
          LiveRunsOf(ending[e].session)' \subseteq LiveRunsOf(ending[e].session)
    BY <1>9 DEF TurnSwallowsCancellation, LiveRunsOf, endVars
  <2> QED
    BY <1>9, <2>1, EndInvFrame DEF TurnSwallowsCancellation, endVars
<1>10. ASSUME NEW x \in Steers, TurnTaskFirstStep(x) PROVE EndInv'
  <2>1. \A e \in Ends :
          LiveRunsOf(ending[e].session)' \subseteq LiveRunsOf(ending[e].session)
    BY <1>10 DEF TurnTaskFirstStep, LiveRunsOf, Live, endVars
  <2> QED
    BY <1>10, <2>1, EndInvFrame DEF TurnTaskFirstStep, endVars
<1>11. ASSUME NEW x \in Steers, TurnTaskCancelledUnstarted(x) PROVE EndInv'
  <2>1. \A e \in Ends :
          LiveRunsOf(ending[e].session)' \subseteq LiveRunsOf(ending[e].session)
    BY <1>11 DEF TurnTaskCancelledUnstarted, LiveRunsOf, Live, endVars
  <2> QED
    BY <1>11, <2>1, EndInvFrame DEF TurnTaskCancelledUnstarted, endVars
<1>12. ASSUME NEW e \in Ends, EndSessionGathered(e) PROVE EndInv'
  BY <1>12
  DEF EndSessionGathered, EndInv, TeardownIsQuiet, Active, LiveRunsOf,
      Gathered
<1>13. ASSUME NEW e \in Ends, EndSessionTeardown(e) PROVE EndInv'
  <2>1. Active(e) /\ end'[e] \in {"ended", "failed"}
    BY <1>13 DEF EndSessionTeardown, Active, EndTypes
  <2>2. \A f \in Ends : f # e => end'[f] = end[f]
    BY <1>13 DEF EndSessionTeardown, EndTypes
  <2>3. \A f \in Ends : f # e /\ Active(f) =>
          /\ ending[f].session # ending[e].session
          /\ ending[f].session \notin open'
          /\ ending[f].session \in closing'
    BY <1>13, <2>1 DEF EndSessionTeardown, EndInv
  <2>4. UNCHANGED <<ending, sess, task>>
    BY <1>13 DEF EndSessionTeardown, runVars
  <2> QED
    BY <2>1, <2>2, <2>3, <2>4 DEF EndInv, Active, TeardownIsQuiet, LiveRunsOf
<1>14. ASSUME NEW x \in Steers, SteerStep(x) PROVE EndInv'
  <2>1. UNCHANGED <<end, ending, open, closing, sess>>
    BY <1>14, SteerStepMoves DEF unchangedBySteering, endVars
  <2>2. \A e \in Ends : Active(e) =>
          \/ task' = task
          \/ /\ sess[x] # ending[e].session
             /\ task' = [task EXCEPT ![x] = "created"]
    BY <1>14, SteerStepMoves DEF EndInv
  <2>3. \A e \in Ends : Active(e) =>
          LiveRunsOf(ending[e].session)' \subseteq LiveRunsOf(ending[e].session)
    BY <2>1, <2>2 DEF LiveRunsOf, Live
  <2> QED
    BY <2>1, <2>3, EndInvFrame
<1>15. CASE UNCHANGED vars
  BY <1>15 DEF vars, runVars, endVars, EndInv, Active, TeardownIsQuiet,
               LiveRunsOf
<1> QED
  BY <1>1, <1>2, <1>3, <1>4, <1>5, <1>6, <1>7, <1>8, <1>9, <1>10, <1>11,
     <1>12, <1>13, <1>14, <1>15
  DEF Next, Requests, RunStep, BackgroundStep, EndStep, Idle

\* A step that changes nothing about a message, except perhaps that its turn
\* ends or goes on, keeps what is known of it.
LEMMA SteerFrame ==
  ASSUME NEW x \in Steers, SteerAt(x),
         steer'[x] = steer[x], outcome'[x] = outcome[x],
         consumed'[x] = consumed[x],
         x \in inbox' <=> x \in inbox, x \in delivered' <=> x \in delivered,
         x \in started' <=> x \in started,
         \/ task'[x] = task[x]
         \/ task[x] # "none" /\ task'[x] = "done"
         \/ task[x] = "created" /\ task'[x] = "queued"
  PROVE  SteerAt(x)'
BY DEF SteerAt, NotYetSent, Taken, Injected

\* Every step keeps what it says of steerings.
LEMMA SteerInvStep ==
  ASSUME TypeOK, RunInv, SteerInv, [Next]_vars
  PROVE  SteerInv'
<1> USE DEF TypeOK, RunTypes
<1>1. ASSUME NEW p \in Prompts, NEW s \in Sessions, Prompt(p, s)
      PROVE  SteerInv'
  <2>1. ASSUME NEW y \in Steers PROVE SteerAt(y)'
    <3>1. SteerAt(y) /\ y \in Runs
      BY DEF SteerInv, Runs
    <3> QED
      BY <1>1, <3>1, SteerFrame, ConstantsAssumption
      DEF Prompt, steerVars
  <2> QED
    BY <2>1 DEF SteerInv
<1>2. ASSUME NEW x \in Steers, NEW s \in Sessions, SteerArrives(x, s)
      PROVE  SteerInv'
  <2>1. ASSUME NEW y \in Steers PROVE SteerAt(y)'
    <3>1. CASE y = x
      BY <1>2, <3>1
      DEF SteerArrives, SteerInv, SteerAt, NotYetSent, SteerTypes
    <3>2. CASE y # x
      BY <1>2, <3>2, SteerFrame DEF SteerArrives, SteerInv, SteerTypes
    <3> QED
      BY <3>1, <3>2
  <2> QED
    BY <2>1 DEF SteerInv
<1>3. ASSUME NEW s \in Sessions, Cancel(s)
      PROVE  SteerInv'
  <2>1. ASSUME NEW y \in Steers PROVE SteerAt(y)'
    <3>1. SteerAt(y) /\ y \in Runs
      BY DEF SteerInv, Runs
    <3> QED
      BY <1>3, <3>1, SteerFrame
      DEF Cancel, steerVars
  <2> QED
    BY <2>1 DEF SteerInv
<1>4. ASSUME NEW e \in Ends, NEW s \in Sessions, EndSession(e, s)
      PROVE  SteerInv'
  <2>1. ASSUME NEW y \in Steers PROVE SteerAt(y)'
    <3>1. SteerAt(y) /\ y \in Runs
      BY DEF SteerInv, Runs
    <3> QED
      BY <1>4, <3>1, SteerFrame
      DEF EndSession, steerVars
  <2> QED
    BY <2>1 DEF SteerInv
<1>5. ASSUME NEW r \in Runs, AcquirePromptLock(r) PROVE SteerInv'
  <2>1. ASSUME NEW y \in Steers PROVE SteerAt(y)'
    <3>1. SteerAt(y) /\ y \in Runs
      BY DEF SteerInv, Runs
    <3>2. UNCHANGED <<steer, outcome, inbox, delivered>> /\ task[r] = "queued"
      BY <1>5 DEF AcquirePromptLock, NextInLine
    <3>3. CASE /\ FinishTurn(r, "rejected") \/ FinishTurn(r, "error")
               /\ UNCHANGED <<started, consumed>>
      BY <3>1, <3>2, <3>3, SteerFrame DEF FinishTurn
    <3>4. CASE /\ started' = started \cup {r}
               /\ task' = [task EXCEPT ![r] = "turn"]
               /\ consumed' = [x \in Steers |-> IF x = r THEN consumed[x] \cup {r}
                                                         ELSE consumed[x]]
      <4>1. CASE y = r
        BY <3>1, <3>2, <3>4, <4>1 DEF SteerAt, NotYetSent, RunInv
      <4>2. CASE y # r
        BY <3>1, <3>2, <3>4, <4>2, SteerFrame
      <4> QED
        BY <4>1, <4>2
    <3> QED
      BY <1>5, <3>3, <3>4 DEF AcquirePromptLock
  <2> QED
    BY <2>1 DEF SteerInv
<1>6. ASSUME NEW r \in Runs, TurnEnds(r) PROVE SteerInv'
  <2>1. ASSUME NEW y \in Steers PROVE SteerAt(y)'
    <3>1. SteerAt(y) /\ y \in Runs
      BY DEF SteerInv, Runs
    <3> QED
      BY <1>6, <3>1, SteerFrame
      DEF TurnEnds, FinishTurn, steerVars
  <2> QED
    BY <2>1 DEF SteerInv
<1>7. ASSUME NEW r \in Runs, CancellationDelivered(r) PROVE SteerInv'
  <2>1. ASSUME NEW y \in Steers PROVE SteerAt(y)'
    <3>1. SteerAt(y) /\ y \in Runs
      BY DEF SteerInv, Runs
    <3> QED
      BY <1>7, <3>1, SteerFrame
      DEF CancellationDelivered, FinishTurn, steerVars
  <2> QED
    BY <2>1 DEF SteerInv
<1>8. ASSUME NEW r \in Runs, DrainMessages(r) PROVE SteerInv'
  <2>1. ASSUME NEW y \in Steers PROVE SteerAt(y)'
    <3>1. SteerAt(y) /\ y \in Runs
      BY DEF SteerInv, Runs
    <3>2. UNCHANGED <<steer, outcome, task, started>> /\ task[r] = "turn"
      BY <1>8 DEF DrainMessages, runVars
    <3>3. CASE y \in inbox /\ sess[y] = sess[r]
      <4>1. y \notin inbox' /\ y \in delivered' /\ consumed'[y] = consumed[y] \cup {r}
        BY <1>8, <3>3 DEF DrainMessages, Dequeue
      <4>2. steer[y] = "waitDelivery" /\ task[y] = "none" /\ consumed[y] = {}
        BY <3>1, <3>3 DEF SteerAt, NotYetSent, SteerTypes, InCriticalSection
      <4> QED
        BY <3>2, <4>1, <4>2, <3>1 DEF SteerAt, NotYetSent, Taken, Injected
    <3>4. CASE ~(y \in inbox /\ sess[y] = sess[r])
      BY <1>8, <3>1, <3>2, <3>4, SteerFrame DEF DrainMessages, Dequeue
    <3> QED
      BY <3>3, <3>4
  <2> QED
    BY <2>1 DEF SteerInv
<1>9. ASSUME NEW r \in Runs, TurnSwallowsCancellation(r) PROVE SteerInv'
  <2>1. ASSUME NEW y \in Steers PROVE SteerAt(y)'
    <3>1. SteerAt(y) /\ y \in Runs
      BY DEF SteerInv, Runs
    <3> QED
      BY <1>9, <3>1, SteerFrame
      DEF TurnSwallowsCancellation, steerVars
  <2> QED
    BY <2>1 DEF SteerInv
<1>10. ASSUME NEW x \in Steers, TurnTaskFirstStep(x) PROVE SteerInv'
  <2>1. ASSUME NEW y \in Steers PROVE SteerAt(y)'
    <3>1. SteerAt(y) /\ y \in Runs
      BY DEF SteerInv, Runs
    <3> QED
      BY <1>10, <3>1, SteerFrame
      DEF TurnTaskFirstStep, steerVars
  <2> QED
    BY <2>1 DEF SteerInv
<1>11. ASSUME NEW x \in Steers, TurnTaskCancelledUnstarted(x) PROVE SteerInv'
  <2>1. ASSUME NEW y \in Steers PROVE SteerAt(y)'
    <3>1. SteerAt(y) /\ y \in Runs
      BY DEF SteerInv, Runs
    <3> QED
      BY <1>11, <3>1, SteerFrame
      DEF TurnTaskCancelledUnstarted, steerVars
  <2> QED
    BY <2>1 DEF SteerInv
<1>12. ASSUME NEW e \in Ends, EndSessionGathered(e) PROVE SteerInv'
  <2>1. ASSUME NEW y \in Steers PROVE SteerAt(y)'
    <3>1. SteerAt(y) /\ y \in Runs
      BY DEF SteerInv, Runs
    <3> QED
      BY <1>12, <3>1, SteerFrame
      DEF EndSessionGathered, steerVars
  <2> QED
    BY <2>1 DEF SteerInv
<1>13. ASSUME NEW e \in Ends, EndSessionTeardown(e) PROVE SteerInv'
  <2>1. ASSUME NEW y \in Steers PROVE SteerAt(y)'
    <3>1. SteerAt(y) /\ y \in Runs
      BY DEF SteerInv, Runs
    <3> QED
      BY <1>13, <3>1, SteerFrame
      DEF EndSessionTeardown, runVars, steerVars
  <2> QED
    BY <2>1 DEF SteerInv
<1>14. ASSUME NEW x \in Steers, SteerEnters(x) PROVE SteerInv'
  <2>1. ASSUME NEW y \in Steers PROVE SteerAt(y)'
    <3>1. SteerAt(y) /\ SteerAt(x) /\ x \in Runs /\ y \in Runs
      BY DEF SteerInv, Runs
    <3>2. UNCHANGED <<started, consumed, delivered>>
      BY <1>14 DEF SteerEnters, unchangedBySteering
    <3>3. CASE y = x
      BY <1>14, <3>1, <3>2, <3>3
      DEF SteerEnters, StartSteeringTurn, EnqueueFor, SteerReturns, AnswerSteer, SteeringLockGranted,
          SteerAt, NotYetSent, Taken, Injected, RunInv, SteerTypes, InCriticalSection
    <3>4. CASE y # x
      BY <1>14, <3>1, <3>2, <3>4, SteerFrame
      DEF SteerEnters, StartSteeringTurn, EnqueueFor, SteerReturns, AnswerSteer, SteerTypes
    <3> QED
      BY <3>3, <3>4
  <2> QED
    BY <2>1 DEF SteerInv
<1>15. ASSUME NEW x \in Steers, SteerRunStartedOrCompleted(x) PROVE SteerInv'
  <2>1. ASSUME NEW y \in Steers PROVE SteerAt(y)'
    <3>1. SteerAt(y) /\ SteerAt(x) /\ x \in Runs /\ y \in Runs
      BY DEF SteerInv, Runs
    <3>2. UNCHANGED <<started, consumed, delivered>>
      BY <1>15 DEF SteerRunStartedOrCompleted, unchangedBySteering
    <3>3. CASE y = x
      BY <1>15, <3>1, <3>2, <3>3
      DEF SteerRunStartedOrCompleted, StartSteeringTurn, EnqueueFor, SteerReturns, AnswerSteer,
          SteerAt, NotYetSent, Taken, Injected, RunInv, SteerTypes, InCriticalSection
    <3>4. CASE y # x
      BY <1>15, <3>1, <3>2, <3>4, SteerFrame
      DEF SteerRunStartedOrCompleted, StartSteeringTurn, EnqueueFor, SteerReturns, AnswerSteer, SteerTypes
    <3> QED
      BY <3>3, <3>4
  <2> QED
    BY <2>1 DEF SteerInv
<1>16. ASSUME NEW x \in Steers, SteerDeliveredOrCompleted(x) PROVE SteerInv'
  <2>1. ASSUME NEW y \in Steers PROVE SteerAt(y)'
    <3>1. SteerAt(y) /\ SteerAt(x) /\ x \in Runs /\ y \in Runs
      BY DEF SteerInv, Runs
    <3>2. UNCHANGED <<started, consumed, delivered>>
      BY <1>16 DEF SteerDeliveredOrCompleted, unchangedBySteering
    <3>3. CASE y = x
      BY <1>16, <3>1, <3>2, <3>3
      DEF SteerDeliveredOrCompleted, StartSteeringTurn, EnqueueFor, SteerReturns, AnswerSteer, Dequeue,
          SteerAt, NotYetSent, Taken, Injected, RunInv, SteerTypes, InCriticalSection
    <3>4. CASE y # x
      BY <1>16, <3>1, <3>2, <3>4, SteerFrame
      DEF SteerDeliveredOrCompleted, StartSteeringTurn, EnqueueFor, SteerReturns, AnswerSteer, Dequeue, SteerTypes
    <3> QED
      BY <3>3, <3>4
  <2> QED
    BY <2>1 DEF SteerInv
<1>17. ASSUME NEW x \in Steers, SteerOwnTurn(x) PROVE SteerInv'
  <2>1. ASSUME NEW y \in Steers PROVE SteerAt(y)'
    <3>1. SteerAt(y) /\ SteerAt(x) /\ x \in Runs /\ y \in Runs
      BY DEF SteerInv, Runs
    <3>2. UNCHANGED <<started, consumed, delivered>>
      BY <1>17 DEF SteerOwnTurn, unchangedBySteering
    <3>3. CASE y = x
      BY <1>17, <3>1, <3>2, <3>3
      DEF SteerOwnTurn, OutcomeOfUnstarted, SteerReturns, AnswerSteer,
          SteerAt, NotYetSent, Taken, Injected, RunInv, SteerTypes, InCriticalSection
    <3>4. CASE y # x
      BY <1>17, <3>1, <3>2, <3>4, SteerFrame
      DEF SteerOwnTurn, OutcomeOfUnstarted, SteerReturns, AnswerSteer, SteerTypes
    <3> QED
      BY <3>3, <3>4
  <2> QED
    BY <2>1 DEF SteerInv
<1>18. CASE UNCHANGED vars
  BY <1>18 DEF vars, runVars, steerVars, SteerInv, SteerAt, NotYetSent, Taken, Injected
<1>19. ASSUME NEW x \in Steers, SteerAcknowledged(x) PROVE SteerInv'
  <2>1. ASSUME NEW y \in Steers PROVE SteerAt(y)'
    <3>1. SteerAt(y) /\ SteerAt(x) /\ x \in Runs /\ y \in Runs
      BY DEF SteerInv, Runs
    <3>2. UNCHANGED <<started, consumed, delivered>>
      BY <1>19 DEF SteerAcknowledged, unchangedBySteering
    <3>3. CASE y = x
      BY <1>19, <3>1, <3>2, <3>3
      DEF SteerAcknowledged, AnswerSteer, SteerAt, NotYetSent, Taken, Injected, SteerTypes
    <3>4. CASE y # x
      BY <1>19, <3>1, <3>2, <3>4, SteerFrame
      DEF SteerAcknowledged, AnswerSteer, SteerTypes
    <3> QED
      BY <3>3, <3>4
  <2> QED
    BY <2>1 DEF SteerInv
<1> QED
  BY <1>1, <1>2, <1>3, <1>4, <1>5, <1>6, <1>7, <1>8, <1>9, <1>10, <1>11,
     <1>12, <1>13, <1>14, <1>15, <1>16, <1>17, <1>18, <1>19
  DEF Next, Requests, RunStep, BackgroundStep, EndStep, Idle, SteerStep

\* A step that adds no cancellation, no answer and no run keeps CancelInv.
LEMMA CancelFrame ==
  ASSUME TypeOK, RunInv, CancelInv,
         UNCHANGED <<cancelRequested, cancels, pendingCancel, ending, answer, end>>,
         registered' \subseteq registered,
         completed' = completed \/
           \E e \in Ends : completed' = completed \cup ending[e].runs,
         \A r \in Runs : \/ task'[r] = task[r]
                         \/ task[r] = "created" /\ task'[r] = "queued"
                         \/ task[r] = "queued" /\ task'[r] = "turn"
  PROVE  CancelInv'
<1>1. \A r \in Runs : InterruptedByEnd(r)' <=> InterruptedByEnd(r)
  BY DEF InterruptedByEnd
<1>2. CancelIsAnswered'
  BY <1>1 DEF CancelInv, CancelIsAnswered, InterruptedByEnd, RunInv, Live
<1>3. \A x \in Steers : task'[x] = "none" => answer'[x] = "none"
  BY DEF CancelInv, Runs
<1>4. \A r \in cancelRequested' :
        task'[r] \in {"created", "queued"} => r \in pendingCancel'
  BY DEF CancelInv, TypeOK, RunTypes
<1> QED
  BY <1>1, <1>2, <1>3, <1>4 DEF CancelInv

\* The end of a turn keeps CancelInv when its answer respects the request to
\* cancel.
LEMMA FinishTurnCancelInv ==
  ASSUME TypeOK, RunInv, CancelInv, NEW r \in Runs,
         NEW result \in {"end_turn", "cancelled", "error", "rejected", "aborted"},
         FinishTurn(r, result), task[r] \in Live,
         pendingCancel' = pendingCancel \ {r},
         UNCHANGED <<cancelRequested, cancels, ending, end>>,
         result \in {"end_turn", "rejected"} => r \notin cancelRequested,
         result = "cancelled" => r \in cancelRequested,
         result = "aborted" => InterruptedByEnd(r)
  PROVE  CancelInv'
<1>1. /\ answer' = [answer EXCEPT ![r] = result]
      /\ task' = [task EXCEPT ![r] = "done"]
      /\ completed' = completed \cup {r} /\ registered' = registered \ {r}
  BY DEF FinishTurn, CompletePromptRuns
<1>2. \A q \in Runs : InterruptedByEnd(q)' <=> InterruptedByEnd(q)
  BY DEF InterruptedByEnd
<1>3. CancelIsAnswered'
  BY <1>1, <1>2 DEF CancelInv, CancelIsAnswered, TypeOK, RunTypes
<1> QED
  BY <1>1, <1>2, <1>3 DEF CancelInv, TypeOK, RunTypes

\* Every step keeps what it says of cancellations.
LEMMA CancelInvStep ==
  ASSUME TypeOK, RunInv, SteerInv, EndInv, CancelInv, [Next]_vars
  PROVE  CancelInv'
<1> USE DEF TypeOK, RunTypes
<1>1. ASSUME NEW p \in Prompts, NEW s \in Sessions, Prompt(p, s)
      PROVE  CancelInv'
  <2>1. p \in Runs /\ p \notin Steers
    BY ConstantsAssumption DEF Runs
  <2>2. UNCHANGED <<cancelRequested, cancels, ending, end, pendingCancel, completed>>
    BY <1>1 DEF Prompt, endVars
  <2>3. task[p] = "none" /\ answer[p] = "none" /\ p \notin cancelRequested
    BY <1>1 DEF Prompt, RunInv
  <2>4. p \notin registered
    BY <2>3 DEF RunInv
  <2>5. \A r \in Runs : InterruptedByEnd(r)' <=> InterruptedByEnd(r)
    BY <2>2 DEF InterruptedByEnd
  <2>6. ASSUME NEW v \in {"rejected", "error"},
               answer' = [answer EXCEPT ![p] = v], UNCHANGED <<task, registered>>
        PROVE  CancelInv'
    <3>1. CancelIsAnswered'
      BY <2>1, <2>2, <2>3, <2>5, <2>6 DEF CancelInv, CancelIsAnswered
    <3> QED
      BY <2>1, <2>2, <2>3, <2>4, <2>5, <2>6, <3>1 DEF CancelInv
  <2>7. CASE /\ task' = [task EXCEPT ![p] = "queued"]
             /\ registered' = registered \cup {p} /\ UNCHANGED answer
    <3>1. CancelIsAnswered'
      BY <2>1, <2>2, <2>3, <2>5, <2>7 DEF CancelInv, CancelIsAnswered
    <3> QED
      BY <2>1, <2>2, <2>3, <2>5, <2>7, <3>1 DEF CancelInv
  <2> QED
    BY <1>1, <2>6, <2>7 DEF Prompt
<1>2. ASSUME NEW x \in Steers, NEW s \in Sessions, SteerArrives(x, s)
      PROVE  CancelInv'
  BY <1>2, CancelFrame
  DEF SteerArrives, endVars
<1>3. ASSUME NEW s \in Sessions, Cancel(s)
      PROVE  CancelInv'
  <2>1. /\ UNCHANGED <<ending, end, task, registered, completed, answer>>
        /\ cancelRequested' = cancelRequested \cup Cancellable(s)
    BY <1>3 DEF Cancel, endVars
  <2>2. Cancellable(s) \subseteq registered \ cancelRequested
    BY DEF Cancellable, RunsOf
  <2>3. \A r \in Runs :
          IF r \in Cancellable(s) /\ task[r] \in Live
          THEN r \in pendingCancel' /\ cancels'[r] = cancels[r] + 1
          ELSE (r \in pendingCancel' <=> r \in pendingCancel) /\ cancels'[r] = cancels[r]
    BY <1>3 DEF Cancel, CancelTasks
  <2>4. \A r \in Runs : InterruptedByEnd(r)' <=> InterruptedByEnd(r)
    BY <2>1 DEF InterruptedByEnd
  <2>5. ASSUME NEW r \in pendingCancel' PROVE cancels'[r] > 0
    <3>1. r \in Runs /\ cancels[r] \in Nat
      BY <1>3 DEF Cancel, CancelTasks, Cancellable, RunsOf
    <3>2. r \in pendingCancel => cancels[r] > 0
      BY DEF CancelInv
    <3> QED
      BY <2>3, <3>1, <3>2
  <2>6. \A r \in Runs : InterruptedByEnd(r) \/ cancels'[r] = 0
          \/ (cancels'[r] = 1 /\ r \in cancelRequested')
    BY <2>1, <2>2, <2>3 DEF CancelInv
  <2>7. \A r \in cancelRequested' :
          task[r] \in {"created", "queued"} => r \in pendingCancel'
    BY <2>1, <2>2, <2>3 DEF CancelInv, Live
  <2>8. CancelIsAnswered'
    BY <2>1, <2>2, <2>4 DEF CancelInv, CancelIsAnswered
  <2> QED
    BY <2>1, <2>2, <2>4, <2>5, <2>6, <2>7, <2>8 DEF CancelInv
<1>4. ASSUME NEW e \in Ends, NEW s \in Sessions, EndSession(e, s)
      PROVE  CancelInv'
  <2>1. UNCHANGED <<task, registered, completed, answer, cancelRequested>>
    BY <1>4 DEF EndSession
  <2>2. CASE /\ UNCHANGED <<ending, pendingCancel, cancels>>
             /\ \/ end' = [end EXCEPT ![e] = "refused"]
                \/ end' = [end EXCEPT ![e] = "failed"]
    BY <2>1, <2>2
    DEF CancelInv, CancelIsAnswered, InterruptedByEnd, EndTypes
  <2>3. CASE s \notin closing /\ end'[e] = "gather"
    <3>1. /\ end[e] = "idle" /\ end'[e] = "gather" /\ ending'[e].runs = RunsOf(s)
          /\ \A f \in Ends : f # e => end'[f] = end[f] /\ ending'[f] = ending[f]
          /\ CancelTasks(RunsOf(s))
      BY <1>4, <2>3 DEF EndSession, EndTypes
    <3>2. \A r \in Runs : InterruptedByEnd(r)' <=> InterruptedByEnd(r) \/ r \in RunsOf(s)
      BY <3>1 DEF InterruptedByEnd, CancelInv
    <3>3. \A r \in Runs : r \notin RunsOf(s) =>
            (r \in pendingCancel' <=> r \in pendingCancel) /\ cancels'[r] = cancels[r]
      BY <3>1 DEF CancelTasks
    <3>4. ASSUME NEW r \in pendingCancel' PROVE cancels'[r] > 0
      <4>1. r \in Runs /\ cancels[r] \in Nat
        BY <3>1 DEF CancelTasks, RunsOf
      <4>2. r \in pendingCancel => cancels[r] > 0
        BY DEF CancelInv
      <4>3. r \in RunsOf(s) /\ task[r] \in Live => cancels'[r] = cancels[r] + 1
        BY <3>1, <4>1 DEF CancelTasks
      <4>4. ~(r \in RunsOf(s) /\ task[r] \in Live) =>
              r \in pendingCancel /\ cancels'[r] = cancels[r]
        BY <3>1, <4>1 DEF CancelTasks
      <4> QED
        BY <4>1, <4>2, <4>3, <4>4
    <3>5. pendingCancel \subseteq pendingCancel'
      BY <3>1 DEF CancelTasks
    <3>6. CancelIsAnswered'
      BY <2>1, <3>2 DEF CancelInv, CancelIsAnswered
    <3> QED
      BY <2>1, <3>1, <3>2, <3>3, <3>4, <3>5, <3>6 DEF CancelInv
  <2> QED
    BY <1>4, <2>2, <2>3 DEF EndSession, EndTypes
<1>5. ASSUME NEW r \in Runs, AcquirePromptLock(r) PROVE CancelInv'
  <2>1. /\ task[r] = "queued" /\ r \notin pendingCancel
        /\ UNCHANGED <<cancelRequested, cancels, pendingCancel, ending, end>>
    BY <1>5 DEF AcquirePromptLock, NextInLine, endVars
  <2>2. CASE FinishTurn(r, "rejected") \/ FinishTurn(r, "error")
    <3>1. r \notin cancelRequested
      BY <2>1 DEF CancelInv
    <3> QED
      BY <2>1, <2>2, <3>1, FinishTurnCancelInv DEF Live
  <2>3. CASE /\ task' = [task EXCEPT ![r] = "turn"]
             /\ UNCHANGED <<answer, completed, registered>>
    BY <2>1, <2>3, CancelFrame
  <2> QED
    BY <1>5, <2>2, <2>3 DEF AcquirePromptLock
<1>6. ASSUME NEW r \in Runs, TurnEnds(r) PROVE CancelInv'
  <2>1. /\ task[r] = "turn" /\ r \notin pendingCancel
        /\ UNCHANGED <<cancelRequested, cancels, pendingCancel, ending, end>>
    BY <1>6 DEF TurnEnds, endVars
  <2>2. PICK result \in {"end_turn", "cancelled", "error"} :
          /\ FinishTurn(r, result)
          /\ result = "end_turn" => r \notin cancelRequested
          /\ result = "cancelled" => r \in cancelRequested
    BY <1>6 DEF TurnEnds
  <2> QED
    BY <2>1, <2>2, FinishTurnCancelInv DEF Live
<1>7. ASSUME NEW r \in Runs, CancellationDelivered(r) PROVE CancelInv'
  <2>1. /\ task[r] \in Live /\ r \in pendingCancel
        /\ pendingCancel' = pendingCancel \ {r}
        /\ UNCHANGED <<cancelRequested, cancels, ending, end>>
        /\ FinishTurn(r, CancelledAnswer(r))
    BY <1>7 DEF CancellationDelivered, endVars, Live
  <2>2. InterruptedByEnd(r) \/ (cancels[r] = 1 /\ r \in cancelRequested)
    BY <2>1 DEF CancelInv
  <2>3. CancelledAnswer(r) = "aborted" => InterruptedByEnd(r)
    BY <2>2 DEF CancelledAnswer
  <2>4. /\ CancelledAnswer(r) \in {"cancelled", "aborted"}
        /\ CancelledAnswer(r) = "cancelled" => r \in cancelRequested
    BY DEF CancelledAnswer
  <2> QED
    BY <2>1, <2>3, <2>4, FinishTurnCancelInv
<1>8. ASSUME NEW r \in Runs, DrainMessages(r) PROVE CancelInv'
  BY <1>8, CancelFrame
  DEF DrainMessages, runVars, endVars
<1>9. ASSUME NEW r \in Runs, TurnSwallowsCancellation(r) PROVE CancelInv'
  <2>1. UNCHANGED <<cancelRequested, cancels, ending, end, answer, task, registered,
                    completed>>
    BY <1>9 DEF TurnSwallowsCancellation, endVars
  <2>2. pendingCancel' = pendingCancel \ {r} /\ task[r] = "turn"
    BY <1>9 DEF TurnSwallowsCancellation
  <2> QED
    BY <2>1, <2>2 DEF CancelInv, CancelIsAnswered, InterruptedByEnd
<1>10. ASSUME NEW x \in Steers, TurnTaskFirstStep(x) PROVE CancelInv'
  BY <1>10, CancelFrame
  DEF TurnTaskFirstStep, endVars
<1>11. ASSUME NEW x \in Steers, TurnTaskCancelledUnstarted(x) PROVE CancelInv'
  <2>1. /\ task' = [task EXCEPT ![x] = "done"]
        /\ answer' = [answer EXCEPT ![x] = "aborted"]
        /\ pendingCancel' = pendingCancel \ {x} /\ task[x] = "created"
        /\ UNCHANGED <<cancelRequested, cancels, ending, end, registered, completed>>
    BY <1>11 DEF TurnTaskCancelledUnstarted, endVars
  <2>2. x \in Runs /\ x \notin completed
    BY <2>1 DEF Runs, RunInv, Live
  <2>3. \A r \in Runs : InterruptedByEnd(r)' <=> InterruptedByEnd(r)
    BY <2>1 DEF InterruptedByEnd
  <2>4. CancelIsAnswered'
    BY <2>1, <2>2, <2>3 DEF CancelInv, CancelIsAnswered
  <2> QED
    BY <2>1, <2>2, <2>3, <2>4 DEF CancelInv
<1>12. ASSUME NEW e \in Ends, EndSessionGathered(e) PROVE CancelInv'
  <2>1. UNCHANGED <<cancelRequested, cancels, pendingCancel, ending, answer, task>>
    BY <1>12 DEF EndSessionGathered
  <2>2. completed' = completed \cup ending[e].runs /\ registered' \subseteq registered
    BY <1>12 DEF EndSessionGathered, CompletePromptRuns
  <2>3. \A f \in Ends : end'[f] = "idle" => end[f] = "idle"
    BY <1>12 DEF EndSessionGathered, EndTypes
  <2>4. \A r \in Runs : InterruptedByEnd(r)' <=> InterruptedByEnd(r)
    BY <2>1 DEF InterruptedByEnd
  <2>5. CancelIsAnswered'
    BY <2>1, <2>2, <2>4 DEF CancelInv, CancelIsAnswered, InterruptedByEnd
  <2> QED
    BY <2>1, <2>2, <2>3, <2>4, <2>5 DEF CancelInv
<1>13. ASSUME NEW e \in Ends, EndSessionTeardown(e) PROVE CancelInv'
  <2>1. UNCHANGED <<runVars, ending>> /\ end'[e] # "idle" /\ end[e] # "idle"
    BY <1>13 DEF EndSessionTeardown, EndTypes
  <2>2. \A f \in Ends : f # e => end'[f] = end[f]
    BY <1>13 DEF EndSessionTeardown, EndTypes
  <2> QED
    BY <2>1, <2>2 DEF CancelInv, CancelIsAnswered, InterruptedByEnd, runVars
<1>14. ASSUME NEW x \in Steers, SteerStep(x) PROVE CancelInv'
  <2>1. UNCHANGED <<cancelRequested, cancels, ending, end, pendingCancel, completed,
                    answer>>
    BY <1>14, SteerStepMoves DEF unchangedBySteering, endVars
  <2>2. x \in Runs
    BY DEF Runs
  <2>3. \A r \in Runs : InterruptedByEnd(r)' <=> InterruptedByEnd(r)
    BY <2>1 DEF InterruptedByEnd
  <2>4. CASE UNCHANGED <<task, registered>>
    BY <2>1, <2>3, <2>4 DEF CancelInv, CancelIsAnswered
  <2>5. CASE /\ task[x] = "none"
             /\ task' = [task EXCEPT ![x] = "created"]
             /\ registered' = registered \cup {x}
    <3>1. answer[x] = "none" /\ x \notin cancelRequested
      BY <2>5 DEF CancelInv, RunInv
    <3>2. CancelIsAnswered'
      BY <2>1, <2>2, <2>3, <2>5, <3>1 DEF CancelInv, CancelIsAnswered
    <3> QED
      BY <2>1, <2>2, <2>3, <2>5, <3>1, <3>2 DEF CancelInv
  <2> QED
    BY <1>14, <2>4, <2>5, SteerStepMoves
<1>15. CASE UNCHANGED vars
  BY <1>15 DEF vars, runVars, endVars, CancelInv, CancelIsAnswered,
              InterruptedByEnd
<1> QED
  BY <1>1, <1>2, <1>3, <1>4, <1>5, <1>6, <1>7, <1>8, <1>9, <1>10, <1>11,
     <1>12, <1>13, <1>14, <1>15
  DEF Next, Requests, RunStep, BackgroundStep, EndStep, Idle


-----------------------------------------------------------------------------
(***************************************************************************)
(* The theorems.                                                           *)
(***************************************************************************)

\* The conjunction of the four is inductive.
LEMMA InductiveInvariant == Spec => []IInv
<1>1. Init => IInv
  <2> SUFFICES ASSUME Init PROVE IInv
    OBVIOUS
  <2> USE DEF Init
  <2>1. TypeOK
    BY DEF TypeOK, RunTypes, SteerTypes, EndTypes, Live, InCriticalSection,
           Runs, NoEnding
  <2>2. RunInv
    BY DEF RunInv, Live, NoEnding
  <2>3. EndInv
    BY DEF EndInv, Active, TeardownIsQuiet
  <2>4. SteerInv
    BY DEF SteerInv, SteerAt, NotYetSent, Runs
  <2>5. CancelInv
    BY DEF CancelInv, CancelIsAnswered, NoEnding, Runs
  <2> QED
    BY <2>1, <2>2, <2>3, <2>4, <2>5 DEF IInv
<1>2. IInv /\ [Next]_vars => IInv'
  BY TypeInductive, RunInvStep, EndInvStep, SteerInvStep, CancelInvStep DEF IInv
<1> QED
  BY <1>1, <1>2, PTL DEF Spec

\* No close tears a session down while a task still executes one of its turns.
THEOREM TeardownQuiet == Spec => []TeardownIsQuiet
<1>1. IInv => TeardownIsQuiet
  BY DEF IInv, EndInv
<1> QED
  BY <1>1, InductiveInvariant, PTL

\* A steering message is seen by at most one turn, and reported accordingly.
THEOREM SteeringIsExactlyOnce == Spec => []SteeringExactlyOnce
<1>1. IInv => SteeringExactlyOnce
  BY DEF IInv, SteerInv, SteerAt, NotYetSent, Taken, Injected, SteeringExactlyOnce,
         TypeOK, SteerTypes, InCriticalSection
<1> QED
  BY <1>1, InductiveInvariant, PTL

\* A prompt that only session/cancel stopped answers "cancelled".
THEOREM CancelAnswered == Spec => []CancelIsAnswered
<1>1. IInv => CancelIsAnswered
  BY DEF IInv, CancelInv
<1> QED
  BY <1>1, InductiveInvariant, PTL

-----------------------------------------------------------------------------
(***************************************************************************)
(* AcpTurns implements SteeringDelivery.                                   *)
(***************************************************************************)

\* A message of another request keeps its fate and its report.
LEMMA FateFrame ==
  ASSUME NEW x \in Steers, steer'[x] = steer[x], consumed'[x] = consumed[x],
         x \in inbox' <=> x \in inbox
  PROVE  Fate(x)' = Fate(x)
BY DEF Fate

\* A step that concerns no message stutters.
LEMMA DeliveryStutter ==
  ASSUME UNCHANGED <<steer, outcome, inbox, consumed>>
  PROVE  UNCHANGED Delivery!vars
BY FateFrame DEF Delivery!vars, Fate

\* A step of one request moves the fate of its message only.
LEMMA DeliveryMove ==
  ASSUME NEW x \in Steers, NEW from, NEW to,
         outcome[x] = "none", UNCHANGED outcome,
         Fate(x) = from, Fate(x)' = to,
         \A y \in Steers : y # x => Fate(y)' = Fate(y)
  PROVE  Delivery!Move(x, from, to)
BY DEF Delivery!Move

\* What an answered request does to the abstract state.
LEMMA DeliveryReport ==
  ASSUME TypeOK, NEW x \in Steers, outcome[x] = "none",
         NEW result, outcome' = [outcome EXCEPT ![x] = result],
         \A y \in Steers : y # x => Fate(y)' = Fate(y),
         \/ /\ Fate(x) \in {"injected", "ownTurn"} /\ Fate(x)' = Fate(x)
            /\ x \in WithSteerId /\ result \in {"injected", "failed"}
         \/ /\ Fate(x) = "injected" /\ Fate(x)' = Fate(x)
            /\ x \notin WithSteerId /\ result = "injected"
         \/ /\ Fate(x) = "ownTurn" /\ Fate(x)' = Fate(x)
            /\ x \notin WithSteerId /\ result = "startedNewTurn"
         \/ /\ Fate(x) \in {"held", "queued"} /\ Fate(x)' = "held"
            /\ result \in {"rejected", "failed", "aborted"}
  PROVE  Delivery!Report(x)
<1>1. CASE Fate(x) \in {"held", "queued"}
  BY <1>1 DEF Delivery!Report, Delivery!Refusals
<1>2. CASE Fate(x) \in {"injected", "ownTurn"}
  <2>1. Fate(x) \in Delivery!Taken /\ UNCHANGED [y \in Steers |-> Fate(y)]
    BY <1>2 DEF Delivery!Taken
  <2>2. result \in Delivery!Truth(x)
    BY <1>2 DEF Delivery!Truth
  <2> QED
    BY <2>1, <2>2 DEF Delivery!Report
<1> QED
  BY <1>1, <1>2

\* Every step maps to a step of SteeringDelivery or to a stutter.
LEMMA DeliveryStep ==
  ASSUME IInv, [Next]_vars PROVE [Delivery!Next]_(Delivery!vars)
<1> USE DEF IInv
<1>1. ASSUME NEW p \in Prompts, NEW s \in Sessions, Prompt(p, s)
      PROVE  UNCHANGED Delivery!vars
  BY <1>1, DeliveryStutter DEF Prompt, steerVars
<1>2. ASSUME NEW x \in Steers, NEW s \in Sessions, SteerArrives(x, s)
      PROVE  Delivery!Offer(x)
  <2>1. \A y \in Steers : y # x => Fate(y)' = Fate(y)
    BY <1>2, FateFrame DEF SteerArrives, TypeOK, SteerTypes
  <2>2. outcome[x] = "none" /\ x \notin inbox /\ consumed[x] = {}
    BY <1>2 DEF SteerArrives, SteerInv, SteerAt, NotYetSent
  <2>3. Fate(x) = "absent" /\ Fate(x)' = "held"
    BY <1>2, <2>2 DEF SteerArrives, Fate, TypeOK, SteerTypes
  <2> QED
    BY <1>2, <2>1, <2>2, <2>3, DeliveryMove DEF SteerArrives, Delivery!Offer
<1>3. ASSUME NEW s \in Sessions, Cancel(s)
      PROVE  UNCHANGED Delivery!vars
  BY <1>3, DeliveryStutter DEF Cancel, steerVars
<1>4. ASSUME NEW e \in Ends, NEW s \in Sessions, EndSession(e, s)
      PROVE  UNCHANGED Delivery!vars
  BY <1>4, DeliveryStutter DEF EndSession, steerVars
<1>5. ASSUME NEW r \in Runs, AcquirePromptLock(r)
      PROVE  [Delivery!Next]_(Delivery!vars)
  <2>1. UNCHANGED <<steer, outcome, inbox>> /\ task[r] = "queued"
    BY <1>5 DEF AcquirePromptLock, NextInLine
  <2>2. CASE UNCHANGED consumed
    BY <2>1, <2>2, DeliveryStutter
  <2>3. CASE consumed' = [x \in Steers |-> IF x = r THEN consumed[x] \cup {r}
                                                    ELSE consumed[x]]
    <3>1. CASE r \in Steers
      <4>1. /\ steer[r] = "waitOwnTurn" /\ outcome[r] = "none"
            /\ r \notin inbox /\ consumed[r] = {}
        BY <2>1, <3>1 DEF SteerInv, SteerAt, RunInv
      <4>2. Fate(r) = "held" /\ Fate(r)' = "ownTurn"
        BY <2>1, <2>3, <3>1, <4>1 DEF Fate
      <4>3. \A y \in Steers : y # r => Fate(y)' = Fate(y)
        BY <2>1, <2>3, FateFrame
      <4>4. Delivery!StartOwnTurn(r)
        BY <2>1, <3>1, <4>1, <4>2, <4>3, DeliveryMove DEF Delivery!StartOwnTurn
      <4> QED
        BY <3>1, <4>4 DEF Delivery!Next
    <3>2. CASE r \notin Steers
      <4>1. \A y \in Steers : Fate(y)' = Fate(y)
        BY <2>1, <2>3, <3>2, FateFrame
      <4> QED
        BY <2>1, <4>1 DEF Delivery!vars
    <3> QED
      BY <3>1, <3>2
  <2> QED
    BY <1>5, <2>2, <2>3 DEF AcquirePromptLock
<1>6. ASSUME NEW r \in Runs, TurnEnds(r) PROVE UNCHANGED Delivery!vars
  BY <1>6, DeliveryStutter DEF TurnEnds, steerVars
<1>7. ASSUME NEW r \in Runs, CancellationDelivered(r)
      PROVE  UNCHANGED Delivery!vars
  BY <1>7, DeliveryStutter DEF CancellationDelivered, steerVars
<1>8. ASSUME NEW r \in Runs, DrainMessages(r)
      PROVE  \E M \in SUBSET Steers : Delivery!Inject(M)
  <2> DEFINE taken == {x \in inbox : sess[x] = sess[r]}
  <2>1. /\ UNCHANGED <<steer, outcome>> /\ task[r] = "turn"
        /\ inbox' = inbox \ taken
        /\ consumed' = [x \in Steers |-> IF x \in taken THEN consumed[x] \cup {r}
                                                        ELSE consumed[x]]
    BY <1>8 DEF DrainMessages, Dequeue
  <2>2. taken \in SUBSET Steers
    BY DEF TypeOK, SteerTypes
  <2>3. ASSUME NEW x \in taken
        PROVE  Fate(x) = "queued" /\ Fate(x)' = "injected"
    <3>1. x \in Steers /\ x \in inbox /\ x \in Runs
      BY <2>2 DEF Runs
    <3>2. steer[x] = "waitDelivery" /\ task[x] = "none" /\ consumed[x] = {}
      BY <3>1 DEF SteerInv, SteerAt, NotYetSent, TypeOK, SteerTypes,
                  InCriticalSection
    <3> QED
      BY <2>1, <3>1, <3>2 DEF Fate
  <2>4. \A y \in Steers \ taken : Fate(y)' = Fate(y)
    BY <2>1, FateFrame
  <2>5. Delivery!Inject(taken)
    BY <2>1, <2>2, <2>3, <2>4 DEF Delivery!Inject
  <2> QED
    BY <2>2, <2>5
<1>9. ASSUME NEW r \in Runs, TurnSwallowsCancellation(r)
      PROVE  UNCHANGED Delivery!vars
  BY <1>9, DeliveryStutter DEF TurnSwallowsCancellation, steerVars
<1>10. ASSUME NEW x \in Steers, TurnTaskFirstStep(x)
       PROVE  UNCHANGED Delivery!vars
  BY <1>10, DeliveryStutter DEF TurnTaskFirstStep, steerVars
<1>11. ASSUME NEW x \in Steers, TurnTaskCancelledUnstarted(x)
       PROVE  UNCHANGED Delivery!vars
  BY <1>11, DeliveryStutter DEF TurnTaskCancelledUnstarted, steerVars
<1>12. ASSUME NEW x \in Steers, SteerStep(x)
       PROVE  [Delivery!Next]_(Delivery!vars)
  <2>1. SteerAt(x) /\ x \in Runs
    BY DEF SteerInv, Runs
  <2>2. UNCHANGED consumed
    BY <1>12, SteerStepMoves DEF unchangedBySteering
  <2>3. steer[x] # "idle" /\ steer[x] # "answered"
    BY <1>12 DEF SteerStep, SteerEnters, SteeringLockGranted,
         SteerRunStartedOrCompleted, SteerDeliveredOrCompleted, SteerOwnTurn,
         SteerAcknowledged
  <2>4. outcome[x] = "none"
    BY <2>1, <2>3 DEF SteerAt, NotYetSent, TypeOK, SteerTypes, InCriticalSection
  <2>5. /\ steer' \in [Steers -> {"idle", "waitLock", "notify", "answered"}
                                 \cup InCriticalSection]
        /\ \A y \in Steers : y # x =>
             steer'[y] = steer[y] /\ (y \in inbox' <=> y \in inbox)
        /\ steer'[x] # "idle"
    BY <1>12 DEF SteerStep, SteerEnters, SteerRunStartedOrCompleted,
         SteerDeliveredOrCompleted, SteerOwnTurn, SteerAcknowledged, AnswerSteer,
         SteerReturns, EnqueueFor, StartSteeringTurn, Dequeue, TypeOK, SteerTypes, InCriticalSection
  <2>6. \A y \in Steers : y # x => Fate(y)' = Fate(y)
    BY <2>2, <2>5, FateFrame
  <2>7. ASSUME outcome' = outcome, Fate(x)' = Fate(x)
        PROVE  UNCHANGED Delivery!vars
    BY <2>6, <2>7 DEF Delivery!vars
  <2>8. ASSUME StartSteeringTurn(x), Fate(x) \in {"held", "queued"}, x \notin inbox',
               consumed[x] = {}
        PROVE  [Delivery!Next]_(Delivery!vars)
    <3>1. Fate(x)' = "held"
      BY <2>2, <2>5, <2>8 DEF Fate
    <3>2. CASE AnswerSteer(x, "rejected") \/ AnswerSteer(x, "failed")
      BY <2>4, <2>6, <2>8, <3>1, <3>2, DeliveryReport
      DEF AnswerSteer, Delivery!Next
    <3>3. CASE UNCHANGED outcome
      <4>1. CASE Fate(x) = "held"
        BY <2>7, <3>1, <3>3, <4>1
      <4>2. CASE Fate(x) = "queued"
        BY <2>4, <2>6, <3>1, <3>3, <4>2, DeliveryMove
        DEF Delivery!Withdraw, Delivery!Next
      <4> QED
        BY <2>8, <4>1, <4>2
    <3> QED
      BY <2>8, <3>2, <3>3 DEF StartSteeringTurn
  <2>9. ASSUME NEW r \in Runs, EnqueueFor(x, r), Fate(x) = "held"
        PROVE  [Delivery!Next]_(Delivery!vars)
    <3>1. Fate(x)' = "queued" /\ UNCHANGED outcome
      BY <2>5, <2>9 DEF EnqueueFor, Fate
    <3> QED
      BY <2>4, <2>6, <2>9, <3>1, DeliveryMove DEF Delivery!Queue, Delivery!Next
  <2>10. steer[x] \in {"waitLock", "waitStart"} =>
           Fate(x) = "held" /\ x \notin inbox /\ consumed[x] = {}
    BY <2>1 DEF SteerAt, NotYetSent, Fate
  <2>11. CASE SteerEnters(x)
    <3>1. steer[x] = "waitLock"
      BY <2>11 DEF SteerEnters, SteeringLockGranted
    <3>2. CASE AnswerSteer(x, "rejected") /\ UNCHANGED inbox
      <4>1. Fate(x)' = "held"
        BY <2>2, <2>5, <2>10, <3>1, <3>2 DEF Fate
      <4> QED
        BY <2>4, <2>6, <2>10, <3>1, <3>2, <4>1, DeliveryReport
        DEF AnswerSteer, Delivery!Next
    <3>3. CASE UNCHANGED <<outcome, inbox>>
      <4>1. Fate(x)' = Fate(x)
        BY <2>2, <2>5, <2>10, <3>1, <3>3 DEF Fate
      <4> QED
        BY <2>7, <3>3, <4>1
    <3>4. CASE StartSteeringTurn(x) /\ UNCHANGED inbox
      BY <2>8, <2>10, <3>1, <3>4
    <3>5. CASE \E r \in Runs : EnqueueFor(x, r)
      BY <2>9, <2>10, <3>1, <3>5
    <3> QED
      BY <2>11, <3>2, <3>3, <3>4, <3>5 DEF SteerEnters
  <2>12. CASE SteerRunStartedOrCompleted(x)
    <3>1. steer[x] = "waitStart"
      BY <2>12 DEF SteerRunStartedOrCompleted
    <3>2. CASE target[x] \in started /\ EnqueueFor(x, target[x])
      BY <2>9, <2>10, <3>1, <3>2 DEF TypeOK, RunTypes
    <3>3. CASE StartSteeringTurn(x) /\ UNCHANGED inbox
      BY <2>8, <2>10, <3>1, <3>3
    <3> QED
      BY <2>12, <3>2, <3>3 DEF SteerRunStartedOrCompleted
  <2>13. CASE SteerDeliveredOrCompleted(x)
    <3>1. steer[x] = "waitDelivery"
      BY <2>13 DEF SteerDeliveredOrCompleted
    <3>2. CASE (x \in delivered \/ x \notin inbox) /\ SteerReturns(x, "injected")
               /\ UNCHANGED inbox
      <4>1. x \notin inbox /\ Injected(x)
        BY <2>1, <3>1, <3>2 DEF SteerAt
      <4>2. Fate(x) = "injected" /\ Fate(x)' = "injected"
        BY <2>2, <2>5, <3>1, <3>2, <4>1 DEF Fate, Injected
      <4>3. CASE x \in WithSteerId
        BY <2>7, <3>2, <4>2, <4>3 DEF SteerReturns
      <4>4. CASE x \notin WithSteerId
        BY <2>4, <2>6, <3>2, <4>2, <4>4, DeliveryReport
        DEF SteerReturns, AnswerSteer, Delivery!Next
      <4> QED
        BY <4>3, <4>4
    <3>3. CASE /\ x \notin delivered /\ x \in inbox /\ Dequeue({x})
               /\ StartSteeringTurn(x)
      <4>1. consumed[x] = {} /\ Fate(x) = "queued" /\ x \notin inbox'
        BY <2>1, <3>1, <3>3 DEF SteerAt, Fate, Dequeue
      <4> QED
        BY <2>8, <3>3, <4>1
    <3> QED
      BY <2>13, <3>2, <3>3 DEF SteerDeliveredOrCompleted
  <2>14. CASE SteerOwnTurn(x)
    <3>1. /\ steer[x] = "waitOwnTurn" /\ UNCHANGED inbox /\ x \notin inbox
          /\ consumed[x] = IF x \in started THEN {x} ELSE {}
      BY <2>1, <2>14 DEF SteerOwnTurn, SteerAt
    <3>2. CASE x \in started /\ SteerReturns(x, "startedNewTurn")
      <4>1. Fate(x) = "ownTurn" /\ Fate(x)' = "ownTurn"
        BY <2>2, <2>5, <3>1, <3>2 DEF Fate
      <4>2. CASE x \in WithSteerId
        BY <2>7, <3>2, <4>1, <4>2 DEF SteerReturns
      <4>3. CASE x \notin WithSteerId
        BY <2>4, <2>6, <3>2, <4>1, <4>3, DeliveryReport
        DEF SteerReturns, AnswerSteer, Delivery!Next
      <4> QED
        BY <4>2, <4>3
    <3>3. CASE x \notin started /\ AnswerSteer(x, OutcomeOfUnstarted(answer[x]))
      <4>1. Fate(x) = "held" /\ Fate(x)' = "held"
        BY <2>2, <2>5, <3>1, <3>3 DEF Fate
      <4>2. OutcomeOfUnstarted(answer[x]) \in {"rejected", "failed", "aborted"}
        BY DEF OutcomeOfUnstarted
      <4> QED
        BY <2>4, <2>6, <3>3, <4>1, <4>2, DeliveryReport DEF AnswerSteer, Delivery!Next
    <3> QED
      BY <2>14, <3>2, <3>3 DEF SteerOwnTurn
  <2>15. CASE SteerAcknowledged(x)
    <3>1. /\ steer[x] = "notify" /\ UNCHANGED inbox
          /\ x \in WithSteerId /\ x \notin inbox /\ Taken(x)
      BY <2>1, <2>15 DEF SteerAcknowledged, SteerAt
    <3>2. Fate(x) \in {"injected", "ownTurn"} /\ Fate(x)' = Fate(x)
      BY <2>2, <2>5, <3>1 DEF Fate, Taken, Injected
    <3>3. PICK result \in {"injected", "failed"} : AnswerSteer(x, result)
      BY <2>15 DEF SteerAcknowledged
    <3> QED
      BY <2>4, <2>6, <3>1, <3>2, <3>3, DeliveryReport DEF AnswerSteer, Delivery!Next
  <2> QED
    BY <1>12, <2>11, <2>12, <2>13, <2>14, <2>15 DEF SteerStep
<1>13. ASSUME NEW e \in Ends, EndStep(e) PROVE UNCHANGED Delivery!vars
  BY <1>13, DeliveryStutter
  DEF EndStep, EndSessionGathered, EndSessionTeardown, steerVars
<1>14. CASE UNCHANGED vars
  BY <1>14, DeliveryStutter DEF vars, steerVars
<1> QED
  BY <1>1, <1>2, <1>3, <1>4, <1>5, <1>6, <1>7, <1>8, <1>9, <1>10, <1>11,
     <1>12, <1>13, <1>14
  DEF Next, Requests, RunStep, BackgroundStep, Idle, Delivery!Next

\* Whatever prompts, cancellations and closes do meanwhile, steering messages
\* are handled as SteeringDelivery promises.
THEOREM SteeringRefinesDelivery == Spec => ImplementsSteeringDelivery
<1>1. Init => Delivery!Init
  BY DEF Init, Delivery!Init, Fate
<1>2. IInv /\ [Next]_vars => [Delivery!Next]_(Delivery!vars)
  BY DeliveryStep
<1> QED
  BY <1>1, <1>2, InductiveInvariant, PTL
  DEF Spec, ImplementsSteeringDelivery, Delivery!Spec

-----------------------------------------------------------------------------
(***************************************************************************)
(* The order of delivery.                                                  *)
(***************************************************************************)

\* The request no longer holds or awaits the steering lock.
LeftLock == {"notify", "answered"}

\* The arrival counter is ahead of every request, and whoever got past a steering lock has
\* left nobody behind who asked for it earlier.
OrderInv ==
  /\ \A x \in Steers : steer[x] # "idle" => asked[x] < now
  /\ \A x, y \in Steers :
       /\ SameLock(x, y) /\ asked[x] < asked[y]
       /\ steer[x] # "idle" /\ steer[y] \notin {"idle", "waitLock"}
       => steer[x] \in LeftLock

\* A step that moves no steering request keeps the order.
LEMMA OrderFrame ==
  ASSUME TypeOK, OrderInv, UNCHANGED <<steer, lockObject, asked>>, now' \in {now, now + 1},
         \A x \in Steers : sess'[x] = sess[x]
  PROVE  OrderInv'
<1>1. \A x \in Steers : asked[x] < now => asked[x] < now'
  BY DEF TypeOK, SteerTypes
<1> QED
  BY <1>1 DEF OrderInv, SameLock

\* A request that is past its lock moves on within it, or answers and frees it.
LEMMA OrderWithinLock ==
  ASSUME TypeOK, OrderInv, NEW x \in Steers,
         steer[x] \in InCriticalSection, steer'[x] \in InCriticalSection \cup LeftLock,
         steer' = [steer EXCEPT ![x] = steer'[x]],
         UNCHANGED <<sess, lockObject, asked>>, now' \in {now, now + 1}
  PROVE  OrderInv'
<1>1. \A y \in Steers : asked[y] < now => asked[y] < now'
  BY DEF TypeOK, SteerTypes
<1>2. \A y \in Steers : steer'[y] = steer[y] \/ y = x
  BY DEF TypeOK, SteerTypes
<1> QED
  BY <1>1, <1>2 DEF OrderInv, SameLock, InCriticalSection, LeftLock

\* Every step keeps the order.
LEMMA OrderInvStep ==
  ASSUME TypeOK, SteerInv, OrderInv, [Next]_vars
  PROVE  OrderInv'
<1> USE DEF TypeOK
<1>1. ASSUME NEW p \in Prompts, NEW s \in Sessions, Prompt(p, s) PROVE OrderInv'
  <2>1. \A x \in Steers : sess'[x] = sess[x]
    BY <1>1, ConstantsAssumption DEF Prompt, RunTypes, Runs
  <2> QED
    BY <1>1, <2>1, OrderFrame DEF Prompt, steerVars
<1>2. ASSUME NEW x \in Steers, NEW s \in Sessions, SteerArrives(x, s) PROVE OrderInv'
  <2>1. /\ asked' = [asked EXCEPT ![x] = now] /\ now' = now + 1
        /\ steer' = [steer EXCEPT ![x] = "waitLock"]
        /\ \A y \in Steers \ {x} : sess'[y] = sess[y] /\ lockObject'[y] = lockObject[y]
    BY <1>2 DEF SteerArrives, RunTypes, SteerTypes, Runs
  <2>2. \A y \in Steers : asked[y] \in Nat
    BY DEF SteerTypes
  <2>3. \A y \in Steers : steer'[y] # "idle" => asked'[y] < now'
    BY <2>1, <2>2 DEF OrderInv, SteerTypes
  <2>4. ASSUME NEW y \in Steers, NEW z \in Steers,
               SameLock(y, z)', asked'[y] < asked'[z], steer'[y] # "idle",
               steer'[z] \notin {"idle", "waitLock"}
        PROVE  steer'[y] \in LeftLock
    <3>1. z # x /\ asked'[z] < now
      BY <2>1, <2>4 DEF OrderInv, SteerTypes
    <3>2. y # x
      BY <2>1, <2>2, <2>4, <3>1 DEF SteerTypes
    <3> QED
      BY <2>1, <2>4, <3>1, <3>2 DEF OrderInv, SameLock, LeftLock, SteerTypes
  <2> QED
    BY <2>3, <2>4 DEF OrderInv
<1>3. ASSUME NEW x \in Steers, SteerEnters(x) PROVE OrderInv'
  <2>1. /\ steer[x] = "waitLock" /\ steer'[x] \notin {"idle", "waitLock"}
        /\ \A y \in Steers \ {x} : steer'[y] = steer[y]
        /\ UNCHANGED <<sess, lockObject, asked>> /\ now' \in {now, now + 1}
    BY <1>3
    DEF SteerEnters, LeftLock, SteeringLockGranted, SteerReturns, AnswerSteer, EnqueueFor, StartSteeringTurn,
        unchangedBySteering, SteerTypes
  <2>2. \A y \in Steers : asked[y] < now => asked[y] < now'
    BY <2>1 DEF SteerTypes
  <2>3. \A y \in Steers : SameLock(y, x) /\ asked[y] < asked[x] /\ steer[y] # "idle" =>
          steer[y] \in LeftLock
    BY <1>3 DEF SteerEnters, SteeringLockGranted, SameLock, LeftLock, SteerTypes
  <2> QED
    BY <2>1, <2>2, <2>3 DEF OrderInv, SameLock, LeftLock
<1>4. ASSUME NEW x \in Steers, SteerRunStartedOrCompleted(x) PROVE OrderInv'
  <2>1. /\ steer[x] \in InCriticalSection
        /\ steer'[x] \in InCriticalSection \cup LeftLock
        /\ steer' = [steer EXCEPT ![x] = steer'[x]]
        /\ UNCHANGED <<sess, lockObject, asked>> /\ now' \in {now, now + 1}
    BY <1>4
    DEF SteerRunStartedOrCompleted, LeftLock, SteerReturns, AnswerSteer, EnqueueFor, StartSteeringTurn,
        unchangedBySteering, InCriticalSection, SteerTypes
  <2> QED
    BY <2>1, OrderWithinLock
<1>5. ASSUME NEW x \in Steers, SteerDeliveredOrCompleted(x) PROVE OrderInv'
  <2>1. /\ steer[x] \in InCriticalSection
        /\ steer'[x] \in InCriticalSection \cup LeftLock
        /\ steer' = [steer EXCEPT ![x] = steer'[x]]
        /\ UNCHANGED <<sess, lockObject, asked>> /\ now' \in {now, now + 1}
    BY <1>5
    DEF SteerDeliveredOrCompleted, LeftLock, SteerReturns, AnswerSteer, StartSteeringTurn, unchangedBySteering,
        InCriticalSection, SteerTypes
  <2> QED
    BY <2>1, OrderWithinLock
<1>6. ASSUME NEW x \in Steers, SteerOwnTurn(x) PROVE OrderInv'
  <2>1. /\ steer[x] \in InCriticalSection
        /\ steer'[x] \in InCriticalSection \cup LeftLock
        /\ steer' = [steer EXCEPT ![x] = steer'[x]]
        /\ UNCHANGED <<sess, lockObject, asked, now>>
    BY <1>6 DEF SteerOwnTurn, LeftLock, SteerReturns, AnswerSteer, unchangedBySteering, InCriticalSection, SteerTypes
  <2> QED
    BY <2>1, OrderWithinLock
<1>7. ASSUME \/ \E s \in Sessions : Cancel(s)
             \/ \E e \in Ends, s \in Sessions : EndSession(e, s)
             \/ \E e \in Ends : EndStep(e)
             \/ \E r \in Runs : RunStep(r) \/ DrainMessages(r) \/ TurnSwallowsCancellation(r)
             \/ \E x \in Steers : BackgroundStep(x)
             \/ UNCHANGED vars
      PROVE  OrderInv'
  <2>1. UNCHANGED <<sess, steer, lockObject, asked>> /\ now' \in {now, now + 1}
    BY <1>7
    DEF Cancel, EndSession, EndStep, EndSessionGathered, EndSessionTeardown, RunStep,
        AcquirePromptLock, TurnEnds, CancellationDelivered, DrainMessages,
        TurnSwallowsCancellation, BackgroundStep, TurnTaskFirstStep,
        TurnTaskCancelledUnstarted, vars, runVars, steerVars
  <2> QED
    BY <2>1, OrderFrame
<1>8. ASSUME NEW x \in Steers, SteerAcknowledged(x) PROVE OrderInv'
  <2>1. /\ steer[x] = "notify" /\ steer' = [steer EXCEPT ![x] = "answered"]
        /\ UNCHANGED <<sess, lockObject, asked, now>>
    BY <1>8 DEF SteerAcknowledged, AnswerSteer, unchangedBySteering
  <2> QED
    BY <2>1 DEF OrderInv, SameLock, LeftLock, SteerTypes
<1> QED
  BY <1>1, <1>2, <1>3, <1>4, <1>5, <1>6, <1>7, <1>8 DEF Next, Requests, SteerStep, Idle

\* Messages that took the same steering lock are consumed in the order in which their
\* requests arrived, whichever of them found a turn to steer and whichever became one.
THEOREM SteeringOrderKept == Spec => []SteeringKeepsArrivalOrder
<1>1. Init => OrderInv
  BY DEF Init, OrderInv
<1>2. IInv /\ OrderInv /\ [Next]_vars => OrderInv'
  BY OrderInvStep DEF IInv
<1>3. IInv /\ OrderInv => SteeringKeepsArrivalOrder
  <2> SUFFICES ASSUME IInv, OrderInv PROVE SteeringKeepsArrivalOrder
    OBVIOUS
  <2>1. \A y \in Steers : consumed[y] # {} => steer[y] \notin {"idle", "waitLock"}
    BY DEF IInv, SteerInv, SteerAt, NotYetSent
  <2> QED
    BY <2>1 DEF OrderInv, SteeringKeepsArrivalOrder, SameLock, LeftLock
<1> QED
  BY <1>1, <1>2, <1>3, InductiveInvariant, PTL DEF Spec
=============================================================================
