------------------------------ MODULE DshRuns ------------------------------
(***************************************************************************)
(* Turns whose model is the DeepSeek Harness (bub-dsh, plugin.py).  A run  *)
(* works in a thread of its own and hands what the harness says to the     *)
(* stream of its turn through a queue; runs of one runtime go one at a     *)
(* time.  A turn that is cancelled stops reading; its thread goes on.      *)
(* The harness (external) gives a notification to whoever runs in it.      *)
(***************************************************************************)
EXTENDS Naturals, Sequences, FiniteSets

CONSTANTS
  Runs,     \* numbers, in the order in which the turns begin
  Keys,     \* settings a runtime is kept for
  Sessions,
  MaxSaid   \* bounds what the harness says in a run

DshConstants == Runs \subseteq Nat \ {0} /\ Keys # {} /\ MaxSaid \in Nat

VARIABLES
  of,     \* of a run: [key, session], its runtime and Bub session
  worker, \* of a run: "none", "lock", "run", "after", "over"
  lock,   \* of a runtime: the run that holds its lock, or 0
  said,   \* of a run: what the harness said: "text", "reasoning"
  final,  \* of a run: its result: "none", "text", "nothing", "error"
  texted, \* text_emitted
  queue,  \* of a run: items that wait
  stream, \* of a run: "none", "open", "ended", "failed", "left"
  got     \* of a run: what its turn was given

vars == <<of, worker, lock, said, final, texted, queue, stream, got>>

None == [r \in Runs |-> "none"]
Nothing == [r \in Runs |-> <<>>]

Init ==
  /\ of = [r \in Runs |-> [key |-> CHOOSE k \in Keys : TRUE, session |-> "none"]]
  /\ worker = None /\ lock = [k \in Keys |-> 0] /\ said = Nothing /\ final = None
  /\ texted = [r \in Runs |-> FALSE] /\ queue = Nothing /\ stream = None /\ got = Nothing

\* run_model_stream, _stream_with_dsh: the worker is started.
Begins(r, key, session) ==
  /\ stream[r] = "none" /\ \A q \in Runs : q < r => stream[q] # "none"
  /\ of' = [of EXCEPT ![r] = [key |-> key, session |-> session]]
  /\ worker' = [worker EXCEPT ![r] = "lock"]
  /\ stream' = [stream EXCEPT ![r] = "open"]
  /\ UNCHANGED <<lock, said, final, texted, queue, got>>

\* enqueue: what the loop will put into the queue, unless the stream has gone.
Enqueued(items) ==
  queue' = [r \in Runs |-> IF stream[r] = "open" THEN queue[r] \o items[r] ELSE queue[r]]

\* mutant: runs of one runtime do not wait for each other.
FreeAlways(r) == TRUE

\* runtime.lock
Free(r) == lock[of[r].key] = 0

\* _runtime_for, session_id and the lock; the harness runs.
Locks(r) ==
  /\ worker[r] = "lock" /\ Free(r)
  /\ worker' = [worker EXCEPT ![r] = "run"]
  /\ lock' = [lock EXCEPT ![of[r].key] = r]
  /\ UNCHANGED <<of, said, final, texted, queue, stream, got>>

\* Who runs in a harness and has the harness's session of this run.
Listeners(r) == {q \in Runs : worker[q] = "run" /\ of[q] = of[r]}

\* mutant: thinking counts as the answer.
EmittedAny(kind) == TRUE

\* on_notification: is it text?
Emitted(kind) == kind = "text"

\* on_notification, for a chunk the harness says in the run.
Says(r, kind) ==
  /\ worker[r] = "run" /\ Len(said[r]) < MaxSaid
  /\ said' = [said EXCEPT ![r] = Append(@, kind)]
  /\ Enqueued([q \in Runs |-> IF q \in Listeners(r) THEN <<kind>> ELSE <<>>])
  /\ texted' = [q \in Runs |-> texted[q] \/ (q \in Listeners(r) /\ Emitted(kind))]
  /\ UNCHANGED <<of, worker, lock, final, stream, got>>

\* harness.run returns, or raises.  A run that said its answer has it in its result as well.
Returns(r) ==
  /\ worker[r] = "run"
  /\ \E x \in {"text", "nothing", "error"} : final' = [final EXCEPT ![r] = x]
  /\ worker' = [worker EXCEPT ![r] = "after"]
  /\ lock' = [lock EXCEPT ![of[r].key] = 0]
  /\ UNCHANGED <<of, said, texted, queue, stream, got>>

\* The rest of _run_with_dsh and of run: the answer, if none was streamed, or the error.
Rest(r) ==
  CASE final[r] = "error" -> <<"error">>
    [] final[r] = "text" /\ ~texted[r] -> <<"answer">>
    [] OTHER -> <<>>
EndsRun(r) ==
  /\ worker[r] = "after" /\ worker' = [worker EXCEPT ![r] = "over"]
  /\ Enqueued([q \in Runs |-> IF q = r THEN Append(Rest(r), "done") ELSE <<>>])
  /\ UNCHANGED <<of, lock, said, final, texted, stream, got>>

\* The turn takes the next item.
Takes(r) ==
  /\ stream[r] = "open" /\ queue[r] # <<>>
  /\ LET item == Head(queue[r]) IN
     /\ stream' = [stream EXCEPT ![r] = CASE item = "done" -> "ended"
                                          [] item = "error" -> "failed" [] OTHER -> "open"]
     /\ got' = IF item \in {"done", "error"} THEN got ELSE [got EXCEPT ![r] = Append(@, item)]
  /\ queue' = [queue EXCEPT ![r] = IF stream'[r] = "open" THEN Tail(@) ELSE <<>>]
  /\ UNCHANGED <<of, worker, lock, said, final, texted>>

\* The turn is cancelled, or its stream closed.
Leaves(r) ==
  /\ stream[r] = "open" /\ stream' = [stream EXCEPT ![r] = "left"]
  /\ queue' = [queue EXCEPT ![r] = <<>>]
  /\ UNCHANGED <<of, worker, lock, said, final, texted, got>>

Next ==
  \E r \in Runs :
    \/ \E key \in Keys, session \in Sessions : Begins(r, key, session)
    \/ Locks(r) \/ Returns(r) \/ EndsRun(r) \/ Takes(r) \/ Leaves(r)
    \/ \E kind \in {"text", "reasoning"} : Says(r, kind)

Spec == Init /\ [][Next]_vars

-----------------------------------------------------------------------------
\* The stream of a turn is what the harness said in its run, in order and no more: never of
\* another run of its session, though that was cancelled and goes on; the answer that was not
\* streamed comes at the end, once; and an error is raised after all that was said.
StreamIsItsRuns ==
  \A r \in Runs :
    LET answered == final[r] = "text" /\ \A i \in DOMAIN said[r] : said[r][i] # "text"
        whole == IF answered THEN Append(said[r], "answer") ELSE said[r]
    IN /\ Len(got[r]) <= Len(whole) /\ \A i \in DOMAIN got[r] : got[r][i] = whole[i]
       /\ stream[r] = "ended" => got[r] = whole /\ final[r] # "error"
       /\ stream[r] = "failed" => got[r] = whole /\ final[r] = "error"
=============================================================================
