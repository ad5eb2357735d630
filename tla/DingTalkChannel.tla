--------------------------- MODULE DingTalkChannel ---------------------------
(***************************************************************************)
(* DingTalkChannel (bub-dingtalk, channel.py).  A callback of the stream   *)
(* is acknowledged at once and its message handed over by a task of its    *)
(* own; the stream is started again, five seconds after it has ended.      *)
(***************************************************************************)
EXTENDS Naturals, FiniteSets

CONSTANT Messages

VARIABLES
  stream,   \* off, on, waiting (to reconnect), gone
  stop,     \* "no", "cancelled" (its tasks and its stream), "done"
  task,     \* of a message: what became of its task
  known,    \* _background_tasks
  acked     \* the callbacks that were answered

vars == <<stream, stop, task, known, acked>>

Init ==
  /\ stream = "off" /\ stop = "no" /\ task = [m \in Messages |-> "none"]
  /\ known = {} /\ acked = {}

\* _run_stream: it ends or raises, and begins again unless stop is set.
Streams ==
  /\ stop = "no"
  /\ \/ stream \in {"off", "waiting"} /\ stream' = "on"
     \/ stream = "on" /\ stream' = "waiting"
  /\ UNCHANGED <<stop, task, known, acked>>

\* process: a task per message; what has no text or raises is acknowledged as well.
\* A callback that is due may still run while stop waits for the stream.
Calls(m) ==
  /\ stream = "on" /\ m \notin acked /\ acked' = acked \cup {m}
  /\ \/ task' = [task EXCEPT ![m] = "due"] /\ known' = known \cup {m}
     \/ UNCHANGED <<task, known>>
  /\ UNCHANGED <<stream, stop>>

\* _on_message: handed over, or denied.
Hands(m) ==
  /\ task[m] = "due" /\ known' = known \ {m}
  /\ \E t \in {"handed", "denied"} : task' = [task EXCEPT ![m] = t]
  /\ UNCHANGED <<stream, stop, acked>>

\* mutant: the set is cleared before its tasks are cancelled.
NoneCancelled == task

TasksCancelled == [m \in Messages |-> IF m \in known THEN "cancelled" ELSE task[m]]

\* stop, up to its await.
Stops ==
  /\ stop = "no" /\ stop' = "cancelled" /\ task' = TasksCancelled /\ known' = {}
  /\ UNCHANGED <<stream, acked>>

Ends ==
  /\ stop = "cancelled" /\ stop' = "done" /\ stream' = "gone"
  /\ UNCHANGED <<task, known, acked>>

Next ==
  \/ Streams \/ Stops \/ Ends
  \/ \E m \in Messages : Calls(m) \/ Hands(m)

Spec == Init /\ [][Next]_vars

-----------------------------------------------------------------------------
(* Properties *)

\* Once stop has begun, no task it has found hands its message over: only those of
\* callbacks that ran while it waited for the stream may: stop, process.
StoppedTasksStay ==
  [][stop # "no" => \A m \in Messages :
       task'[m] = "handed" /\ task[m] # "handed" => m \in known]_vars
=============================================================================
