------------------------------ MODULE JobStore ------------------------------
(***************************************************************************)
(* JSONJobStore, the schedule tools and ScheduleChannel (bub-schedule):    *)
(* jobs.json, rewritten whole at each change, the scheduler of APScheduler *)
(* (external) that works on it, and the channel that lends a job its       *)
(* framework.  All of it runs on one event loop; the process may die at    *)
(* any point, also while the file is written.                              *)
(***************************************************************************)
EXTENDS Naturals, FiniteSets

CONSTANTS
  Once, Repeated,  \* jobs, each added at most once: its id is random
  MaxCrashes

Jobs == Once \cup Repeated
Torn == {"torn"}  \* a file that does not load
JobStoreConstants == "torn" \notin Jobs

VARIABLES
  scheduler,  \* off, on, stopping
  framework,  \* ScheduleChannel._framework: is there one?
  jobs, due,  \* _jobs, and those whose time has come
  disk,       \* jobs.json
  clean,      \* history: every save has gone well
  owed,       \* history: the jobs added and neither removed nor over
  added,      \* history
  submitted,  \* scheduled runs that have not begun
  running,    \* how many scheduled runs of a job there are
  manual,     \* the jobs that schedule.trigger runs
  begun,      \* history: how many runs of a reminder that is due once have begun
  crashes

store == <<jobs, due, disk, clean, owed, added>>
vars == <<scheduler, framework, store, submitted, running, manual, begun, crashes>>

Init ==
  /\ scheduler = "off" /\ framework = FALSE
  /\ jobs = {} /\ due = {} /\ disk = {} /\ clean = TRUE /\ owed = {} /\ added = {}
  /\ submitted = {} /\ running = [j \in Jobs |-> 0] /\ manual = {}
  /\ begun = [j \in Once |-> 0] /\ crashes = 0

\* _save: an error is logged, and leaves the file as it was or torn.
Save(js) ==
  \/ disk' = js /\ UNCHANGED clean
  \/ disk' \in {disk, Torn} /\ clean' = FALSE

-----------------------------------------------------------------------------
\* start, of the channel; the store was loaded when the process began.
Starts ==
  /\ scheduler = "off" /\ scheduler' = "on" /\ framework' = TRUE
  /\ UNCHANGED <<store, submitted, running, manual, begun, crashes>>

\* stop: the framework is gone at once, the scheduler soon.
Stops ==
  /\ scheduler = "on" /\ scheduler' = "stopping" /\ framework' = FALSE
  /\ UNCHANGED <<store, submitted, running, manual, begun, crashes>>

\* shutdown, of the scheduler, which cancels the runs, and of the store.
ShutsDown ==
  /\ scheduler = "stopping" /\ scheduler' = "down"
  /\ submitted' = {} /\ running' = [j \in Jobs |-> 0] /\ Save(jobs)
  /\ UNCHANGED <<framework, jobs, due, owed, added, manual, begun, crashes>>

\* schedule_add, add_job.
Adds(j) ==
  /\ scheduler = "on" /\ j \notin added
  /\ jobs' = jobs \cup {j} /\ owed' = owed \cup {j} /\ added' = added \cup {j}
  /\ Save(jobs')
  /\ UNCHANGED <<scheduler, framework, due, submitted, running, manual, begun, crashes>>

\* schedule_remove, remove_job; an id that is not there is an error.
Removes(j) ==
  /\ scheduler = "on" /\ j \in jobs
  /\ jobs' = jobs \ {j} /\ due' = due \ {j} /\ owed' = owed \ {j}
  /\ Save(jobs')
  /\ UNCHANGED <<scheduler, framework, added, submitted, running, manual, begun, crashes>>

\* schedule_trigger, get_job: a run of its own.
Triggers(j) ==
  /\ framework /\ j \in jobs \ manual /\ manual' = manual \cup {j}
  /\ UNCHANGED <<scheduler, framework, store, submitted, running, begun, crashes>>

ComesDue(j) ==
  /\ scheduler # "down" /\ j \in jobs \ due /\ due' = due \cup {j}
  /\ UNCHANGED <<scheduler, framework, jobs, disk, clean, owed, added, submitted, running,
                 manual, begun, crashes>>

\* mutant: a job that is over is only updated.
AfterKept(j) == jobs

\* update_job, or remove_job where there is no next time.
After(j) == IF j \in Once THEN jobs \ {j} ELSE jobs

\* get_due_jobs, and the scheduler: the run is submitted, unless one is under way
\* (max_instances), and the job updated before it begins.
Fires(j) ==
  /\ scheduler \in {"on", "stopping"} /\ j \in due /\ due' = due \ {j}
  /\ submitted' = IF running[j] = 0 THEN submitted \cup {j} ELSE submitted
  /\ jobs' = After(j) /\ owed' = owed \ ({j} \cap Once) /\ Save(jobs')
  /\ UNCHANGED <<scheduler, framework, added, running, manual, begun, crashes>>

\* run_scheduled_reminder, current_framework: without a framework it raises, and
\* the reminder is lost.
Begins(j) ==
  /\ j \in submitted /\ submitted' = submitted \ {j}
  /\ IF framework THEN running' = [running EXCEPT ![j] = @ + 1] /\
       begun' = [k \in Once |-> IF k = j THEN begun[k] + 1 ELSE begun[k]]
     ELSE UNCHANGED <<running, begun>>
  /\ UNCHANGED <<scheduler, framework, store, manual, crashes>>

\* process_inbound has returned or raised.
Finishes(j) ==
  \/ running[j] > 0 /\ running' = [running EXCEPT ![j] = @ - 1]
     /\ UNCHANGED <<scheduler, framework, store, submitted, manual, begun, crashes>>
  \/ j \in manual /\ manual' = manual \ {j}
     /\ UNCHANGED <<scheduler, framework, store, submitted, running, begun, crashes>>

\* The process dies, and _load reads what there is; a torn file is no jobs.
Crashes ==
  /\ crashes < MaxCrashes /\ crashes' = crashes + 1
  /\ scheduler' = "off" /\ framework' = FALSE
  /\ jobs' = IF disk = Torn THEN {} ELSE disk
  /\ due' = {} /\ submitted' = {} /\ running' = [j \in Jobs |-> 0] /\ manual' = {}
  /\ UNCHANGED <<disk, clean, owed, added, begun>>

Next ==
  \/ Starts \/ Stops \/ ShutsDown \/ Crashes
  \/ \E j \in Jobs :
       \/ Adds(j) \/ Removes(j) \/ Triggers(j) \/ ComesDue(j) \/ Fires(j)
       \/ Begins(j) \/ Finishes(j)

Spec == Init /\ [][Next]_vars

-----------------------------------------------------------------------------
(* Properties *)

\* As long as every save has gone well, the file and, across crashes, the store hold
\* the jobs that were added and are neither removed nor over; a reminder that is due
\* once is given once, and runs of a job do not overlap, but for triggered ones:
\* JSONJobStore, schedule_add (max_instances).
JobsAreKept ==
  clean => /\ disk = jobs /\ jobs = owed
           /\ \A j \in Once : begun[j] <= 1
           /\ \A j \in Jobs : running[j] + (IF j \in submitted THEN 1 ELSE 0) <= 1
=============================================================================
