---------------------------- MODULE AcpSubagents ----------------------------
(***************************************************************************)
(* What a connection of the ACP server keeps and tells of the subagent     *)
(* tasks its turns start (subagents.py; _on_subagent_event,                *)
(* _subagent_request and _end_subagents of agent.py).  A task runs in the  *)
(* background of its session, emits its events one after the other, and    *)
(* may outlive the turn; a session may be ended on another connection than *)
(* the one that watches its tasks.                                         *)
(***************************************************************************)
EXTENDS Naturals, Sequences

CONSTANTS
  Tasks,       \* numbers, in the order in which they start
  Connections,
  Sessions,
  MaxFinished, \* MAX_FINISHED_SUBAGENT_RUNS
  MaxOpens

SubagentsConstants == Tasks \subseteq Nat /\ MaxFinished \in Nat \ {0}

VARIABLES
  session,   \* "open", "closed", or the connection that closes it
  opens,
  owner,     \* of a task: [by, of], connection and session
  status,    \* of a task: "none", "running", "done"
  handler,   \* of its events: "none", "started", "output", "finished"
  asked,     \* tasks that are to be cancelled
  runs,      \* _subagent_runs of a connection: tasks
  finished,  \* _finished_subagent_runs of a connection: of a session, tasks as they ended
  emitter,   \* SubagentEventEmitter: tasks whose terminal snapshot it has published
  told,      \* client: of a task, "nothing", "news", "end", or "more", news after its end
  ended,     \* history: of a connection and a session, those that ended since it was opened
  closedBy   \* history: the connection that closed a session last

sessions == <<session, opens, closedBy>>
books == <<runs, finished>>
vars == <<sessions, owner, status, handler, asked, books, emitter, told, ended>>

Init ==
  /\ session = [s \in Sessions |-> "open"] /\ opens = [s \in Sessions |-> 1]
  /\ closedBy = [s \in Sessions |-> "none"]
  /\ owner = [t \in Tasks |-> [by |-> "none", of |-> "none"]]
  /\ status = [t \in Tasks |-> "none"] /\ handler = [t \in Tasks |-> "none"]
  /\ asked = {} /\ runs = [w \in Connections |-> {}]
  /\ finished = [w \in Connections |-> [s \in Sessions |-> <<>>]]
  /\ emitter = {} /\ told = [t \in Tasks |-> "nothing"]
  /\ ended = [w \in Connections |-> [s \in Sessions |-> <<>>]]

\* _subagent_run: the run of a task, which its first event makes.
WithRun(t) == [runs EXCEPT ![owner'[t].by] = @ \cup {t}]

\* A terminal snapshot ends the emitter.
NewsGoes(t) == t \notin emitter

\* _publish, which may fail: an update, or a snapshot with a terminal state.
PublishesNews(t) ==
  /\ UNCHANGED emitter
  /\ told' = IF ~NewsGoes(t) THEN told
             ELSE [told EXCEPT ![t] = IF @ \in {"end", "more"} THEN "more" ELSE "news"]
PublishesEnd(t) ==
  /\ emitter' = emitter \cup {t}
  /\ told' \in {told, IF NewsGoes(t)
                      THEN [told EXCEPT ![t] = IF @ = "end" THEN "more" ELSE "end"] ELSE told}

\* SubagentStarted: a turn of an open session starts a task.
Starts(t, w, s) ==
  /\ status[t] = "none" /\ session[s] = "open"
  /\ \A u \in Tasks : u < t => status[u] # "none"
  /\ owner' = [owner EXCEPT ![t] = [by |-> w, of |-> s]]
  /\ status' = [status EXCEPT ![t] = "running"]
  /\ handler' = [handler EXCEPT ![t] = "started"]
  /\ runs' = WithRun(t) /\ PublishesNews(t)
  /\ UNCHANGED <<sessions, asked, finished, ended>>

\* SubagentOutput: text, or a round of tool calls or results.
Outputs(t) ==
  /\ status[t] = "running" /\ handler[t] = "none"
  /\ handler' = [handler EXCEPT ![t] = "output"]
  /\ UNCHANGED owner
  /\ runs' = WithRun(t) /\ PublishesNews(t)
  /\ UNCHANGED <<sessions, status, asked, finished, ended>>

\* The update has been sent; the task goes on.
Handled(t) ==
  /\ handler[t] \in {"started", "output"}
  /\ handler' = [handler EXCEPT ![t] = "none"]
  /\ UNCHANGED <<sessions, owner, status, asked, books, emitter, told, ended>>

\* mutant: the run that began first makes room.
FirstStarted(kept) ==
  {kept[i] : i \in {j \in DOMAIN kept : Len(kept) > MaxFinished
                                          /\ \A k \in DOMAIN kept : kept[j] <= kept[k]}}

\* _prune_finished_subagent_runs: the runs that make room, and those that stay.
Dropped(kept) == {kept[i] : i \in {j \in DOMAIN kept : j + MaxFinished <= Len(kept)}}
Newest(kept) ==
  IF Len(kept) > MaxFinished THEN SubSeq(kept, Len(kept) - MaxFinished + 1, Len(kept)) ELSE kept

\* SubagentFinished, of a task that has completed, failed or been cancelled, maybe while an
\* event of it was handled: _publish_subagent_end up to its progress.
Finishes(t) ==
  LET w == owner[t].by
      s == owner[t].of
      kept == Append(finished[w][s], t)
  IN /\ status[t] = "running" /\ (handler[t] = "none" \/ t \in asked)
     /\ status' = [status EXCEPT ![t] = "done"]
     /\ handler' = [handler EXCEPT ![t] = "finished"]
     /\ UNCHANGED owner
     /\ finished' = [finished EXCEPT ![w][s] = Newest(kept)]
     /\ runs' = [WithRun(t) EXCEPT ![w] = @ \ Dropped(kept)]
     /\ PublishesNews(t)
     /\ ended' = [ended EXCEPT ![w][s] = Append(@, t)]
     /\ UNCHANGED <<sessions, asked>>

\* The terminal snapshot and the lifecycle update.
TellsEnd(t) ==
  /\ handler[t] = "finished"
  /\ handler' = [handler EXCEPT ![t] = "none"]
  /\ PublishesEnd(t)
  /\ UNCHANGED <<sessions, owner, status, asked, books, ended>>

\* _subagent_request: lody/subagents/cancel, of a run this connection lists.
AsksCancel(w, t) ==
  /\ t \in runs[w] /\ status[t] = "running"
  /\ asked' = asked \cup {t}
  /\ UNCHANGED <<sessions, owner, status, handler, books, emitter, told, ended>>

\* _end_session, after its turns have ended: cancel_session asks all its tasks.
Ends(s, w) ==
  /\ session[s] = "open"
  /\ session' = [session EXCEPT ![s] = w]
  /\ asked' = asked \cup {t \in Tasks : owner[t].of = s /\ status[t] = "running"}
  /\ UNCHANGED <<opens, closedBy, owner, status, handler, books, emitter, told, ended>>

\* _end_subagents, when the tasks have ended: this connection forgets its runs.
Ended(s) ==
  LET w == session[s] IN
  /\ session[s] \in Connections
  /\ \A t \in Tasks :
       owner[t].of = s => status[t] = "done" /\ handler[t] = "none"
  /\ runs' = [runs EXCEPT ![w] = @ \ {t \in Tasks : owner[t].of = s}]
  /\ finished' = [finished EXCEPT ![w][s] = <<>>]
  /\ session' = [session EXCEPT ![s] = "closed"]
  /\ closedBy' = [closedBy EXCEPT ![s] = w]
  /\ ended' = [v \in Connections |-> [ended[v] EXCEPT ![s] = <<>>]]
  /\ UNCHANGED <<opens, owner, status, handler, asked, emitter, told>>

\* session/load.
Opens(s) ==
  /\ session[s] = "closed" /\ opens[s] < MaxOpens
  /\ session' = [session EXCEPT ![s] = "open"] /\ opens' = [opens EXCEPT ![s] = @ + 1]
  /\ UNCHANGED <<closedBy, owner, status, handler, asked, books, emitter, told, ended>>

Next ==
  \/ \E t \in Tasks :
       \/ \E w \in Connections, s \in Sessions : Starts(t, w, s)
       \/ Outputs(t) \/ Handled(t) \/ Finishes(t) \/ TellsEnd(t)
       \/ \E w \in Connections : AsksCancel(w, t)
  \/ \E s \in Sessions :
       \/ \E w \in Connections : Ends(s, w)
       \/ Ended(s) \/ Opens(s)

Spec == Init /\ [][Next]_vars

-----------------------------------------------------------------------------
(* Properties *)

\* The tasks that ended last, of those of w and s since the session was opened.
Latest(w, s) ==
  LET mine == ended[w][s] IN
  {mine[i] : i \in {j \in DOMAIN mine : j + MaxFinished > Len(mine)}}

\* A connection lists every running task it watches and, of those that have ended, the
\* latest, however the session is closed and opened meanwhile; and once a session was closed
\* on it, nothing of before.
RunsAreListed ==
  /\ \A t \in Tasks : status[t] = "running" => t \in runs[owner[t].by]
  /\ \A w \in Connections, s \in Sessions :
       /\ Latest(w, s) \subseteq runs[w]
       /\ closedBy[s] = w => \A t \in runs[w] :
            owner[t].of = s => status[t] = "running" \/ t \in Latest(w, s)

\* The client is told the end of a task once, and nothing of it afterwards.
EndsAreLast == \A t \in Tasks : told[t] # "more"

SubagentsAreKnown == RunsAreListed /\ EndsAreLast
=============================================================================
