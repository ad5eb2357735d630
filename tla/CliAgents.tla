----------------------------- MODULE CliAgents -----------------------------
(***************************************************************************)
(* Turns whose model is a coding agent with its own program: codex, kimi,  *)
(* cursor and copilot (plugin.py and utils.py of bub-codex, bub-kimi,      *)
(* bub-cursor and bub-github-copilot).  A run lends the agent the skills   *)
(* of Bub as symbolic links in the workspace, and resumes the thread the   *)
(* agent reported when it last served the session: the first three keep    *)
(* those in a file each, copilot by the name of the session.  Turns of one *)
(* workspace overlap; Bub may die, also while it writes the file.          *)
(***************************************************************************)
EXTENDS Integers, Sequences, FiniteSets

CONSTANTS
  Runs,     \* numbers, in the order in which the turns begin; a run names its new thread
  Sessions,
  Skills,   \* the skills packaged with Bub
  MaxCrashes

CliAgentsConstants == Runs \subseteq Nat \ {0}

Clis == {"codex", "kimi", "cursor", "copilot"}
Files == Clis \ {"copilot"}

VARIABLES
  of,      \* of a run: [cli, session]
  phase,   \* of a run: "none", "run", "ended", "failed", "uncopied", "left", "lost"
  resumed, \* of a run: the thread it resumes, or 0
  links,   \* of a skill: NoLink, Users, Dangling, or the run that made the link
  mine,    \* of a run: the links it is to remove
  threads, \* of an agent and a session: what is in the file, or 0
  torn,    \* the files that do not parse
  ends,    \* what was saved, in order: [of, thread]
  crashes

vars == <<of, phase, resumed, links, mine, threads, torn, ends, crashes>>

NoLink == 0
Users == -1
Dangling == -2
Nowhere == [cli |-> "none", session |-> "none"]

Init ==
  /\ of = [r \in Runs |-> Nowhere] /\ phase = [r \in Runs |-> "none"]
  /\ resumed = [r \in Runs |-> 0] /\ mine = [r \in Runs |-> {}]
  /\ links \in [Skills -> {NoLink, Users, Dangling}]
  /\ threads = [c \in Clis |-> [s \in Sessions |-> 0]]
  /\ torn = {} /\ ends = <<>> /\ crashes = 0

-----------------------------------------------------------------------------
\* _load_thread_id.  A file that does not parse fails codex and kimi; to cursor it is empty.
LoadFails(c) == c \in torn \ {"cursor"}
Loaded(c, s) == IF c \in torn THEN 0 ELSE threads[c][s]

\* resume_session of copilot, else create_session: any failure to resume makes it anew.
Resumable(s) == {0, threads["copilot"][s]}

\* mutant: the file is written without what it held.
SavesOnly(c, s, t) == [threads EXCEPT ![c] = [x \in Sessions |-> IF x = s THEN t ELSE 0]]

\* _save_thread_id; create_session, for copilot.
Saves(c, s, t) == [threads EXCEPT ![c][s] = t]

\* mutant: a skill that is there is collected all the same.
CollectsAll(made) == {k \in Skills : links[k] # Dangling}

\* _copy_bub_skills: the links that were made.
Collected(made) == made

\* A link that points nowhere does not exist and cannot be made: what was made before stays.
Copies(r, made) ==
  /\ \A k \in made : links[k] = NoLink
  /\ links' = [k \in Skills |-> IF k \in made THEN r ELSE links[k]]
  /\ IF \E k \in Skills : links[k] = Dangling
     THEN phase' = [phase EXCEPT ![r] = "uncopied"] /\ mine' = mine
     ELSE /\ \A k \in Skills : links[k] = NoLink => k \in made
          /\ phase' = [phase EXCEPT ![r] = "run"]
          /\ mine' = [mine EXCEPT ![r] = Collected(made)]

Turn(r, c, s) ==
  /\ phase[r] = "none" /\ \A q \in Runs : q < r => phase[q] # "none"
  /\ of' = [of EXCEPT ![r] = [cli |-> c, session |-> s]]
  /\ UNCHANGED <<torn, ends, crashes>>
Refused(r) ==
  phase' = [phase EXCEPT ![r] = "failed"] /\ UNCHANGED <<resumed, links, mine, threads>>

\* run_model of codex and of kimi, until the agent runs.
Begins(r, c, s) ==
  /\ ~LoadFails(c) /\ resumed' = [resumed EXCEPT ![r] = Loaded(c, s)]
  /\ \E made \in SUBSET Skills : Copies(r, made)
  /\ UNCHANGED threads
StartsCodex(r, s) ==
  Turn(r, "codex", s) /\ (Begins(r, "codex", s) \/ (LoadFails("codex") /\ Refused(r)))
StartsKimi(r, s) ==
  Turn(r, "kimi", s) /\ (Begins(r, "kimi", s) \/ (LoadFails("kimi") /\ Refused(r)))

\* run_model of cursor: its program may not be signed in.
StartsCursor(r, s) == Turn(r, "cursor", s) /\ (Begins(r, "cursor", s) \/ Refused(r))

\* _run_with_copilot_sdk, if there is a token: the skills come first, then the session.
StartsCopilot(r, s) ==
  /\ Turn(r, "copilot", s)
  /\ \/ Refused(r)
     \/ /\ \E made \in SUBSET Skills : Copies(r, made)
        /\ \E t \in Resumable(s) :
             /\ resumed' = [resumed EXCEPT ![r] = t]
             /\ threads' = IF t = 0 /\ phase'[r] = "run" THEN Saves("copilot", s, r)
                           ELSE threads

\* with_bub_skills, at its end: a link that is gone already is no error.
Unlinks(r) == links' = [k \in Skills |-> IF k \in mine[r] THEN NoLink ELSE links[k]]

\* The process is over and reported thread t, or 0: the one resumed or a new one.
ReportedThreads(r) == {0, r, resumed[r]}
Over(r, c) ==
  /\ phase[r] = "run" /\ of[r].cli = c /\ Unlinks(r)
  /\ UNCHANGED <<of, resumed, mine, torn, crashes>>
Answers(r, t) ==
  LET c == of[r].cli IN
  /\ phase' = [phase EXCEPT ![r] = IF t # 0 /\ c \in torn THEN "failed" ELSE "ended"]
  /\ IF t # 0 /\ c \notin torn
     THEN /\ threads' = Saves(c, of[r].session, t)
          /\ ends' = Append(ends, [of |-> of[r], thread |-> t])
     ELSE UNCHANGED <<threads, ends>>

\* Codex and kimi report it on stderr, however they end; cursor in an answer that parses, after
\* it has succeeded; and copilot keeps it itself.
EndsCodex(r) == Over(r, "codex") /\ \E t \in ReportedThreads(r) : Answers(r, t)
EndsKimi(r) == Over(r, "kimi") /\ \E t \in ReportedThreads(r) : Answers(r, t)
EndsCursor(r) == Over(r, "cursor") /\ \E t \in ReportedThreads(r) : Answers(r, t)
EndsCopilot(r) == Over(r, "copilot") /\ Answers(r, 0)

\* cursor's time is up, and its process is killed.
TimesOut(r) ==
  /\ Over(r, "cursor") /\ phase' = [phase EXCEPT ![r] = "left"] /\ UNCHANGED <<threads, ends>>

\* The turn is cancelled: the process of a program goes on.
Cancelled(r) ==
  /\ \E c \in Clis : Over(r, c)
  /\ phase' = [phase EXCEPT ![r] = "left"] /\ UNCHANGED <<threads, ends>>

\* Bub dies, perhaps while a run saves its thread: the file was truncated when it was opened.
Crash ==
  /\ crashes < MaxCrashes /\ crashes' = crashes + 1
  /\ LET running == {r \in Runs : phase[r] = "run"} IN
     /\ running # {}
     /\ phase' = [r \in Runs |-> IF r \in running THEN "lost" ELSE phase[r]]
     /\ \/ UNCHANGED torn
        \/ \E r \in running : of[r].cli \in Files /\ torn' = torn \cup {of[r].cli}
  /\ UNCHANGED <<of, resumed, links, mine, threads, ends>>

Starts(r, s) ==
  StartsCodex(r, s) \/ StartsKimi(r, s) \/ StartsCursor(r, s) \/ StartsCopilot(r, s)
Ends(r) ==
  \/ EndsCodex(r) \/ EndsKimi(r) \/ EndsCursor(r) \/ EndsCopilot(r)
  \/ TimesOut(r) \/ Cancelled(r)

Next ==
  \/ \E r \in Runs :
       \/ \E s \in Sessions : Starts(r, s)
       \/ Ends(r)
  \/ Crash

Spec == Init /\ [][Next]_vars

-----------------------------------------------------------------------------
\* A run resumes a thread of its own agent and session: the one its agent last reported there,
\* whatever other sessions saved meanwhile.
ThreadsAreKept ==
  /\ \A r \in Runs : resumed[r] # 0 => of[resumed[r]] = of[r]
  /\ \A c \in Files \ torn, s \in Sessions :
       LET saved == {i \in DOMAIN ends : ends[i].of = [cli |-> c, session |-> s]} IN
       IF saved = {} THEN threads[c][s] = 0
       ELSE \E i \in saved : ends[i].thread = threads[c][s] /\ \A j \in saved : j <= i

\* The skills a run has linked are there while it runs, no run removes the user's own, and the
\* links of a run that is over are gone, unless Bub died or the links could not all be made.
SkillsAreLent ==
  /\ \A r \in Runs, k \in Skills : phase[r] = "run" /\ k \in mine[r] => links[k] = r
  /\ \A k \in Skills : links[k] \in Runs => phase[links[k]] \in {"run", "lost", "uncopied"}
=============================================================================
