----------------------------- MODULE AcpStreams -----------------------------
(***************************************************************************)
(* What an ACP client sees of the turns of one session                     *)
(* (ACPStreamRouter, agent.py) and the terminals it lends to their bash    *)
(* calls (ACPClientToolRuntime, client_tools.py).  A turn streams text and *)
(* rounds of tool calls; the calls of a round run at a time, and their     *)
(* results come together, in the order of the calls.  session/load replays *)
(* what the tape kept.  Every step is what runs up to an answer of the     *)
(* client.                                                                 *)
(***************************************************************************)
EXTENDS Naturals, Sequences, SequencesExt

CONSTANTS
  MaxCalls,   \* tool calls altogether, numbered in the order they are made
  Commands,   \* what they run
  Rounds,     \* the rounds a model may ask for: sequences of [tool, command]
  MaxTurns,
  MaxCancels

Calls == 1 .. MaxCalls
Names == {"bash", "background", "kill", "edit", "other"}
AskedCalls == [tool : Names, command : Commands]

\* A round has a call.
StreamsConstants ==
  MaxCalls \in Nat /\ MaxCancels \in Nat /\ Rounds \subseteq Seq(AskedCalls) \ {<<>>}

VARIABLES
  turn,     \* "idle", "model", "tools", "cancelled", or "load", a session/load
  made,     \* calls so far
  call,     \* of a call: [tool, command]
  round,    \* the calls of the round that runs
  stream,   \* ACPStreamState: [pending, text], pending: [id, terminal]
  job,      \* where the handler of a call stands; "left": it ended before anyone would
            \* release its terminal
  result,   \* of a call that ended: "ok" or "failed"
  terminal, \* client: the terminal made for a call
  file,     \* client: the edits its file holds
  copy,     \* of an edit: what it read of the file
  shown,    \* client: of a call: [status, of, terminal]
  said,     \* client: how the answer of the turn was shown
  tape,     \* the rounds the tape kept: [calls, answered]
  replayed, \* of these, those session/load has shown
  turns, cancels

text == <<file, copy>>
tools == <<job, result, terminal, text>>
vars == <<turn, made, call, round, stream, tools, shown, said, tape, replayed, turns, cancels>>

NoStream == [pending |-> <<>>, text |-> FALSE]
NotShown == [status |-> "none", of |-> 0, terminal |-> 0]

Init ==
  /\ turn = "idle" /\ made = 0 /\ round = <<>> /\ stream = NoStream
  /\ call = [c \in Calls |-> [tool |-> "other", command |-> "none"]]
  /\ job = [c \in Calls |-> "none"] /\ result = [c \in Calls |-> "none"]
  /\ terminal = [c \in Calls |-> "none"] /\ shown = [c \in Calls |-> NotShown]
  /\ file = {} /\ copy = [c \in Calls |-> Calls]
  /\ said = {} /\ tape = <<>> /\ replayed = 0 /\ turns = 0 /\ cancels = 0

-----------------------------------------------------------------------------
(* ACPStreamRouter *)

\* mutant: the calls of an earlier round stay.
ToolsAdded(calls) == stream.pending \o [i \in DOMAIN calls |-> [id |-> calls[i], terminal |-> 0]]

\* _send_tool_calls: the calls that wait for their results.
PendingTools(calls) == [i \in DOMAIN calls |-> [id |-> calls[i], terminal |-> 0]]

SendToolCalls(calls) ==
  /\ stream' = [stream EXCEPT !.pending = PendingTools(calls)]
  /\ shown' = [c \in Calls |->
                 IF \E i \in DOMAIN calls : calls[i] = c
                 THEN [shown[c] EXCEPT !.status = "in_progress"] ELSE shown[c]]

\* _send_tool_results: the result of the call at the same place, or of a call of its own.
SendToolResults(calls) ==
  LET place(c) == CHOOSE i \in DOMAIN stream.pending : stream.pending[i].id = c
      told == {i \in DOMAIN stream.pending : i <= Len(calls)}
  IN /\ shown' = [c \in Calls |->
          IF \E i \in told : stream.pending[i].id = c
          THEN [shown[c] EXCEPT !.status = result[calls[place(c)]], !.of = calls[place(c)]]
          ELSE shown[c]]
     /\ stream' = [stream EXCEPT !.pending = <<>>]

IsBash(c) == call[c].tool \in {"bash", "background"}

\* mutant: a terminal goes to the first bash call.
FirstOf(free, c) == Min(free)

\* The call a terminal is shown with: the first of its command, or else the first.
OwnerOf(free, c) ==
  LET same == {i \in free : call[stream.pending[i].id].command = call[c].command}
  IN Min(IF same = {} THEN free ELSE same)

\* attach_terminal, of the terminal of call c: the places of bash calls without one.
AttachTerminal(c) ==
  LET free == {i \in DOMAIN stream.pending :
                 IsBash(stream.pending[i].id) /\ stream.pending[i].terminal = 0}
      owner == OwnerOf(free, c)
  IN IF free = {} THEN UNCHANGED <<stream, shown>>
     ELSE /\ stream' = [stream EXCEPT !.pending[owner].terminal = c]
          /\ shown' = [shown EXCEPT ![stream.pending[owner].id].terminal = c]

-----------------------------------------------------------------------------
(* A turn *)

\* _run_prompt and wrap_stream: a turn begins with a state of its own.
Starts ==
  /\ turn = "idle" /\ turns < MaxTurns /\ turns' = turns + 1
  /\ turn' = "model" /\ said' = {} /\ stream' = NoStream
  /\ UNCHANGED <<made, call, round, tools, shown, tape, replayed, cancels>>

\* publish_event, of text.
StreamsText ==
  /\ turn = "model"
  /\ stream' = [stream EXCEPT !.text = TRUE] /\ said' = said \cup {"streamed"}
  /\ UNCHANGED <<turn, made, call, round, tools, shown, tape, replayed, turns, cancels>>

\* A round of tool calls: publish_event tells the client before they run.
CallsTools(asked) ==
  LET calls == [i \in DOMAIN asked |-> made + i] IN
  /\ turn = "model" /\ made + Len(asked) <= MaxCalls
  /\ made' = made + Len(asked) /\ round' = calls
  /\ call' = [c \in Calls |-> IF c \in made + 1 .. made' THEN asked[c - made] ELSE call[c]]
  /\ job' = [c \in Calls |-> IF c \in made + 1 .. made' THEN "begin" ELSE job[c]]
  /\ SendToolCalls(calls)
  /\ tape' = Append(tape, [calls |-> calls, answered |-> FALSE])
  /\ turn' = "tools"
  /\ UNCHANGED <<result, terminal, text, said, replayed, turns, cancels>>

Ended(c) == job[c] \in {"over", "left"}
AllEnded == \A i \in DOMAIN round : Ended(round[i])

\* publish_event, of the results of a round.
ToolResults ==
  /\ turn = "tools" /\ AllEnded
  /\ SendToolResults(round)
  /\ tape' = [tape EXCEPT ![Len(tape)].answered = TRUE]
  /\ turn' = "model" /\ round' = <<>>
  /\ UNCHANGED <<made, call, tools, said, replayed, turns, cancels>>

\* mutant: an answer is sent whole, streamed or not.
ShowsWholeAlways == TRUE

\* _run_prompt: the answer is sent whole unless text was streamed.
ShowsWhole == ~stream.text

\* The turn has its answer.
Finishes ==
  /\ turn = "model" /\ turn' = "idle"
  /\ said' = IF ShowsWhole THEN said \cup {"whole"} ELSE said
  /\ stream' = NoStream
  /\ UNCHANGED <<made, call, round, tools, shown, tape, replayed, turns, cancels>>

\* A cancelled turn ends when the calls of its round have.
Dies ==
  /\ turn = "cancelled" /\ AllEnded
  /\ turn' = "idle" /\ round' = <<>> /\ stream' = NoStream
  /\ UNCHANGED <<made, call, tools, shown, said, tape, replayed, turns, cancels>>

-----------------------------------------------------------------------------
(* bash, bash.kill and the others *)

Runs(c) == turn \in {"tools", "cancelled"} /\ \E i \in DOMAIN round : round[i] = c

Goes(c, where) == job' = [job EXCEPT ![c] = where] /\ UNCHANGED result
Ends(c, how) == job' = [job EXCEPT ![c] = "over"] /\ result' = [result EXCEPT ![c] = how]
Terminal(c, state) == terminal' = [terminal EXCEPT ![c] = state]
OfTools == UNCHANGED <<turn, made, call, round, said, tape, replayed, turns, cancels>>

\* read_file, read_image, write_file of another file, bash_output, ask_user: one request, if
\* that, which may be refused.
Asks(c) ==
  /\ Runs(c) /\ job[c] = "begin" /\ call[c].tool = "other"
  /\ \E how \in {"ok", "failed"} : Ends(c, how)
  /\ UNCHANGED <<terminal, text, stream, shown>> /\ OfTools

\* mutant: what comes before the edit is left out.
EditedOnly(c) == {c}

\* The file as edit_file writes it: what it read, edited.
Edited(c) == copy[c] \cup {c}

\* edit_file: read_file answers, and the text to replace is there or not.
EditReads(c) ==
  /\ Runs(c) /\ job[c] = "begin" /\ call[c].tool = "edit"
  /\ \/ Ends(c, "failed") /\ UNCHANGED copy
     \/ Goes(c, "write") /\ copy' = [copy EXCEPT ![c] = file]
  /\ UNCHANGED <<terminal, file, stream, shown>> /\ OfTools

\* edit_file: write_file answers.
EditWrites(c) ==
  /\ Runs(c) /\ job[c] = "write"
  /\ \/ Ends(c, "failed") /\ UNCHANGED file
     \/ Ends(c, "ok") /\ file' = Edited(c)
  /\ UNCHANGED <<terminal, copy, stream, shown>> /\ OfTools

\* bash: create_terminal is asked for.
Begins(c) ==
  /\ Runs(c) /\ job[c] = "begin" /\ IsBash(c) /\ Goes(c, "create")
  /\ UNCHANGED <<terminal, text, stream, shown>> /\ OfTools

\* create_terminal answers; the observer is called.
Created(c) ==
  /\ Runs(c) /\ job[c] = "create"
  /\ \/ Ends(c, "failed") /\ UNCHANGED <<terminal, text, stream, shown>>
     \/ Goes(c, "attach") /\ Terminal(c, "running") /\ AttachTerminal(c)
  /\ UNCHANGED text /\ OfTools

\* The observer's update has been sent, or could not be.
Attached(c) ==
  /\ Runs(c) /\ job[c] = "attach"
  /\ \/ job' = [job EXCEPT ![c] = "left"] /\ result' = [result EXCEPT ![c] = "failed"]
     \/ call[c].tool = "background" /\ Ends(c, "ok")
     \/ call[c].tool = "bash" /\ Goes(c, "wait")
  /\ UNCHANGED <<terminal, text, stream, shown>> /\ OfTools

\* wait_for_terminal_exit: it exits, fails, or takes too long and is killed.
Waits(c) ==
  /\ Runs(c) /\ job[c] = "wait"
  /\ \/ Goes(c, "output") /\ Terminal(c, "exited")
     \/ Goes(c, "release") /\ UNCHANGED terminal
     \/ Goes(c, "kill") /\ UNCHANGED terminal
  /\ UNCHANGED <<text, stream, shown>> /\ OfTools

\* kill_terminal and terminal_output answer, or fail.
Answers(c) ==
  /\ Runs(c) /\ job[c] \in {"kill", "output"} /\ IsBash(c)
  /\ Goes(c, "release")
  /\ \/ UNCHANGED terminal
     \/ job[c] = "kill" /\ Terminal(c, "exited")
  /\ UNCHANGED <<text, stream, shown>> /\ OfTools

\* release_terminal, in a finally.
Releases(c) ==
  /\ Runs(c) /\ job[c] = "release" /\ IsBash(c)
  /\ \E how \in {"ok", "failed"} : Ends(c, how)
  /\ Terminal(c, "released")
  /\ UNCHANGED <<text, stream, shown>> /\ OfTools

\* kill_bash, of a terminal in the background: kill_terminal; then the output; then, in a
\* finally, release_terminal.  A kill_terminal that fails, or is cancelled, may have been done.
KillsBash(c, d) ==
  /\ Runs(c) /\ call[c].tool = "kill" /\ job[c] = "begin"
  /\ call[d].tool = "background" /\ result[d] = "ok"
  /\ \/ Ends(c, "failed") /\ Terminal(d, "exited")
     \/ /\ terminal[d] # "released" /\ Terminal(d, "released")
        /\ \E how \in {"ok", "failed"} : Ends(c, how)
  /\ UNCHANGED <<text, stream, shown>> /\ OfTools

KillsNothing(c) ==
  /\ Runs(c) /\ call[c].tool = "kill" /\ job[c] = "begin" /\ Ends(c, "failed")
  /\ UNCHANGED <<terminal, text, stream, shown>> /\ OfTools

-----------------------------------------------------------------------------
\* mutant: who waits for a terminal when the turn is cancelled leaves it.
AfterCancelLeft(where) == CASE where \in {"create", "attach"} -> "left"
                            [] where \in {"kill", "output"} -> "release"
                            [] OTHER -> IF where = "left" THEN "left" ELSE "over"

\* Where a CancelledError takes a handler.  A release that was asked for is done.
AfterCancel(where) == CASE where \in {"create", "attach"} -> "left"
                        [] where = "wait" -> "kill"
                        [] where \in {"kill", "output"} -> "release"
                        [] OTHER -> IF where = "left" THEN "left" ELSE "over"

\* session/cancel, close or shutdown cancel the turn, and again.  A terminal that was asked
\* for may have been made, and a file written.
Cancels ==
  /\ turn \in {"model", "tools", "cancelled"} /\ cancels < MaxCancels
  /\ cancels' = cancels + 1 /\ turn' = "cancelled"
  /\ job' = [c \in Calls |-> IF job[c] = "none" THEN "none" ELSE AfterCancel(job[c])]
  /\ \E asked \in SUBSET {c \in Calls : job[c] = "create"} :
       terminal' = [c \in Calls |->
         CASE c \in asked -> "running" [] job[c] = "release" -> "released" [] OTHER -> terminal[c]]
  /\ UNCHANGED copy
  /\ file' \in {file} \cup {Edited(c) : c \in {d \in Calls : job[d] = "write"}}
  /\ result' = [c \in Calls |->
       IF job'[c] \in {"over", "left"} /\ result[c] = "none" THEN "failed" ELSE result[c]]
  /\ UNCHANGED <<made, call, round, stream, shown, said, tape, replayed, turns>>

-----------------------------------------------------------------------------
(* session/load: _attach_session_history *)

\* It waits for the turn; the client has shown nothing yet.
Loads ==
  /\ turn = "idle" /\ tape # <<>>
  /\ turn' = "load" /\ replayed' = 0 /\ stream' = NoStream
  /\ shown' = [c \in Calls |-> NotShown]
  /\ UNCHANGED <<made, call, round, tools, said, tape, turns, cancels>>

\* The next entries of the tape: the calls of a round and their results, if they came.
Replays ==
  /\ turn = "load" /\ replayed < Len(tape)
  /\ LET entry == tape[replayed + 1] IN
     \/ /\ round = <<>> /\ SendToolCalls(entry.calls)
        /\ IF entry.answered THEN round' = entry.calls /\ UNCHANGED replayed
           ELSE replayed' = replayed + 1 /\ UNCHANGED round
     \/ /\ round # <<>> /\ SendToolResults(entry.calls)
        /\ round' = <<>> /\ replayed' = replayed + 1
  /\ UNCHANGED <<turn, made, call, tools, said, tape, turns, cancels>>

Loaded ==
  /\ turn = "load" /\ replayed = Len(tape)
  /\ turn' = "idle" /\ stream' = NoStream
  /\ UNCHANGED <<made, call, round, tools, shown, said, tape, replayed, turns, cancels>>

TurnSteps ==
  \/ Starts \/ StreamsText \/ ToolResults \/ Finishes \/ Dies \/ Cancels
  \/ Loads \/ Replays \/ Loaded
  \/ \E asked \in Rounds : CallsTools(asked)

Handlers ==
  \E c \in Calls :
    \/ Asks(c) \/ EditReads(c) \/ EditWrites(c) \/ Begins(c) \/ Created(c)
       \/ Attached(c) \/ Waits(c) \/ Answers(c) \/ Releases(c)
    \/ KillsNothing(c)
    \/ \E d \in Calls : KillsBash(c, d)

Next == TurnSteps \/ Handlers
Spec == Init /\ [][Next]_vars

-----------------------------------------------------------------------------
(* Properties *)

\* The client is told the result of a call as the result of that call, in the turn and when
\* the session is loaded again: _send_tool_results goes by places.
ResultsReachTheirCalls ==
  \A c \in Calls : shown[c].of # 0 => shown[c].of = c /\ shown[c].status = result[c]

\* A terminal is shown with one call, which runs its command: attach_terminal.
TerminalsAreShown ==
  \A c, d \in Calls :
    shown[c].terminal # 0 =>
      /\ call[c].command = call[shown[c].terminal].command
      /\ shown[d].terminal = shown[c].terminal => c = d

\* An answer is shown once, as it was streamed or whole; and a turn that has ended with it
\* leaves no call that seems to run.
AnswersAreShownOnce ==
  /\ \A how, other \in said : how = other
  /\ turn = "idle" /\ cancels = 0 => \A c \in Calls : shown[c].status # "in_progress"

StreamsAreTrue == ResultsReachTheirCalls /\ TerminalsAreShown /\ AnswersAreShownOnce

\* bash leaves no terminal of its own behind, whether its command ends, fails, takes too long
\* or is cancelled, and cancelled again; but the call that is cancelled, or whose update fails,
\* before the wait does.
TerminalsAreReleased ==
  \A c \in Calls :
    job[c] = "over" /\ call[c].tool = "bash" => terminal[c] \in {"none", "released"}

\* An edit is lost only to one that overlapped it: neither had read what the other wrote.
EditsAreKept ==
  \A d \in Calls :
    call[d].tool = "edit" /\ result[d] = "ok" =>
      d \in file \/ \E c \in Calls \ {d} :
                      job[c] = "over" /\ d \notin copy[c] /\ c \notin copy[d]

ClientToolsAreSound == TerminalsAreReleased /\ EditsAreKept
=============================================================================
