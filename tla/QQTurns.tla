------------------------------ MODULE QQTurns ------------------------------
(***************************************************************************)
(* What a turn of the model may do in a QQ chat: the hooks of plugin.py    *)
(* around Bub's model and tool calls, the guard that decides on every tool *)
(* call (guard.py, workspace.py), and the rate limit (security.py).        *)
(*                                                                         *)
(* Bub merges the messages that wait in a session into one turn and keeps  *)
(* only the last one's metadata; turns of several sessions interleave, and *)
(* who is an admin changes under them.                                     *)
(***************************************************************************)
EXTENDS BoundedDict

CONSTANTS
  Groups, Privates,  \* sessions
  People,            \* sender ids
  Unknown,           \* UNKNOWN_SENDER: a line that names nobody
  Turns,
  Resources,         \* classes of tools that are called
  Configs,           \* QQConfig: [access, policy, shell, mode]
  MaxCalls, Window, MaxKeys,
  MaxWaiting, MaxTime

\* The limiter and its dicts refuse sizes below 1.
QQTurnsConstants == {MaxCalls, Window, MaxKeys} \subseteq Nat \ {0}

VARIABLES
  now, config,
  admins,    \* admin_entries: <<session, person>>
  waiting,   \* of a session: who sent the messages that wait for a turn
  turn,      \* of a turn: session, kind, senders, where it stands, the tool it calls
  verdict,   \* _RATE_VERDICT_KEY
  calls,     \* SlidingWindowRateLimiter._calls
  notified,  \* _rate_notified
  passed,    \* history: when turns of a key were let through
  noticed,   \* history: when a key was told
  forgotten  \* history: keys that a bounded dict has dropped

limits  == <<verdict, calls, notified, passed, noticed, forgotten>>
context == <<now, config, admins, waiting>>
vars    == <<context, turn, limits>>

Sessions == Groups \cup Privates
RateKeys == Sessions \X (People \cup {Unknown})

NoTurn == [session |-> "none", kind |-> "none", senders |-> <<>>, at |-> "idle", tool |-> "none"]

Init ==
  /\ now = 0 /\ config \in Configs
  /\ admins = {}
  /\ waiting = [s \in Sessions |-> <<>>]
  /\ turn = [t \in Turns |-> NoTurn] /\ verdict = [t \in Turns |-> "none"]
  /\ calls = EmptyDict /\ notified = EmptyDict
  /\ passed = [k \in RateKeys |-> <<>>] /\ noticed = [k \in RateKeys |-> <<>>] /\ forgotten = {}

Ticks == now < MaxTime /\ now' = now + 1 /\ UNCHANGED <<config, admins, waiting, turn, limits>>

\* ,qq.claim and ,qq.admins remove.
AdminsChange(a) ==
  /\ admins' = IF a \in admins THEN admins \ {a} ELSE admins \cup {a}
  /\ UNCHANGED <<now, config, waiting, turn, limits>>

-----------------------------------------------------------------------------
(* Turns *)

Arrives(s, p) ==
  /\ Len(waiting[s]) < MaxWaiting /\ (s \in Privates => p # Unknown)
  /\ waiting' = [waiting EXCEPT ![s] = Append(@, p)]
  /\ UNCHANGED <<now, config, admins, turn, limits>>

Begins(t, s, kind, senders) ==
  /\ turn[t] = NoTurn
  /\ turn' = [turn EXCEPT ![t] = [session |-> s, kind |-> kind, senders |-> senders,
                                  at |-> IF kind = "command" THEN "tools" ELSE "llm",
                                  tool |-> "none"]]
  /\ UNCHANGED <<now, config, admins, limits>>

\* Bub's turn of all that waits in a session; of one comma command; or of its own,
\* a scheduled job's say, which carries no QQ metadata.
StartsBatch(t, s) ==
  /\ waiting[s] # <<>> /\ waiting' = [waiting EXCEPT ![s] = <<>>]
  /\ Begins(t, s, "batch", waiting[s])
StartsCommand(t, s, p) == Begins(t, s, "command", <<p>>) /\ UNCHANGED waiting
StartsInside(t, s) == Begins(t, s, "inside", <<>>) /\ UNCHANGED waiting

Last(t) == turn[t].senders[Len(turn[t].senders)]
Over == [NoTurn EXCEPT !.at = "over"]
Ends(t) == turn' = [turn EXCEPT ![t] = Over]

-----------------------------------------------------------------------------
(* before_llm_call *)

\* SlidingWindowRateLimiter.allow: a deque begins at n once what is too old has left its front.
Old(at) == now - at >= Window
Recent(times, n) ==
  (\A i \in 1 .. n - 1 : Old(times[i])) /\ (n <= Len(times) => ~Old(times[n]))

\* mutant: one turn too many.
UnderTheLimitLate(window) == Len(window) <= MaxCalls

UnderTheLimit(window) == Len(window) < MaxCalls

Allow(t, k) ==
  LET times == Get(calls, k, <<>>) IN
  \E n \in 1 .. Len(times) + 1 :
    LET window == SubSeq(times, n, Len(times))
        ok == UnderTheLimit(window) IN
    /\ Recent(times, n)
    /\ calls' = Put(calls, k, IF ok THEN Append(window, now) ELSE window, MaxKeys)
    /\ verdict' = [verdict EXCEPT ![t] = IF ok THEN "yes" ELSE "no"]
    /\ passed' = IF ok THEN [passed EXCEPT ![k] = Append(@, now)] ELSE passed

\* _notify_rate_limited: in tool mode a sender is told, once per window.
Notify(t, k) ==
  IF config.mode = "tool" /\ (Has(notified, k) => now - notified.value[k] >= Window)
  THEN /\ notified' = Put(notified, k, now, MaxKeys)
       /\ noticed' = [noticed EXCEPT ![k] = Append(@, now)]
       /\ forgotten' = forgotten \cup Evicted(calls, k, MaxKeys) \cup Evicted(notified, k, MaxKeys)
       /\ turn' = [turn EXCEPT ![t].at = "notice"]
  ELSE /\ Ends(t) /\ UNCHANGED <<notified, noticed>>
       /\ forgotten' = forgotten \cup Evicted(calls, k, MaxKeys)

\* A turn without QQ state, and one that has been let through, go on to the model.
CallsModel(t) ==
  /\ turn[t].at = "llm"
  /\ turn[t].kind = "inside" \/ verdict[t] = "yes"
  /\ turn' = [turn EXCEPT ![t].at = "tools"]
  /\ UNCHANGED <<context, limits>>

\* The first model call of a turn asks the limiter.
AsksLimiter(t) ==
  LET k == <<turn[t].session, Last(t)>> IN
  /\ turn[t].at = "llm" /\ turn[t].kind = "batch" /\ verdict[t] = "none"
  /\ Allow(t, k)
  /\ IF verdict'[t] = "yes"
     THEN /\ turn' = [turn EXCEPT ![t].at = "tools"] /\ UNCHANGED <<notified, noticed>>
          /\ forgotten' = forgotten \cup Evicted(calls, k, MaxKeys)
     ELSE Notify(t, k)
  /\ UNCHANGED context

\* send_notice returns or raises.
NoticeEnds(t) == turn[t].at = "notice" /\ Ends(t) /\ UNCHANGED <<context, limits>>

-----------------------------------------------------------------------------
(* before_tool_call *)

\* mutant: the turn is its last sender's.
LastSender(t) == {Last(t)}

\* Requester.from_state: the sender and, by load_state's batch_senders, the co-senders.
Senders(t) == {turn[t].senders[i] : i \in 1 .. Len(turn[t].senders)}

\* is_admin: of a turn that names its senders, every one of them.
IsAdmin(t) ==
  /\ turn[t].kind # "inside"
  /\ \A p \in Senders(t) : <<turn[t].session, p>> \in admins

\* classify: the resource of a tool, "subagent" being of those that are "admin_only".
NeedsAdmin == {"shell", "shell_session", "fs_write", "subagent", "admin_only", "unknown"}

\* Where a call's path leads (_resolve_from): to no path, into the workspace, out of it, or
\* to a file that is protected, or not to be sent (tool_protected_reason).
Paths == {"none", "inside", "outside", "protected"}
HasPath == {"reply", "fs_read", "fs_write"}

\* evaluate
Refused(t, r, path) ==
  \/ path = "protected"
  \/ /\ r # "reply"
     /\ \/ turn[t].session \in Privates /\ config.access = "admin_users" /\ ~IsAdmin(t)
        \/ config.policy = "locked"
        \/ r = "code"
        \/ r \in NeedsAdmin /\ ~IsAdmin(t)
        \/ r = "shell" /\ config.shell = "deny"
        \/ r \in {"fs_read", "fs_write"} /\ path = "outside"
        \/ r = "subagent" /\ config.policy = "restricted"

\* A call is refused, by a guard that raises too; it waits for an approval, of which its
\* caller is told at once; or it runs, a fetch by the plugin itself.
CallsTool(t, r, path) ==
  /\ turn[t].at = "tools" /\ (r \notin HasPath => path = "none")
  /\ turn' = [turn EXCEPT ![t] =
       [@ EXCEPT !.tool = IF Refused(t, r, path) THEN "none" ELSE r,
                 !.at = IF Refused(t, r, path) THEN "denied"
                        ELSE IF r = "shell" THEN "approval" ELSE "runs"]]
  /\ UNCHANGED <<context, limits>>

\* The tool's answer goes to the model's next call; a command has had its answer.
Answers(t) ==
  /\ turn[t].at \in {"denied", "approval", "runs"}
  /\ IF turn[t].kind = "command" THEN Ends(t)
     ELSE turn' = [turn EXCEPT ![t].tool = "none", ![t].at = "llm"]
  /\ UNCHANGED <<context, limits>>

\* after_llm_call: a model that calls no tool ends its turn.
Finishes(t) == turn[t].at = "tools" /\ Ends(t) /\ UNCHANGED <<context, limits>>

Next ==
  \/ Ticks
  \/ \E a \in Sessions \X People : AdminsChange(a)
  \/ \E s \in Sessions, p \in People \cup {Unknown} : Arrives(s, p)
  \/ \E t \in Turns :
       \/ \E s \in Sessions :
            \/ StartsBatch(t, s) \/ StartsInside(t, s)
            \/ \E p \in People : StartsCommand(t, s, p)
       \/ CallsModel(t) \/ AsksLimiter(t) \/ NoticeEnds(t) \/ Answers(t) \/ Finishes(t)
       \/ \E r \in Resources, path \in Paths : CallsTool(t, r, path)

Spec == Init /\ [][Next]_vars

-----------------------------------------------------------------------------
(* Properties *)

\* Nothing that needs an admin runs, or is put before the admins, for a turn in which
\* anybody who is no admin has a word, be it merged with an admin's message or nobody's:
\* _batch_senders, is_admin, _unattributed_qq_state.
StrangersRunNothing ==
  [][ \A t \in Turns :
        /\ turn'[t].at \in {"runs", "approval"} /\ turn[t].at = "tools"
        /\ turn'[t].tool \in NeedsAdmin
        => /\ turn[t].senders # <<>>
           /\ \A i \in 1 .. Len(turn[t].senders) :
                <<turn[t].session, turn[t].senders[i]>> \in admins ]_vars

Crowded(times, n) ==
  \E i \in 1 .. Len(times) : i + n \in 1 .. Len(times) /\ times[i + n] - times[i] < Window

\* No more turns of a sender get through in a window than the limit, and nobody is told of
\* it twice in a window, as long as the dicts have not dropped him: allow,
\* _notify_rate_limited.
RateIsKept ==
  \A k \in RateKeys \ forgotten : ~Crowded(passed[k], MaxCalls) /\ ~Crowded(noticed[k], 1)
=============================================================================
