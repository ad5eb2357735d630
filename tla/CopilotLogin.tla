---------------------------- MODULE CopilotLogin ----------------------------
(***************************************************************************)
(* The sign-in of bub-github-copilot (auth.py): a login asks GitHub        *)
(* (external) for a device code, polls until its user has granted or       *)
(* denied it, fetches the profile and saves the token.  Turns, in other    *)
(* processes, resolve the token they give to copilot from what is stored,  *)
(* else from the environment or the gh program.  Logins come one after     *)
(* another and may be killed.                                              *)
(***************************************************************************)
EXTENDS Integers, FiniteSets

CONSTANTS
  Intervals,       \* what GitHub says of the interval; 0 when it says nothing
  DefaultInterval, \* 5
  SlowDown,        \* 5
  Lifetimes,       \* of a device code
  MaxLogins, MaxTime

CopilotLoginConstants ==
  /\ Intervals \subseteq Int /\ Lifetimes \subseteq Nat
  /\ {DefaultInterval, SlowDown, MaxLogins, MaxTime} \subseteq Nat \ {0}

None == 0      \* no token
Torn == -1     \* a file that does not parse
Other == -2    \* a token of the other sources

VARIABLES
  now,
  login,    \* the number of the login, which stands for its token
  step,     \* "none", "check", "post", "sleep", "profile", "save", "write", "done", "failed"
  interval, \* poll_interval
  wakes, deadline,
  grant,    \* at GitHub: "pending", "granted", "denied", "expired"
  asked,    \* the interval GitHub has asked for
  answered, \* when it last answered, or -1
  gap,      \* between that answer and the request under way
  file,     \* the token in github_copilot_auth.json
  stored,   \* the token of the last login that was done, while none after it was killed writing
  others,   \* whether the environment, hosts.yml or the gh program has a token
  used      \* what the last turn resolved: [token, stored], that and what was stored

vars == <<now, login, step, interval, wakes, deadline, grant, asked, answered, gap, file,
          stored, others, used>>
polling == <<interval, wakes, deadline, asked, answered, gap>>

Init ==
  /\ now = 0 /\ login = 0 /\ step = "none" /\ interval = 0 /\ wakes = 0 /\ deadline = 0
  /\ grant = "expired" /\ asked = 0 /\ answered = -1 /\ gap = 0 /\ file = None
  /\ stored = None /\ others \in BOOLEAN /\ used = [token |-> None, stored |-> None]

-----------------------------------------------------------------------------
AtLeastOne(i) == IF i < 1 THEN 1 ELSE i

\* login_github_copilot_oauth, until the first poll.
Begins(i, lifetime) ==
  /\ step \in {"none", "done", "failed"} /\ login < MaxLogins
  /\ login' = login + 1 /\ step' = "check" /\ grant' = "pending"
  /\ interval' = AtLeastOne(IF i = 0 THEN DefaultInterval ELSE i)
  /\ asked' = i /\ answered' = -1 /\ gap' = 0
  /\ deadline' = now + lifetime /\ wakes' = now
  /\ UNCHANGED <<now, file, stored, others, used>>

Fails == step' = "failed" /\ UNCHANGED <<file, stored>>

\* The loop of _poll_github_device_access_token: one more request, if there is time.
Polls ==
  /\ step = "check"
  /\ IF now < deadline THEN step' = "post" ELSE step' = "failed"
  /\ gap' = IF answered = -1 THEN gap ELSE now - answered
  /\ UNCHANGED <<now, login, interval, wakes, deadline, grant, asked, answered, file, stored,
                 others, used>>

\* mutant: the loop sleeps longer once only.
SlowedOnce(i) == i

\* poll_interval after slow_down
Slowed(i) == i + SlowDown

\* authorization_pending, slow_down, or an answer that is neither a token nor an error.
SleepsOn ==
  /\ step = "post" /\ grant = "pending" /\ step' = "sleep" /\ answered' = now
  /\ \/ UNCHANGED <<interval, asked>> /\ wakes' = now + interval
     \/ /\ interval' = Slowed(interval) /\ asked' = asked + SlowDown
        /\ wakes' = now + interval + SlowDown
  /\ UNCHANGED <<now, login, deadline, grant, gap, file, stored, others, used>>

Wakes ==
  /\ step = "sleep" /\ now >= wakes /\ step' = "check"
  /\ UNCHANGED <<now, login, polling, grant, file, stored, others, used>>

\* The token, once it is granted; expired_token, access_denied, or a request that fails.
Answered ==
  /\ step = "post"
  /\ \/ grant = "granted" /\ step' = "profile"
     \/ step' = "failed"
  /\ UNCHANGED <<now, login, polling, grant, file, stored, others, used>>

\* save_github_copilot_oauth_tokens empties the file, then writes it.
Truncates ==
  /\ step = "profile" /\ step' = "write" /\ file' = Torn
  /\ UNCHANGED <<now, login, polling, grant, stored, others, used>>
Writes ==
  /\ step = "write" /\ step' = "done" /\ file' = login /\ stored' = login
  /\ UNCHANGED <<now, login, polling, grant, others, used>>

\* The profile cannot be fetched: a token that was granted is not saved.
ProfileFails ==
  /\ step = "profile" /\ Fails
  /\ UNCHANGED <<now, login, polling, grant, others, used>>

\* The login is killed.
Killed ==
  /\ step \in {"check", "post", "sleep", "profile", "write"} /\ step' = "failed"
  /\ stored' = IF step = "write" THEN None ELSE stored
  /\ UNCHANGED <<now, login, polling, grant, file, others, used>>

-----------------------------------------------------------------------------
\* load_github_copilot_oauth_tokens: a file that does not parse is none.
Loaded == IF file = Torn THEN None ELSE file

\* load_github_token_from_env, load_github_cli_oauth_token and the gh program, in turn.
FromElsewhere == IF others THEN Other ELSE None

\* mutant: the environment goes before what is stored.
StoredLast == IF others THEN Other ELSE Loaded

\* resolve_github_copilot_token: what was stored goes first.
Resolved == IF Loaded # None THEN Loaded ELSE FromElsewhere
Resolves ==
  /\ used' = [token |-> Resolved, stored |-> IF step = "write" THEN None ELSE stored]
  /\ UNCHANGED <<now, login, step, polling, grant, file, stored, others>>

\* The user at GitHub, the time of the code, and time.
Decides ==
  /\ grant = "pending" /\ \E g \in {"granted", "denied"} : grant' = g
  /\ UNCHANGED <<now, login, step, polling, file, stored, others, used>>
Ticks ==
  /\ now < MaxTime /\ now' = now + 1
  /\ grant' = IF now' >= deadline /\ grant = "pending" THEN "expired" ELSE grant
  /\ UNCHANGED <<login, step, polling, file, stored, others, used>>

Next ==
  \/ \E i \in Intervals, lifetime \in Lifetimes : Begins(i, lifetime)
  \/ Polls \/ SleepsOn \/ Wakes \/ Answered \/ Truncates \/ Writes \/ ProfileFails \/ Killed
  \/ Resolves \/ Decides \/ Ticks

Spec == Init /\ [][Next]_vars

-----------------------------------------------------------------------------
\* GitHub is asked no sooner than it wants, however often it has asked to be asked less often,
\* and not after the code's time: _poll_github_device_access_token.
LoginIsPatient ==
  step = "post" => now >= wakes /\ (answered # -1 => gap >= asked)

\* A turn is given the token of the last login that was done, if one is kept whole, and no
\* token of a login that was denied, whose time was up or whose profile was not fetched.
TurnsUseTheLastLogin ==
  /\ used.stored # None => used.token = used.stored
  /\ used.token > 0 => used.token = used.stored
=============================================================================
