---------------------------- MODULE WeChatChannel ----------------------------
(***************************************************************************)
(* WeChatChannel (bub-wechat, channel.py).  An image without a text is     *)
(* held for a while, for the message that says what it is about.           *)
(*                                                                         *)
(* The bot may process messages side by side: their images take time to    *)
(* load.  A message is its chat and its kind.                              *)
(***************************************************************************)
EXTENDS Naturals, Sequences, SequencesExt

CONSTANTS
  Messages,  \* numbers
  Chats

VARIABLES
  running,   \* does the bot run?
  chat, kind, at,  \* of a message: at is "due", "load", "next", then what became of it
  turn,      \* history: the messages, in the order they were processed
  held,      \* _held: the messages that wait as one
  timers,    \* the tasks that are to release what was held
  handed     \* history: what on_receive was given

vars == <<running, chat, kind, at, turn, held, timers, handed>>

Init ==
  /\ running = FALSE
  /\ chat = [m \in Messages |-> "none"] /\ kind = [m \in Messages |-> "none"]
  /\ at = [m \in Messages |-> "due"] /\ turn = <<>>
  /\ held = [c \in Chats |-> <<>>] /\ timers = {} /\ handed = <<>>

Starts == ~running /\ running' = TRUE /\ UNCHANGED <<chat, kind, at, turn, held, timers, handed>>

\* stop: what is held is dropped with its timers.
Stops ==
  /\ running /\ running' = FALSE
  /\ held' = [c \in Chats |-> <<>>]
  /\ timers' = {t \in timers : held[t[1]] # t[2]}
  /\ at' = [m \in Messages |-> IF \E c \in Chats : m \in ToSet(held[c]) THEN "dropped" ELSE at[m]]
  /\ UNCHANGED <<chat, kind, turn, handed>>

\* process_message, up to _build_message: a command loads nothing.
Receives(m) ==
  /\ running /\ at[m] = "due" /\ \A n \in Messages : n < m => at[n] # "due"
  /\ \E c \in Chats, k \in {"command", "image", "text"} :
       chat' = [chat EXCEPT ![m] = c] /\ kind' = [kind EXCEPT ![m] = k]
  /\ at' = [at EXCEPT ![m] = "load"]
  /\ UNCHANGED <<running, turn, held, timers, handed>>

\* mutant: the timer of what was held runs on.
TimersKept(c) == timers

TimersCancelled(c) == {t \in timers : ~(t[1] = c /\ t[2] = held[c])}

\* process_message: what was held goes before a command, and with any other message;
\* images alone are held (again).
Processes(m) ==
  LET c == chat[m]
      whole == IF kind[m] = "command" THEN <<m>> ELSE held[c] \o <<m>>
      now == IF kind[m] = "command" /\ held[c] # <<>> THEN <<held[c]>>
             ELSE IF kind[m] = "image" THEN <<>> ELSE <<whole>>
  IN
  /\ at[m] = "load" /\ turn' = Append(turn, m)
  /\ handed' = handed \o now
  /\ held' = [held EXCEPT ![c] = IF kind[m] = "image" THEN whole ELSE <<>>]
  /\ timers' = TimersCancelled(c) \cup IF kind[m] = "image" THEN {<<c, whole>>} ELSE {}
  /\ at' = [n \in Messages |->
       IF \E b \in ToSet(now) : n \in ToSet(b) THEN "handed"
       ELSE IF n # m THEN at[n] ELSE IF kind[m] = "image" THEN "held" ELSE "next"]
  /\ UNCHANGED <<running, chat, kind>>

\* The command itself, after what was held.
HandsCommand(m) ==
  /\ at[m] = "next" /\ at' = [at EXCEPT ![m] = "handed"] /\ handed' = Append(handed, <<m>>)
  /\ UNCHANGED <<running, chat, kind, turn, held, timers>>

\* _release_later: the time is over.
Releases(t) ==
  /\ t \in timers /\ timers' = timers \ {t}
  /\ held' = [held EXCEPT ![t[1]] = <<>>]
  /\ handed' = Append(handed, t[2])
  /\ at' = [m \in Messages |-> IF m \in ToSet(t[2]) THEN "handed" ELSE at[m]]
  /\ UNCHANGED <<running, chat, kind, turn>>

Next ==
  \/ Starts \/ Stops
  \/ \E m \in Messages : Receives(m) \/ Processes(m) \/ HandsCommand(m)
  \/ \E t \in timers : Releases(t)

Spec == Init /\ [][Next]_vars

-----------------------------------------------------------------------------
(* Properties *)

\* A message is handed over once, alone or with the images before it; what is held
\* has a timer; and no message of its chat that was processed later is handed over
\* before it, unless stop drops it: process_message, _release_later.
ImagesArriveOnce ==
  LET places == UNION {{<<i, k>> : k \in DOMAIN handed[i]} : i \in DOMAIN handed}
      given(p) == handed[p[1]][p[2]]
      before(p, q) == p[1] < q[1] \/ (p[1] = q[1] /\ p[2] < q[2])
  IN
  /\ \A p, q \in places : p # q => given(p) # given(q)
  /\ \A p \in places : p[2] < Len(handed[p[1]]) => kind[given(p)] = "image"
  /\ \A c \in Chats : held[c] # <<>> => <<c, held[c]>> \in timers
  /\ \A i, j \in DOMAIN turn : i < j /\ chat[turn[i]] = chat[turn[j]] =>
       \A q \in places : given(q) = turn[j] =>
         \/ at[turn[i]] \in {"next", "dropped"}
         \/ \E p \in places : given(p) = turn[i] /\ (before(p, q) \/ kind[turn[i]] = "command")
=============================================================================
