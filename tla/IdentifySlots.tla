---------------------------- MODULE IdentifySlots ----------------------------
(***************************************************************************)
(* bub-qq, gateway/websocket.py: _await_identify_slot.  QQ bears           *)
(* MaxConcurrency identifies in every window of Window seconds, and all    *)
(* shards of a client share them.  A shard that wants to identify drops    *)
(* the attempts that have left the window, takes a slot if one is free,    *)
(* and otherwise sleeps until the oldest attempt will have left; then it   *)
(* tries again, against whoever else has woken.                            *)
(*                                                                         *)
(* An attempt is a time.  log is every attempt since the client started,   *)
(* and the deque _identify_attempts is log from place first on.            *)
(***************************************************************************)
EXTENDS Naturals

CONSTANTS Shards, MaxConcurrency, Window, MaxTime

ASSUME SlotsAssumption ==
    /\ MaxConcurrency \in Nat \ {0}
    /\ Window \in Nat \ {0}
    /\ MaxTime \in Nat

VARIABLES
    now,
    log,        \* [1 .. count -> time]
    count,
    first,
    wake        \* [Shards -> the time a shard tries at, or None]

vars == <<now, log, count, first, wake>>

None == MaxTime + Window + 1

Init ==
    /\ now = 0
    /\ log = [i \in {} |-> 0] /\ count = 0 /\ first = 1
    /\ wake = [s \in Shards |-> None]

\* A shard comes to identify.
Wants(s) ==
    /\ wake[s] = None
    /\ wake' = [wake EXCEPT ![s] = now]
    /\ UNCHANGED <<now, log, count, first>>

Gone(t) == now - t >= Window

\* The deque begins at i once the attempts that have left the window are
\* dropped from its front.
Drops(i) ==
    /\ \A j \in first .. i - 1 : Gone(log[j])
    /\ i <= count => ~Gone(log[i])
    /\ first' = i

\* mutant: a slot more than QQ bears
FreeBeyond(i) == count + 1 - i <= MaxConcurrency
Free(i) == count + 1 - i < MaxConcurrency

Due(s) == wake[s] <= now

Noted == now

Takes(s) ==
    /\ Due(s)
    /\ \E i \in first .. count + 1 : Drops(i) /\ Free(i)
    /\ count' = count + 1
    /\ log' = [i \in 1 .. count + 1 |-> IF i = count + 1 THEN Noted ELSE log[i]]
    /\ wake' = [wake EXCEPT ![s] = None]
    /\ UNCHANGED now

SleepsUntil(i) == log[i] + Window

Waits(s) ==
    /\ Due(s)
    /\ \E i \in first .. count + 1 :
          Drops(i) /\ ~Free(i) /\ wake' = [wake EXCEPT ![s] = SleepsUntil(i)]
    /\ UNCHANGED <<now, log, count>>

\* Time passes while nobody is due: a task that wakes runs before the clock
\* moves on.
Tick ==
    /\ now < MaxTime
    /\ \A s \in Shards : ~Due(s)
    /\ now' = now + 1
    /\ UNCHANGED <<log, count, first, wake>>

Next == Tick \/ \E s \in Shards : Wants(s) \/ Takes(s) \/ Waits(s)

Spec == Init /\ [][Next]_vars

(***************************************************************************)
(* Properties.                                                             *)
(***************************************************************************)
TypeOK ==
    /\ now \in 0 .. MaxTime
    /\ count \in Nat
    /\ log \in [1 .. count -> 0 .. MaxTime]
    /\ first \in 1 .. count + 1
    /\ wake \in [Shards -> Nat]
    /\ \A i \in 1 .. count : log[i] <= now

\* QQ's limit holds: of any MaxConcurrency + 1 identifies in a row, by
\* whichever shards, the last is at least a window after the first.
WindowIsKept ==
    \A i, j \in 1 .. count : j = i + MaxConcurrency => log[j] - log[i] >= Window

(***************************************************************************)
(* The inductive invariant behind it says what the deque has to do with    *)
(* the log: whatever was dropped from it has left the window.              *)
(***************************************************************************)
Types ==
    /\ now \in Nat
    /\ count \in Nat
    /\ log \in [1 .. count -> Nat]
    /\ first \in 1 .. count + 1

Dropped == \A i \in 1 .. first - 1 : Gone(log[i])

IInv == Types /\ Dropped /\ WindowIsKept
=============================================================================
