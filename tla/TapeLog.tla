------------------------------ MODULE TapeLog ------------------------------
(***************************************************************************)
(* What a tape store promises, whatever keeps it: a tape is a log, its     *)
(* entries in the order of their ids; an append or a reset takes effect at *)
(* once and at most once, and never after it has failed; ids grow along a  *)
(* tape.                                                                   *)
(***************************************************************************)
EXTENDS Naturals

CONSTANTS Calls, Tapes

VARIABLES
  log,    \* the entries of each tape
  fate    \* of each call: pending, done, asked (a query) or failed

vars == <<log, fate>>

Init == log = [t \in Tapes |-> {}] /\ fate = [c \in Calls |-> "pending"]

Becomes(c, f) == fate[c] = "pending" /\ fate' = [fate EXCEPT ![c] = f]

\* append: one more entry, with a higher id.
Appended(c, t) ==
  /\ Becomes(c, "done")
  /\ \E new \in log'[t] :
       /\ \A e \in log[t] : e.id < new.id
       /\ log' = [log EXCEPT ![t] = @ \cup {new}]

\* Calls of reset, of which the last may overtake the others.
Reset(cs, t) ==
  /\ cs # {} /\ \A c \in cs : fate[c] = "pending"
  /\ fate' = [c \in Calls |-> IF c \in cs THEN "done" ELSE fate[c]]
  /\ log' = [log EXCEPT ![t] = {}]

\* A query, which changes nothing.
Asked(c) == Becomes(c, "asked") /\ UNCHANGED log

\* Calls that fail, several at once in a crash.
Failed(cs) ==
  /\ \A c \in cs : fate[c] = "pending"
  /\ fate' = [c \in Calls |-> IF c \in cs THEN "failed" ELSE fate[c]]
  /\ UNCHANGED log

Next ==
  \/ \E cs \in SUBSET Calls : Failed(cs) \/ \E t \in Tapes : Reset(cs, t)
  \/ \E c \in Calls : Asked(c) \/ \E t \in Tapes : Appended(c, t)

Spec == Init /\ [][Next]_vars
=============================================================================
