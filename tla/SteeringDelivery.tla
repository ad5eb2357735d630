-------------------------- MODULE SteeringDelivery --------------------------
(***************************************************************************)
(* What bub-acp-server promises about a steering message: until it is      *)
(* reported it is in the hands of its request or in the inbox; a model     *)
(* step of a running turn takes every message it finds there, or the       *)
(* request makes it a turn of its own; a request is answered once, with    *)
(* what really happened to its message.  A request that asked for an       *)
(* acknowledgement does not hear which of the two it was, and may hear of  *)
(* a failure although its message was taken.                               *)
(***************************************************************************)
CONSTANTS
  Messages,
  Acknowledged    \* those whose requests asked for an acknowledgement

VARIABLES
  fate,     \* where each message is
  report    \* the outcome its request was answered with

vars == <<fate, report>>

Fates == {"absent", "held", "queued", "injected", "ownTurn"}
Taken == {"injected", "ownTurn"}
Refusals == {"rejected", "failed", "aborted"}
Outcomes == {"none", "injected", "startedNewTurn"} \cup Refusals

TypeOK ==
  /\ fate \in [Messages -> Fates]
  /\ report \in [Messages -> Outcomes]

Init ==
  /\ fate = [m \in Messages |-> "absent"]
  /\ report = [m \in Messages |-> "none"]

Move(m, from, to) ==
  /\ report[m] = "none" /\ fate[m] = from
  /\ fate' = [fate EXCEPT ![m] = to]
  /\ UNCHANGED report

Offer(m) == Move(m, "absent", "held")
Queue(m) == Move(m, "held", "queued")
Withdraw(m) == Move(m, "queued", "held")
StartOwnTurn(m) == Move(m, "held", "ownTurn")

\* One model step takes a whole batch of queued messages.
Inject(M) ==
  /\ \A m \in M : fate[m] = "queued"
  /\ fate' = [m \in Messages |-> IF m \in M THEN "injected" ELSE fate[m]]
  /\ UNCHANGED report

\* What a request may hear of a message that was taken.
Truth(m) ==
  IF m \in Acknowledged THEN {"injected", "failed"}
  ELSE IF fate[m] = "injected" THEN {"injected"} ELSE {"startedNewTurn"}

Report(m) ==
  /\ report[m] = "none"
  /\ \/ /\ fate[m] \in Taken
        /\ \E told \in Truth(m) : report' = [report EXCEPT ![m] = told]
        /\ UNCHANGED fate
     \/ /\ fate[m] \in {"held", "queued"}    \* a queued message is withdrawn
        /\ \E told \in Refusals : report' = [report EXCEPT ![m] = told]
        /\ fate' = [fate EXCEPT ![m] = "held"]

Next ==
  \/ \E m \in Messages : Offer(m) \/ Queue(m) \/ Withdraw(m) \/ StartOwnTurn(m)
                           \/ Report(m)
  \/ \E M \in SUBSET Messages : Inject(M)

Spec == Init /\ [][Next]_vars
=============================================================================
