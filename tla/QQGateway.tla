------------------------------ MODULE QQGateway ------------------------------
(***************************************************************************)
(* bub-qq, gateway/websocket.py: the receiver of QQ events.  One task per  *)
(* shard connects, identifies or resumes, reads frames and hands every     *)
(* event to the channel before it reads the next; when the connection ends *)
(* it waits and connects again, unless the end was fatal.  The tasks form  *)
(* a TaskGroup with one that watches the stop events: the first to raise   *)
(* has the others cancelled, and the receiver then gives up.               *)
(*                                                                         *)
(* A heartbeat task lives beside every connection.  When the connection    *)
(* ends it is cancelled and awaited, and that await swallows every         *)
(* cancellation that arrives while it lasts; a heartbeat that had failed   *)
(* raises its own error there instead.                                     *)
(*                                                                         *)
(* QQ is external: it starts a session for an identify, or refuses it, and *)
(* resumes a live session by sending again what the client has not seen.   *)
(* MaxFaults bounds what goes wrong, MaxSeq the events of a session.       *)
(* Times are left out (IdentifySlots has those of the identifies).         *)
(***************************************************************************)
EXTENDS Naturals, Sequences

CONSTANTS
    Shards,
    MaxRejections,      \* websocket_max_identify_rejections
    Refusals,           \* how QQ refuses a session: "op9", "4006"
    FatalCodes,         \* whether QQ may close with a fatal code
    TokenErrors,        \* how a token request may fail: "denied", "outage"
    MaxSeq, MaxFaults

GatewayAssumption ==
    /\ MaxRejections \in Nat /\ MaxSeq \in Nat \ {0} /\ MaxFaults \in Nat
    /\ Refusals \subseteq {"op9", "4006"} /\ Refusals # {}
    /\ FatalCodes \in BOOLEAN
    /\ TokenErrors \subseteq {"denied", "outage"}

VARIABLES
    run,        \* where _run is: "resolve", "backoff", "workers", "ended"
    aborting,   \* the TaskGroup has cancelled its tasks
    cause,      \* why the receiver gives up, or "none"
    stop, ext,  \* the receiver's own stop event, the gateway's
    stopping,   \* stop() awaits the task
    pc,         \* [Shards -> where _run_shard is]
    sid, seq,   \* [Shards -> session_id and sequence, 0 for None]
    est,        \* [Shards -> session_established]
    rej,        \* [Shards -> identify_rejections]
    hb,         \* [Shards -> heartbeat_task: "none", "on", "failed"]
    signal,     \* [Shards -> what the read loop ended with]
    wire,       \* [Shards -> frames QQ has sent and the client has not read]
    open,       \* [Shards -> QQ's end of the connection is open]
    qq,         \* [Shards -> QQ's session: its number, events sent, alive]
    handed,     \* [Shards -> events handed to the channel]
    faults

client == <<run, aborting, cause, stop, ext, stopping, pc, sid, seq, est, rej, hb, signal>>
vars   == <<client, wire, open, qq, handed, faults>>
group  == <<run, aborting, cause, stop, ext, stopping>>
memory == <<sid, seq, est, rej>>

Init ==
    /\ run = "resolve" /\ aborting = FALSE /\ cause = "none"
    /\ stop = FALSE /\ ext = FALSE /\ stopping = FALSE
    /\ pc = [s \in Shards |-> "none"]
    /\ sid = [s \in Shards |-> 0] /\ seq = [s \in Shards |-> 0]
    /\ est = [s \in Shards |-> FALSE] /\ rej = [s \in Shards |-> 0]
    /\ hb = [s \in Shards |-> "none"]
    /\ signal = [s \in Shards |-> "none"]
    /\ wire = [s \in Shards |-> <<>>] /\ open = [s \in Shards |-> FALSE]
    /\ qq = [s \in Shards |-> [sid |-> 0, sent |-> 0, alive |-> FALSE]]
    /\ handed = [s \in Shards |-> <<>>]
    /\ faults = 0

\* mutant: only the gateway's event is looked at
ShouldStopExternal == ext
ShouldStop == stop \/ ext

Fault == faults < MaxFaults /\ faults' = faults + 1
Set(f, s, v) == [f EXCEPT ![s] = v]

(***************************************************************************)
(* _run: ask for the gateway, then run the shards until they have ended.   *)
(***************************************************************************)
GiveUp(why) == stop' = TRUE /\ cause' = why

Resolved ==
    /\ run = "resolve"
    /\ run' = "workers"
    /\ pc' = [s \in Shards |-> "loop"]
    /\ UNCHANGED <<aborting, cause, stop, ext, stopping, memory, hb, signal,
                   wire, open, qq, handed, faults>>

ResolveFails ==
    /\ run = "resolve" /\ Fault
    /\ run' = IF ShouldStop THEN "ended" ELSE "backoff"
    /\ UNCHANGED <<aborting, cause, stop, ext, stopping, pc, memory, hb, signal,
                   wire, open, qq, handed>>

\* A QQAuthError is permanent, whatever made the token request fail.
ResolveDenied ==
    /\ run = "resolve" /\ Fault
    /\ run' = "ended"
    /\ \E why \in TokenErrors : GiveUp(why)
    /\ UNCHANGED <<aborting, ext, stopping, pc, memory, hb, signal,
                   wire, open, qq, handed>>

Retries ==
    /\ run = "backoff"
    /\ run' = IF ShouldStop THEN "ended" ELSE "resolve"
    /\ UNCHANGED <<aborting, cause, stop, ext, stopping, pc, memory, hb, signal,
                   wire, open, qq, handed, faults>>

\* All tasks of the group have ended: a failure among them makes the
\* receiver give up, a stop request does not.
Joined ==
    /\ run = "workers" /\ \A s \in Shards : pc[s] = "ended"
    /\ run' = "ended"
    /\ IF cause # "none" THEN stop' = TRUE ELSE UNCHANGED stop
    /\ UNCHANGED <<aborting, cause, ext, stopping, pc, memory, hb, signal,
                   wire, open, qq, handed, faults>>

\* The group cancels its tasks, once: a shard that awaits its heartbeat
\* swallows it.
Swallows(s) == pc[s] = "unbeat"
Cancelled(s) == ~Swallows(s)
Cancel(but) ==
    /\ pc' = [s \in Shards |-> IF s \in but \/ Cancelled(s) THEN "ended" ELSE pc[s]]
    /\ hb' = [s \in Shards |-> IF s \in but \/ Cancelled(s) THEN "none" ELSE hb[s]]
    /\ open' = [s \in Shards |-> (s \notin but /\ Swallows(s)) /\ open[s]]
Abort(but) == aborting' = TRUE /\ Cancel(but)

\* _watch_stop_event.
Watch ==
    /\ run = "workers" /\ ~aborting /\ ShouldStop
    /\ Abort({})
    /\ UNCHANGED <<run, cause, stop, ext, stopping, memory, signal, wire, qq, handed, faults>>

GatewayStops ==
    /\ ~ext /\ ext' = TRUE
    /\ UNCHANGED <<run, aborting, cause, stop, stopping, pc, memory, hb, signal,
                   wire, open, qq, handed, faults>>

\* stop(): set the event, cancel the task, and wait for it.
StopCalled ==
    /\ ~stopping /\ stopping' = TRUE
    /\ stop' = TRUE
    /\ CASE run \in {"resolve", "backoff"} ->
              run' = "ended" /\ UNCHANGED <<aborting, pc, hb, open>>
         [] run = "workers" /\ ~aborting -> Abort({}) /\ UNCHANGED run
         [] OTHER -> UNCHANGED <<run, aborting, pc, hb, open>>
    /\ UNCHANGED <<cause, ext, memory, signal, wire, qq, handed, faults>>

(***************************************************************************)
(* What a connection ends with, in _run_shard.                             *)
(***************************************************************************)
Forget(s) == sid' = Set(sid, s, 0) /\ seq' = Set(seq, s, 0)

Exhausted(n) == MaxRejections >= 1 /\ n >= MaxRejections

\* A shard raises: the others are cancelled, unless they have been already.
Raise(s, why) ==
    /\ cause' = IF cause = "none" THEN why ELSE cause
    /\ IF aborting
       THEN /\ pc' = Set(pc, s, "ended") /\ hb' = Set(hb, s, "none")
            /\ open' = Set(open, s, FALSE)
            /\ UNCHANGED aborting
       ELSE Abort({s})

\* The connection is closed; on to the next, after a delay.
Again(s) ==
    /\ pc' = Set(pc, s, IF ShouldStop THEN "ended" ELSE "delay")
    /\ hb' = Set(hb, s, "none")
    /\ open' = Set(open, s, FALSE)
    /\ UNCHANGED <<aborting, cause>>

\* Any end but a fatal one and a rejection.
Ends(s) ==
    /\ rej' = IF est[s] THEN Set(rej, s, 0) ELSE rej
    /\ Again(s)
    /\ UNCHANGED <<sid, seq>>

\* Op 9: the session is forgotten; too many of them in a row are fatal.  (The
\* count means nothing, and is left at 0, when there is no limit.)
\* mutant: op 9 is an end like any other
RejectedAsLost(s) == Ends(s)

Rejected(s) ==
    /\ Forget(s)
    /\ rej' = Set(rej, s, IF est[s] \/ MaxRejections = 0 THEN 0 ELSE rej[s] + 1)
    /\ IF ~est[s] /\ Exhausted(rej[s] + 1) THEN Raise(s, "exhausted") ELSE Again(s)

\* mutant: a fatal code is an end like any other
FatalEndRetried(s) == Ends(s)
FatalEnd(s) == Raise(s, "fatal") /\ UNCHANGED <<sid, seq, rej>>

(***************************************************************************)
(* A shard.                                                                *)
(***************************************************************************)
Loop(s) ==
    /\ pc[s] = "loop"
    /\ IF ShouldStop
       THEN pc' = Set(pc, s, "ended") /\ UNCHANGED est
       ELSE pc' = Set(pc, s, "connect") /\ est' = Set(est, s, FALSE)
    /\ UNCHANGED <<group, sid, seq, rej, hb, signal, wire, open, qq, handed, faults>>

Delayed(s) ==
    /\ pc[s] = "delay"
    /\ pc' = Set(pc, s, "loop")
    /\ UNCHANGED <<group, memory, hb, signal, wire, open, qq, handed, faults>>

\* ws_connect and the hello frame.
Connected(s) ==
    /\ pc[s] = "connect"
    /\ pc' = Set(pc, s, "token")
    /\ wire' = Set(wire, s, <<>>) /\ open' = Set(open, s, TRUE)
    /\ UNCHANGED <<group, memory, hb, signal, qq, handed, faults>>

\* A request of the handshake fails, or its answer does not come.
ConnectFails(s) ==
    /\ pc[s] \in {"connect", "token", "slot"} /\ Fault
    /\ Ends(s)
    /\ UNCHANGED <<run, stop, ext, stopping, est, signal, wire, qq, handed>>

TokenDenied(s) ==
    /\ pc[s] = "token" /\ Fault
    /\ \E why \in TokenErrors : Raise(s, why)
    /\ UNCHANGED <<run, stop, ext, stopping, memory, signal, wire, qq, handed>>

\* With a token: resume the session the shard remembers, or identify.
Resumable(s) == sid[s] # 0 /\ seq[s] # 0

Event(k, n)  == [kind |-> "event", sid |-> k, seq |-> n]
Ready(k)     == [kind |-> "ready", sid |-> k, seq |-> 1]
Frame(kind)  == [kind |-> kind, sid |-> 0, seq |-> 0]
Send(s, frames) == wire' = Set(wire, s, wire[s] \o frames)

\* QQ refuses: op 9 and a close, or a close that says so.
Refusal(how) == IF how = "op9" THEN <<Frame("op9"), Frame("close")>> ELSE <<Frame("close")>>

Beats(s) == pc' = Set(pc, s, "read") /\ hb' = Set(hb, s, "on")

Resumes(s) ==
    /\ pc[s] = "token" /\ Resumable(s)
    /\ Beats(s)
    /\ IF qq[s].alive /\ qq[s].sid = sid[s]
       THEN /\ Send(s, [i \in 1 .. qq[s].sent - seq[s] |-> Event(sid[s], seq[s] + i)]
                          \o <<Frame("resumed")>>)
            /\ UNCHANGED open
       ELSE /\ \E how \in Refusals : Send(s, Refusal(how))
            /\ open' = Set(open, s, FALSE)
    /\ UNCHANGED <<group, memory, signal, qq, handed, faults>>

\* An identify waits for a slot (IdentifySlots).
AsksSlot(s) ==
    /\ pc[s] = "token" /\ ~Resumable(s)
    /\ pc' = Set(pc, s, "slot")
    /\ UNCHANGED <<group, memory, hb, signal, wire, open, qq, handed, faults>>

Identifies(s) ==
    /\ pc[s] = "slot"
    /\ Beats(s)
    /\ \/ /\ qq' = Set(qq, s, [sid |-> qq[s].sid + 1, sent |-> 1, alive |-> TRUE])
          /\ Send(s, <<Ready(qq[s].sid + 1)>>)
          /\ UNCHANGED <<open, faults>>
       \/ /\ Fault
          /\ \/ \E how \in Refusals : Send(s, Refusal(how))
             \/ FatalCodes /\ Send(s, <<Frame("fatal")>>)
          /\ open' = Set(open, s, FALSE)
          /\ UNCHANGED qq
    /\ UNCHANGED <<group, memory, signal, handed>>

(***************************************************************************)
(* Reading.  The loop ends with a signal, a close frame, or an exception   *)
(* of the handler.                                                         *)
(***************************************************************************)
HasFrame(s, kinds) == pc[s] = "read" /\ wire[s] # <<>> /\ Head(wire[s]).kind \in kinds
Take(s) == wire' = Set(wire, s, Tail(wire[s]))

\* mutant: the sequence is not advanced
SeenNot(s) == UNCHANGED seq
Seen(s) == seq' = Set(seq, s, Head(wire[s]).seq)

ReadReady(s) ==
    /\ HasFrame(s, {"ready"}) /\ Take(s)
    /\ Seen(s)
    /\ sid' = Set(sid, s, Head(wire[s]).sid)
    /\ est' = Set(est, s, TRUE)
    /\ UNCHANGED <<group, pc, rej, hb, signal, open, qq, handed, faults>>

ReadResumed(s) ==
    /\ HasFrame(s, {"resumed"}) /\ Take(s)
    /\ est' = Set(est, s, TRUE)
    /\ UNCHANGED <<group, pc, sid, seq, rej, hb, signal, open, qq, handed, faults>>

\* The sequence is advanced before the event is handed over.
ReadEvent(s) ==
    /\ HasFrame(s, {"event"}) /\ Take(s)
    /\ Seen(s)
    /\ handed' = Set(handed, s, Append(handed[s], Head(wire[s])))
    /\ pc' = Set(pc, s, "handle")
    /\ UNCHANGED <<group, sid, est, rej, hb, signal, open, qq, faults>>

Handled(s) ==
    /\ pc[s] = "handle"
    /\ pc' = Set(pc, s, "read")
    /\ UNCHANGED <<group, memory, hb, signal, wire, open, qq, handed, faults>>

\* The loop ends: cancel the heartbeat and await it.
Stops(s, what) ==
    /\ signal' = Set(signal, s, what)
    /\ pc' = Set(pc, s, "unbeat")

HandlerFails(s) ==
    /\ pc[s] = "handle" /\ Fault
    /\ \E what \in {"error"} \cup TokenErrors : Stops(s, what)
    /\ UNCHANGED <<group, memory, hb, wire, open, qq, handed>>

ReadEnd(s) ==
    /\ HasFrame(s, {"op7", "op9", "close", "fatal"}) /\ Take(s)
    /\ Stops(s, Head(wire[s]).kind)
    /\ UNCHANGED <<group, memory, hb, open, qq, handed, faults>>

\* A heartbeat cannot be sent any more.
BeatFails(s) ==
    /\ hb[s] = "on" /\ ~open[s] /\ pc[s] \in {"read", "handle"} /\ Fault
    /\ hb' = Set(hb, s, "failed")
    /\ UNCHANGED <<group, pc, memory, signal, wire, open, qq, handed>>

\* A heartbeat that had failed raises here, and takes the place of what the
\* loop ended with.
Unbeat(s) ==
    /\ pc[s] = "unbeat"
    /\ \/ hb[s] = "failed" /\ Ends(s)
       \/ /\ hb[s] # "failed"
          /\ CASE signal[s] \in {"op7", "op9"} ->
                    /\ pc' = Set(pc, s, "drain") /\ hb' = Set(hb, s, "none")
                    /\ UNCHANGED <<aborting, cause, open, sid, seq, rej>>
               [] signal[s] \in {"close", "error"} -> Ends(s)
               [] signal[s] = "fatal" -> FatalEnd(s)
               [] OTHER -> Raise(s, signal[s]) /\ UNCHANGED <<sid, seq, rej>>
    /\ UNCHANGED <<run, stop, ext, stopping, est, signal, wire, qq, handed, faults>>

\* After op 7 or op 9, wait a little for a close code that may be fatal.
Drained(s) ==
    /\ pc[s] = "drain"
    /\ CASE \E i \in DOMAIN wire[s] : wire[s][i].kind = "fatal" -> FatalEnd(s)
         [] signal[s] = "op9" -> Rejected(s)
         [] OTHER -> Ends(s)
    /\ UNCHANGED <<run, stop, ext, stopping, est, signal, wire, qq, handed, faults>>

(***************************************************************************)
(* QQ.                                                                     *)
(***************************************************************************)
Serves(s) == open[s] /\ pc[s] \in {"read", "handle"} /\ qq[s].alive

QQSends(s) ==
    /\ Serves(s) /\ qq[s].sent < MaxSeq
    /\ qq' = [qq EXCEPT ![s].sent = @ + 1]
    /\ Send(s, <<Event(qq[s].sid, qq[s].sent + 1)>>)
    /\ UNCHANGED <<client, open, handed, faults>>

\* QQ asks for a reconnect, closes, or ends the session.
QQEnds(s) ==
    /\ Serves(s) /\ Fault
    /\ \/ UNCHANGED qq /\ Send(s, <<Frame("op7"), Frame("close")>>)
       \/ UNCHANGED qq /\ Send(s, <<Frame("close")>>)
       \/ /\ qq' = [qq EXCEPT ![s].alive = FALSE]
          /\ \/ \E how \in Refusals : Send(s, Refusal(how))
             \/ FatalCodes /\ Send(s, <<Frame("op9"), Frame("fatal")>>)
       \/ FatalCodes /\ UNCHANGED qq /\ Send(s, <<Frame("fatal")>>)
    /\ open' = Set(open, s, FALSE)
    /\ UNCHANGED <<client, handed>>

\* QQ forgets a session nobody is connected to.
Expires(s) ==
    /\ ~Serves(s) /\ qq[s].alive /\ Fault
    /\ qq' = [qq EXCEPT ![s].alive = FALSE]
    /\ UNCHANGED <<client, wire, open, handed>>

Shard(s) ==
    \/ Loop(s) \/ Delayed(s) \/ Connected(s) \/ Resumes(s) \/ AsksSlot(s) \/ Identifies(s)
    \/ ReadReady(s) \/ ReadResumed(s) \/ ReadEvent(s) \/ Handled(s) \/ ReadEnd(s)
    \/ Unbeat(s) \/ Drained(s)

Run == Resolved \/ Retries \/ Joined \/ Watch

Breaks(s) == ConnectFails(s) \/ TokenDenied(s) \/ HandlerFails(s) \/ BeatFails(s)

OfQQ(s) == QQSends(s) \/ QQEnds(s) \/ Expires(s)

Next ==
    \/ Run \/ ResolveFails \/ ResolveDenied \/ GatewayStops \/ StopCalled
    \/ \E s \in Shards : Shard(s) \/ Breaks(s) \/ OfQQ(s)

Spec == Init /\ [][Next]_vars

\* The event loop runs what is ready, connections and handlers answer.
FairSpec == Spec /\ WF_vars(Run) /\ \A s \in Shards : WF_vars(Shard(s))

(***************************************************************************)
(* Properties.                                                             *)
(***************************************************************************)
Frames == [kind : {"event", "ready", "resumed", "op7", "op9", "close", "fatal"},
           sid : Nat, seq : 0 .. MaxSeq]
Causes == {"none", "fatal", "exhausted"} \cup TokenErrors

TypeOK ==
    /\ run \in {"resolve", "backoff", "workers", "ended"}
    /\ aborting \in BOOLEAN /\ stop \in BOOLEAN /\ ext \in BOOLEAN /\ stopping \in BOOLEAN
    /\ cause \in Causes
    /\ pc \in [Shards -> {"none", "loop", "connect", "token", "slot", "read", "handle",
                          "unbeat", "drain", "delay", "ended"}]
    /\ sid \in [Shards -> Nat] /\ seq \in [Shards -> 0 .. MaxSeq]
    /\ est \in [Shards -> BOOLEAN]
    /\ rej \in [Shards -> Nat]
    /\ MaxRejections >= 1 => \A s \in Shards : rej[s] <= MaxRejections
    /\ hb \in [Shards -> {"none", "on", "failed"}]
    /\ \A s \in Shards : wire[s] \in Seq(Frames) /\ handed[s] \in Seq(Frames)
    /\ open \in [Shards -> BOOLEAN]
    /\ qq \in [Shards -> [sid : Nat, sent : 0 .. MaxSeq, alive : BOOLEAN]]
    /\ faults \in 0 .. MaxFaults

\* Whatever reconnects, resumes and refusals lie between them, the events of
\* a session reach the channel in QQ's order, each once and with none left
\* out, and a resume asks for what comes after the last of them.
EventsAreHandedOnce ==
    \A s \in Shards :
        /\ \A i \in DOMAIN handed[s] :
              IF i > 1 /\ handed[s][i - 1].sid = handed[s][i].sid
              THEN handed[s][i].seq = handed[s][i - 1].seq + 1
              ELSE /\ handed[s][i].seq = 2
                   /\ i > 1 => handed[s][i - 1].sid < handed[s][i].sid
        /\ sid[s] # 0 =>
              LET mine == {i \in DOMAIN handed[s] : handed[s][i].sid = sid[s]}
              IN  IF mine = {} THEN seq[s] = 1
                  ELSE \E last \in mine : /\ \A i \in mine : i <= last
                                          /\ seq[s] = handed[s][last].seq

\* _give_up stops the receiver "after an unrecoverable error": a session, a
\* code or credentials QQ refuses for good, and never an outage.
GivesUpForGood == cause # "outage"

\* A shard recovers from whatever goes wrong and then stops going wrong: in
\* the end it has a live session, or the receiver has ended.
HasSession(s) == pc[s] \in {"read", "handle"} /\ est[s] /\ qq[s].alive /\ sid[s] = qq[s].sid
Recovers == \A s \in Shards : <>[](run = "ended" \/ HasSession(s))

\* A close code that QQ means for good ends the receiver, in spite of the
\* heartbeat that is cancelled in between.
FatalCodeEnds ==
    \A s \in Shards :
        pc[s] = "unbeat" /\ signal[s] = "fatal" /\ hb[s] = "on" ~> run = "ended"

\* The failure of one shard ends the whole receiver.
FailureEnds == aborting ~> run = "ended"

\* stop() comes back.
StopEnds == stopping ~> run = "ended"
=============================================================================
