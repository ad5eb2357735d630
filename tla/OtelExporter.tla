---------------------------- MODULE OtelExporter ----------------------------
(***************************************************************************)
(* OTelTapeStore and OTelTapeExporter (bub-tapestore-otel): a store that   *)
(* lets another one write and then tells the exporter, which collects the  *)
(* entries of a tape and makes a trace of them when a command or a last    *)
(* step ends the batch, or a reset does.                                   *)
(*                                                                         *)
(* One tape.  Callers write one entry each, of a kind; the store they      *)
(* write to commits in any order, so the exporter may hear in another.     *)
(* The attributes of spans are data, of which usage and calls are kept.    *)
(***************************************************************************)
EXTENDS Naturals, Sequences, FiniteSets, SequencesExt

CONSTANTS
  Callers,  \* appends, in progress at once
  Resets,   \* resets
  Kinds     \* of entries: "message", "call", "result", "run", "step", "last", "command"

VARIABLES
  pc, kind,    \* where a call stands; of an append, the kind of its entry
  committed,   \* the appends the inner store has committed
  pending,     \* _pending of the tape
  batch,       \* the entries a call has taken to make a trace of
  traces,      \* the traces given to the tracer
  lost         \* history: the entries of traces that failed

vars == <<pc, kind, committed, pending, batch, traces, lost>>
Calls == Callers \cup Resets

OtelConstants == Callers \cap Resets = {}

Init ==
  /\ pc = [c \in Calls |-> "idle"] /\ kind \in [Callers -> Kinds]
  /\ committed = {} /\ pending = <<>> /\ batch = [c \in Calls |-> <<>>]
  /\ traces = {} /\ lost = {}

Goes(c, p) == pc' = [pc EXCEPT ![c] = p]

-----------------------------------------------------------------------------
(* What a trace says: build_tape_trace *)

\* _split_step_entries: a step ends with the event loop.step; what follows the
\* last one is a step only if there is no other.
Ends(es) == {i \in DOMAIN es : kind[es[i]] \in {"step", "last"}}
Steps(es) ==
  IF Ends(es) = {} THEN {es} \ {<<>>}
  ELSE {SubSeq(es, 1 + (IF \E j \in Ends(es) : j < i
                        THEN CHOOSE j \in Ends(es) : /\ j < i
                               /\ \A k \in Ends(es) : k < i => k <= j
                        ELSE 0), i) : i \in Ends(es)}

\* _extract_messages_and_tools, _attach_tool_results: results go to the calls in
\* the order of the calls, from the first one.
WithEntry(calls, e) ==
  CASE kind[e] = "call" -> Append(calls, [call |-> e, result |-> {}])
    [] kind[e] = "result" /\ calls # <<>> -> [calls EXCEPT ![1].result = {e}]
    [] OTHER -> calls

ToolCalls(es) ==
  LET calls[n \in 0 .. Len(es)] ==
        IF n = 0 THEN <<>> ELSE WithEntry(calls[n - 1], es[n])
  IN calls[Len(es)]

\* _combined_usage: the runs that are counted, wherever they are in the batch.
Usage(es) == {es[i] : i \in {j \in DOMAIN es : kind[es[j]] = "run"}}

\* _split_input_output: the output is the last message of the assistant, or its
\* last tool call; what is before it is the input, what is after it in neither.
Output(es) ==
  LET last(k) == {i \in DOMAIN es : kind[es[i]] = k}
      told == IF last("message") # {} THEN last("message") ELSE last("call")
  IN {es[i] : i \in {j \in told : \A k \in told : k <= j}}

Trace(es) ==
  [entries |-> es, usage |-> Usage(es), output |-> Output(es),
   steps |-> {[entries |-> s, calls |-> ToolCalls(s)] : s \in Steps(es)}]

-----------------------------------------------------------------------------
\* append: the inner store.  If it raises, the exporter does not hear of it.
Commits(c) ==
  /\ pc[c] = "idle"
  /\ \/ Goes(c, "record") /\ committed' = committed \cup ({c} \cap Callers)
     \/ Goes(c, "raised") /\ UNCHANGED committed
  /\ UNCHANGED <<kind, pending, batch, traces, lost>>

\* _should_flush_batch.
EndsBatch(k) == k \in {"command", "last"}

\* _record_entry, under the lock.
Records(c) ==
  /\ pc[c] = "record" /\ c \in Callers
  /\ IF EndsBatch(kind[c])
     THEN /\ batch' = [batch EXCEPT ![c] = Append(pending, c)]
          /\ pending' = <<>> /\ Goes(c, "trace")
     ELSE pending' = Append(pending, c) /\ Goes(c, "done") /\ UNCHANGED batch
  /\ UNCHANGED <<kind, committed, traces, lost>>

\* mutant: a copy is taken.
PoppedKept == pending

\* _pop_pending leaves nothing.
Popped == <<>>

\* _reset, under the lock: what is pending makes a trace as well.
Pops(c) ==
  /\ pc[c] = "record" /\ c \in Resets
  /\ batch' = [batch EXCEPT ![c] = pending] /\ pending' = Popped
  /\ Goes(c, IF pending = <<>> THEN "done" ELSE "trace")
  /\ UNCHANGED <<kind, committed, traces, lost>>

\* _instrument_trace and the flush.  A failure is logged, and the batch is gone.
Instruments(c) ==
  /\ pc[c] = "trace" /\ Goes(c, "done") /\ batch' = [batch EXCEPT ![c] = <<>>]
  /\ \/ traces' = traces \cup {Trace(batch[c])} /\ UNCHANGED lost
     \/ lost' = lost \cup Range(batch[c]) /\ UNCHANGED traces
  /\ UNCHANGED <<kind, committed, pending>>

Next == \E c \in Calls : Commits(c) \/ Records(c) \/ Pops(c) \/ Instruments(c)

Spec == Init /\ [][Next]_vars

-----------------------------------------------------------------------------
(* Properties *)

Exported == UNION {Range(t.entries) : t \in traces}

\* Every entry the store has committed is in one place: with its writer, pending,
\* in a batch, in one trace, or in a batch that failed; a trace's steps share no
\* entry, leave none before the last step out, and answer a call by a later entry
\* of the same step: _record_entry, _pop_pending, _split_step_entries.
EntriesAreTracedOnce ==
  /\ \A e \in committed :
       Cardinality({x \in {"writer"} : pc[e] = "record"})
         + Cardinality({i \in DOMAIN pending : pending[i] = e})
         + Cardinality({c \in Calls : e \in Range(batch[c])})
         + Cardinality({t \in traces : e \in Range(t.entries)})
         + Cardinality({x \in {"lost"} : e \in lost}) = 1
  /\ Exported \cup Range(pending) \cup lost \subseteq committed
  /\ \A t \in traces :
       /\ \A s, u \in t.steps : s # u => Range(s.entries) \cap Range(u.entries) = {}
       /\ \A i \in DOMAIN t.entries :
            (\E j \in Ends(t.entries) : i <= j) =>
              \E s \in t.steps : t.entries[i] \in Range(s.entries)
       /\ \A s \in t.steps : \A k \in DOMAIN s.calls : \A r \in s.calls[k].result :
            \E i, j \in DOMAIN s.entries :
              i < j /\ s.entries[i] = s.calls[k].call /\ s.entries[j] = r
=============================================================================
