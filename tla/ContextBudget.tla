--------------------------- MODULE ContextBudget ---------------------------
(***************************************************************************)
(* When a turn is told to hand its tape off (bub-context-budget).  Before  *)
(* a call of the model the tokens of the request are estimated: from the   *)
(* usage of an earlier call, if the request goes on from that call, and    *)
(* else from its messages alone, which leaves its tools uncounted.         *)
(***************************************************************************)
EXTENDS Naturals, Sequences, SequencesExt

CONSTANTS
  MaxTokens,  \* max_context_tokens
  Reserve,    \* RESERVE_TOKENS
  Models, Toolsets,
  ToolTokens, \* of a tool set, at most Reserve
  Sizes,      \* tokens of a message
  MaxMessages \* bounds what is explored

ContextBudgetConstants ==
  /\ MaxTokens \in Nat /\ Reserve \in Nat /\ "none" \notin Models
  /\ ToolTokens \in [Toolsets -> 0..Reserve]
  \* A message has a role at least.
  /\ Sizes \subseteq Nat \ {0}

VARIABLES
  messages, \* [id, size], and whether the system message holds the instruction
  names,    \* an identity for the next message
  request,  \* what the model is asked: [model, tools, messages], or NoRequest
  told,     \* the request holds the instruction
  baseline  \* of the turn: [model, tools, messages, total], or NoBaseline

vars == <<messages, names, request, told, baseline>>

NoRequest == [model |-> "none"]
NoBaseline == [model |-> "none"]
Instruction == [id |-> 0, size |-> 0]

\* A turn begins with the system message and the prompt, and no baseline.
Init ==
  /\ messages \in {<<[id |-> 1, size |-> n]>> : n \in Sizes}
  /\ names = 2 /\ request = NoRequest /\ told = FALSE /\ baseline = NoBaseline

\* estimate_context_tokens: the encoding counts what the model would.
Tokens(ms) ==
  LET sum[n \in 0 .. Len(ms)] == IF n = 0 THEN 0 ELSE sum[n - 1] + ms[n].size
  IN sum[Len(ms)]

\* mutant: as many messages are taken for the same messages.
SameLength(ms) == Len(ms) >= Len(baseline.messages)

\* The messages go on from those the baseline covers: their digest.
GoesOn(ms) == IsPrefix(baseline.messages, ms)

\* _estimate_request_tokens
Estimate(asked) ==
  IF baseline.model = asked.model
  THEN IF baseline.tools = asked.tools /\ GoesOn(asked.messages)
       THEN baseline.total + Tokens(SubSeq(asked.messages, Len(baseline.messages) + 1,
                                           Len(asked.messages)))
       ELSE Tokens(asked.messages)
  ELSE Tokens(asked.messages)

\* The threshold; the reserve may be all of the budget.
Threshold == IF MaxTokens > Reserve THEN MaxTokens - Reserve ELSE 0

\* before_llm_call: the instruction goes into the system message of this request.
BeforeLlmCall(model, tools) ==
  LET asked == [model |-> model, tools |-> tools, messages |-> messages] IN
  /\ request = NoRequest
  /\ told' = (Estimate(asked) > Threshold)
  /\ request' = [asked EXCEPT !.messages = IF told' THEN <<Instruction>> \o @ ELSE @]
  /\ UNCHANGED <<messages, names, baseline>>

\* mutant: what the model answered is not among what the usage covers.
CoveredAsked(answer) == request.messages

\* The messages the usage of a call covers.
Covered(answer) == Append(request.messages, answer)

\* What the request takes of the model's context: its messages and its tools.
Taken == Tokens(request.messages) + ToolTokens[request.tools]

\* after_llm_call: the answer is of any size, and its usage may be missing, or an error.
AfterLlmCall(size) ==
  LET answer == [id |-> names, size |-> size] IN
  /\ request # NoRequest /\ Len(messages) < MaxMessages
  /\ messages' = Append(messages, answer) /\ names' = names + 1
  /\ \/ UNCHANGED baseline
     \/ baseline' = [model |-> request.model, tools |-> request.tools,
                     messages |-> Covered(answer), total |-> Taken + size]
  /\ request' = NoRequest /\ told' = FALSE

\* The call fails: nothing is kept of it.
Fails ==
  /\ request # NoRequest /\ request' = NoRequest /\ told' = FALSE
  /\ UNCHANGED <<messages, names, baseline>>

\* Results of tools, or a steered message.
Grows(size) ==
  /\ request = NoRequest /\ Len(messages) < MaxMessages
  /\ messages' = Append(messages, [id |-> names, size |-> size]) /\ names' = names + 1
  /\ UNCHANGED <<request, told, baseline>>

\* tape.handoff: the context begins anew, with a summary.
HandsOff(size) ==
  /\ request = NoRequest /\ Len(messages) > 1 /\ names <= MaxMessages
  /\ messages' = <<Head(messages), [id |-> names, size |-> size]>> /\ names' = names + 1
  /\ UNCHANGED <<request, told, baseline>>

Next ==
  \/ \E model \in Models, tools \in Toolsets : BeforeLlmCall(model, tools)
  \/ \E size \in Sizes : AfterLlmCall(size) \/ Grows(size) \/ HandsOff(size)
  \/ Fails

Spec == Init /\ [][Next]_vars

-----------------------------------------------------------------------------
\* A request is sent without the instruction only if it fits, its tools counted, and with it
\* only if it is over the threshold: a baseline is never of another conversation, whatever
\* handoffs, failed calls and changes of tools and models came between.
HandoffIsTimely ==
  request # NoRequest =>
    /\ ~told => Taken <= MaxTokens
    /\ told => Taken > Threshold
=============================================================================
