----------------------------- MODULE ModelCalls -----------------------------
(***************************************************************************)
(* One call of the planner or the reviewer: the bounded grounding loop of  *)
(* agents/planner.py and agents/reviewer.py over the read-only tools, then *)
(* the structured answer with its repairs (providers/structured.py), every *)
(* request sent through the provider's transport retries                   *)
(* (providers/ollama.py).  A tool call is its name.                        *)
(***************************************************************************)
EXTENDS Naturals, Sequences, FiniteSets

CONSTANTS
  Tools,              \* every tool there is
  Registry,           \* build_planner_registry
  Unknown,            \* a name no tool has
  GroundingSteps,     \* PlannerSettings.grounding_steps, or the reviewer's
  MaxRepair,          \* structured_call's max_repair
  TransportRetries,   \* _TRANSPORT_RETRIES
  MaxBatch            \* bound: calls in one answer

ASSUME CallsAssumption ==
  /\ Registry \subseteq Tools /\ Unknown \notin Tools
  /\ GroundingSteps \in Nat /\ MaxRepair \in Nat /\ MaxBatch \in Nat
  /\ TransportRetries \in Nat \ {0}

VARIABLES
  at,        \* what the call does, or how it ended
  convo,     \* the messages
  steps,     \* passes of the grounding loop begun
  batch,     \* calls of the last answer not executed yet
  attempts,  \* passes of structured_call's loop that got an answer
  tries,     \* transport attempts of the current request that failed
  tools,     \* capabilities.supports_tools
  sent,      \* history: requests put on the wire
  invalid    \* history: structured answers that did not validate

vars == <<at, convo, steps, batch, attempts, tries, tools, sent, invalid>>

Names == Tools \cup {Unknown}
\* extract_tool_calls: the native calls, whatever they name; without any, the
\* known ones that the text of the answer spells out.
Batches == UNION {[1..n -> Names] : n \in 0..MaxBatch}
Ended == {"returned", "unstructured", "unreachable", "raised"}

Message(role, calls) == [role |-> role, calls |-> calls]
Messages == [role : {"system", "user", "assistant", "tool"}, calls : Seq(Names)]

TypeOK ==
  /\ at \in {"grounding", "acting", "emitting"} \cup Ended
  /\ convo \in Seq(Messages)
  /\ steps \in 0..GroundingSteps
  /\ batch \in Seq(Names)
  /\ attempts \in 0..(MaxRepair + 1)
  /\ tries \in 0..(TransportRetries - 1)
  /\ tools \in BOOLEAN
  /\ sent \in Nat
  /\ invalid \in 0..(MaxRepair + 1)

Init ==
  /\ at = "grounding"
  /\ convo = <<Message("system", <<>>), Message("user", <<>>)>>
  /\ steps = 0 /\ batch = <<>> /\ attempts = 0 /\ tries = 0
  /\ tools \in BOOLEAN
  /\ sent = 0 /\ invalid = 0
-----------------------------------------------------------------------------
(***************************************************************************)
(* The transport: a request is answered, or fails and is sent again, or is *)
(* given up with a ProviderError, which nobody below the node catches.     *)
(***************************************************************************)
Asks == \/ at = "grounding" /\ steps < GroundingSteps
        \/ at = "emitting"

RetriesLeftInclusive == tries < TransportRetries

RetriesLeft == tries + 1 < TransportRetries

RequestFails ==
  /\ Asks /\ RetriesLeft
  /\ tries' = tries + 1 /\ sent' = sent + 1
  /\ UNCHANGED <<at, convo, steps, batch, attempts, tools, invalid>>

\* structured_call with the request inside its try.
GivesUpAsInvalid ==
  IF at = "emitting" /\ attempts = MaxRepair THEN "unstructured" ELSE "unreachable"

\* The request is outside the try of structured_call.
GivesUpAs == "unreachable"

ProviderGivesUp ==
  /\ Asks /\ ~RetriesLeft
  /\ at' = GivesUpAs
  /\ sent' = sent + 1
  /\ UNCHANGED <<convo, steps, batch, attempts, tries, tools, invalid>>

\* _from_ollama_response on a native call whose arguments are JSON but no object.
AnswerIsMalformed ==
  /\ Asks
  /\ at' = "raised" /\ sent' = sent + 1
  /\ UNCHANGED <<convo, steps, batch, attempts, tries, tools, invalid>>

Answered == sent' = sent + 1 /\ tries' = 0
-----------------------------------------------------------------------------
(***************************************************************************)
(* Grounding.                                                              *)
(***************************************************************************)
EmitRequest == Message("user", <<>>)

\* An answer without a call ends the loop.
StopGrounding ==
  /\ at = "grounding" /\ steps < GroundingSteps
  /\ Answered
  /\ at' = "emitting" /\ steps' = steps + 1
  /\ convo' = convo \o <<Message("assistant", <<>>), EmitRequest>>
  /\ UNCHANGED <<batch, attempts, tools, invalid>>

CallTools ==
  /\ at = "grounding" /\ steps < GroundingSteps
  /\ Answered
  /\ at' = "acting" /\ steps' = steps + 1
  /\ batch' \in Batches \ {<<>>}
  /\ convo' = Append(convo, Message("assistant", batch'))
  /\ UNCHANGED <<attempts, tools, invalid>>

ObservedIfRun(name) == IF name \in Registry THEN <<Message("tool", <<name>>)>> ELSE <<>>

\* execute_tool: a tool the registry lacks is a failure, observed like a result.
Observed(name) == <<Message("tool", <<name>>)>>

\* The next call of the answer.  A tool that fails or raises in its run is
\* observed too, and so are refused paths and arguments.
ExecuteTool ==
  /\ at = "acting" /\ batch # <<>>
  /\ convo' = convo \o Observed(Head(batch))
  /\ batch' = Tail(batch)
  /\ UNCHANGED <<at, steps, attempts, tries, tools, sent, invalid>>

\* What no try of execute_tool covers: a path that cannot even be resolved.
ToolRaises ==
  /\ at = "acting" /\ batch # <<>> /\ Head(batch) \in Registry
  /\ at' = "raised"
  /\ UNCHANGED <<convo, steps, batch, attempts, tries, tools, sent, invalid>>

BatchDone ==
  /\ at = "acting" /\ batch = <<>>
  /\ at' = "grounding"
  /\ UNCHANGED <<convo, steps, batch, attempts, tries, tools, sent, invalid>>

StepsDone ==
  /\ at = "grounding" /\ steps = GroundingSteps
  /\ at' = "emitting"
  /\ convo' = Append(convo, EmitRequest)
  /\ UNCHANGED <<steps, batch, attempts, tries, tools, sent, invalid>>
-----------------------------------------------------------------------------
(***************************************************************************)
(* structured_call.                                                        *)
(***************************************************************************)
Emissions == [call : {"none", "fits", "misfits"},
              content : {"prose", "fits", "misfits", "envelope"}]

\* The emit call's arguments, else the content; envelopes are unwrapped only
\* when tools are in use, and without tools there are no calls.
Validates(e) ==
  IF tools /\ e.call # "none" THEN e.call = "fits"
  ELSE e.content = "fits" \/ (tools /\ e.content = "envelope")

EmissionFits(e) ==
  /\ at = "emitting" /\ Validates(e)
  /\ Answered
  /\ at' = "returned" /\ attempts' = attempts + 1
  /\ UNCHANGED <<convo, steps, batch, tools, invalid>>

LastAttempt == attempts = MaxRepair

\* The invalid answer and the validator's words are put to the model again.
Repair(e) ==
  /\ at = "emitting" /\ ~Validates(e) /\ ~LastAttempt
  /\ Answered
  /\ attempts' = attempts + 1 /\ invalid' = invalid + 1
  /\ convo' = convo \o <<Message("assistant", <<>>), Message("user", <<>>)>>
  /\ UNCHANGED <<at, steps, batch, tools>>

\* StructuredOutputError
GiveUp(e) ==
  /\ at = "emitting" /\ ~Validates(e) /\ LastAttempt
  /\ Answered
  /\ at' = "unstructured" /\ attempts' = attempts + 1 /\ invalid' = invalid + 1
  /\ UNCHANGED <<convo, steps, batch, tools>>

Transport == RequestFails \/ ProviderGivesUp \/ AnswerIsMalformed

Grounding ==
  \/ StopGrounding \/ CallTools \/ ExecuteTool \/ ToolRaises \/ BatchDone \/ StepsDone

Structured == \E e \in Emissions : EmissionFits(e) \/ Repair(e) \/ GiveUp(e)

Returned == at \in Ended /\ UNCHANGED vars

Next == Transport \/ Grounding \/ Structured \/ Returned

Spec == Init /\ [][Next]_vars
-----------------------------------------------------------------------------
\* Every request the model gets is a conversation it can follow: the calls of an
\* answer, refused ones included, are answered one by one, in order, before
\* anything else is said, and the last word is not the model's own.
ConversationIsWellFormed ==
  Asks =>
    /\ convo[Len(convo)].role \in {"user", "tool"}
    /\ \A i \in DOMAIN convo :
         /\ convo[i].role = "assistant" =>
              LET n == Len(convo[i].calls)
              IN /\ i + n <= Len(convo)
                 /\ \A k \in 1..n :
                      convo[i + k] = Message("tool", <<convo[i].calls[k]>>)
         /\ convo[i].role = "tool" =>
              \E j \in 1..(i - 1) : /\ convo[j].role = "assistant"
                                    /\ i <= j + Len(convo[j].calls)

\* A StructuredOutputError, which the nodes turn into a question to the human,
\* means that the model was heard and wrong MaxRepair + 1 times; an unreachable
\* model is never taken for a wrong one (structured_call, _with_retry).
UnstructuredMeansHeard ==
  /\ at = "unstructured" => invalid = MaxRepair + 1
  /\ at = "unreachable" => invalid <= MaxRepair

\* However the model misbehaves, one call costs a bounded number of requests.
RequestsAreBounded == sent <= (GroundingSteps + MaxRepair + 1) * TransportRetries
=============================================================================
