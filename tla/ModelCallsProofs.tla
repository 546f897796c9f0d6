-------------------------- MODULE ModelCallsProofs --------------------------
(***************************************************************************)
(* Theorems about one call of the planner or the reviewer, for any tools,  *)
(* any bounds on steps, repairs and retries, and any answers of the model. *)
(***************************************************************************)
EXTENDS ModelCalls, SequenceTheorems, TLAPS

\* A batch is a sequence of names.
LEMMA BatchesAreSequences == Batches \subseteq Seq(Names)
<1> SUFFICES ASSUME NEW n \in 0..MaxBatch, NEW calls \in [1..n -> Names]
             PROVE  calls \in Seq(Names)
  BY DEF Batches
<1>1. n \in Nat
  BY CallsAssumption
<1> QED
  BY <1>1, SeqDef

\* Appending to a conversation leaves a conversation.
LEMMA ConversationsGrow ==
  ASSUME NEW c \in Seq(Messages), NEW calls \in Seq(Names)
  PROVE  /\ Append(c, Message("assistant", calls)) \in Seq(Messages)
         /\ Append(c, EmitRequest) \in Seq(Messages)
         /\ \A name \in Names : c \o Observed(name) \in Seq(Messages)
         /\ c \o <<Message("assistant", <<>>), EmitRequest>> \in Seq(Messages)
<1>1. /\ Message("assistant", calls) \in Messages
      /\ Message("assistant", <<>>) \in Messages /\ EmitRequest \in Messages
      /\ \A name \in Names : Message("tool", <<name>>) \in Messages
  BY DEF Message, Messages, EmitRequest
<1>2. \A name \in Names : Observed(name) \in Seq(Messages)
  <2> SUFFICES ASSUME NEW name \in Names PROVE Observed(name) \in Seq(Messages)
    OBVIOUS
  <2> DEFINE m == Message("tool", <<name>>)
  <2>1. m \in Messages
    BY <1>1
  <2> HIDE DEF m
  <2>2. <<m>> \in Seq(Messages)
    BY <2>1
  <2> QED
    BY <2>2 DEF Observed, m
<1>3. <<Message("assistant", <<>>), EmitRequest>> \in Seq(Messages)
  BY <1>1
<1> HIDE DEF Messages, Names
<1> QED
  BY <1>1, <1>2, <1>3, AppendProperties, ConcatProperties

\* What the counters say of each other: an attempt is counted with its answer,
\* and every answer was invalid while there is another one to come.
CountersInv ==
  /\ at \in {"grounding", "acting"} => attempts = 0 /\ invalid = 0
  /\ at = "emitting" => attempts <= MaxRepair /\ invalid = attempts
  /\ at \in {"unreachable", "raised"} => invalid <= MaxRepair
  /\ at = "unstructured" => invalid = MaxRepair + 1

\* Requests so far: at most TransportRetries for each answer had, and the
\* failed ones of the answer to come.
Answers == steps + attempts
CostInv ==
  /\ at \notin Ended => sent <= Answers * TransportRetries + tries
  /\ at \in Ended => RequestsAreBounded

CallInv == TypeOK /\ CountersInv /\ CostInv

LEMMA InitialCall == Init => CallInv
<1> SUFFICES ASSUME Init PROVE CallInv
  OBVIOUS
<1>1. convo \in Seq(Messages)
  BY DEF Init, Messages, Message
<1>2. TypeOK
  BY <1>1, CallsAssumption DEF Init, TypeOK
<1>3. CountersInv /\ CostInv
  BY CallsAssumption DEF Init, CountersInv, CostInv, Ended, Answers
<1> QED
  BY <1>2, <1>3 DEF CallInv

\* The types are kept by every step.
LEMMA TypeStep == ASSUME TypeOK, CountersInv, Next PROVE TypeOK'
<1> USE CallsAssumption DEF TypeOK
<1> USE DEF Ended
<1>1. CASE Transport
  BY <1>1 DEF Transport, RequestFails, ProviderGivesUp, AnswerIsMalformed, RetriesLeft, GivesUpAs, Asks
<1>2. CASE StopGrounding
  <2>1. convo' \in Seq(Messages)
    BY <1>2, ConversationsGrow DEF StopGrounding
  <2> QED
    BY <1>2, <2>1 DEF StopGrounding, Answered
<1>3. CASE CallTools
  <2>1. batch' \in Seq(Names)
    BY <1>3, BatchesAreSequences DEF CallTools
  <2>2. convo' \in Seq(Messages)
    BY <1>3, <2>1, ConversationsGrow DEF CallTools
  <2> QED
    BY <1>3, <2>1, <2>2 DEF CallTools, Answered
<1>4. CASE ExecuteTool
  <2>1. Head(batch) \in Names /\ batch' \in Seq(Names)
    BY <1>4, HeadTailProperties DEF ExecuteTool
  <2>2. convo' \in Seq(Messages)
    BY <1>4, <2>1, ConversationsGrow DEF ExecuteTool
  <2> QED
    BY <1>4, <2>1, <2>2 DEF ExecuteTool
<1>5. CASE BatchDone \/ ToolRaises
  BY <1>5 DEF BatchDone, ToolRaises
<1>6. CASE StepsDone
  <2>1. convo' \in Seq(Messages)
    BY <1>6, ConversationsGrow DEF StepsDone
  <2> QED
    BY <1>6, <2>1 DEF StepsDone
<1>7. ASSUME NEW e \in Emissions, EmissionFits(e) \/ GiveUp(e) PROVE TypeOK'
  BY <1>7 DEF EmissionFits, GiveUp, Answered, CountersInv, LastAttempt
<1>8. ASSUME NEW e \in Emissions, Repair(e) PROVE TypeOK'
  <2>1. convo' \in Seq(Messages)
    <3>1. <<Message("assistant", <<>>), Message("user", <<>>)>> \in Seq(Messages)
      BY DEF Message, Messages
    <3> QED
      BY <1>8, <3>1, ConcatProperties DEF Repair
  <2> QED
    BY <1>8, <2>1 DEF Repair, Answered, CountersInv, LastAttempt
<1>9. CASE Returned
  BY <1>9 DEF Returned, vars
<1> QED
  BY <1>1, <1>2, <1>3, <1>4, <1>5, <1>6, <1>7, <1>8, <1>9
  DEF Next, Grounding, Structured

LEMMA CountersStep == ASSUME TypeOK, CountersInv, Next PROVE CountersInv'
<1> USE CallsAssumption DEF CountersInv, Ended
<1>1. CASE Transport
  BY <1>1 DEF TypeOK, Transport, RequestFails, ProviderGivesUp, AnswerIsMalformed, GivesUpAs, Asks
<1>2. CASE Grounding
  BY <1>2
  DEF TypeOK, Grounding, StopGrounding, CallTools, ExecuteTool, ToolRaises, BatchDone, StepsDone
<1>3. CASE Structured
  BY <1>3 DEF TypeOK, Structured, EmissionFits, Repair, GiveUp, LastAttempt
<1>4. CASE Returned
  BY <1>4 DEF Returned, vars
<1> QED
  BY <1>1, <1>2, <1>3, <1>4 DEF Next

\* k answers, each after at most TransportRetries requests.
LEMMA CostOfAnswers ==
  ASSUME NEW k \in Nat, NEW n \in Nat, k <= n
  PROVE  /\ (k + 1) * TransportRetries = k * TransportRetries + TransportRetries
         /\ k * TransportRetries <= n * TransportRetries
         /\ k * TransportRetries \in Nat
<1>1. TransportRetries \in Nat
  BY CallsAssumption
<1>2. PICK d \in Nat : n = k + d
  BY n - k \in Nat
<1>3. n * TransportRetries = k * TransportRetries + d * TransportRetries
  BY <1>1, <1>2
<1>4. d * TransportRetries >= 0 /\ d * TransportRetries \in Nat /\ k * TransportRetries \in Nat
  BY <1>1, <1>2
<1> QED
  BY <1>1, <1>3, <1>4

\* What CallInv says of the requests, at any point of the call.
LEMMA BoundFromInv == CallInv => RequestsAreBounded
<1> SUFFICES ASSUME CallInv PROVE RequestsAreBounded
  OBVIOUS
<1> DEFINE T == TransportRetries
           All == GroundingSteps + MaxRepair + 1
<1>1. CASE at \in Ended
  BY <1>1 DEF CallInv, CostInv
<1>2. CASE at \notin Ended
  <2>1. /\ T \in Nat \ {0} /\ tries \in 0..(T - 1) /\ sent \in Nat /\ All \in Nat
        /\ Answers \in Nat /\ Answers + 1 <= All /\ sent <= Answers * T + tries
    BY <1>2, CallsAssumption DEF CallInv, TypeOK, CountersInv, CostInv, Answers
  <2>2. /\ (Answers + 1) * T = Answers * T + T /\ Answers * T \in Nat
        /\ (Answers + 1) * T <= All * T
    BY <2>1, CostOfAnswers
  <2>3. Answers * T + tries <= Answers * T + T
    <3> HIDE DEF Answers
    <3> QED
      BY <2>1, <2>2
  <2> QED
    BY <2>1, <2>2, <2>3 DEF RequestsAreBounded
<1> QED
  BY <1>1, <1>2

LEMMA CostStep == ASSUME CallInv, Next PROVE CostInv'
<1> DEFINE T == TransportRetries
           All == GroundingSteps + MaxRepair + 1
<1>0. /\ T \in Nat \ {0} /\ GroundingSteps \in Nat /\ MaxRepair \in Nat
      /\ steps \in 0..GroundingSteps /\ tries \in 0..(T - 1) /\ sent \in Nat
      /\ attempts \in 0..(MaxRepair + 1) /\ Answers \in Nat /\ All \in Nat
      /\ at \in {"grounding", "acting", "emitting"} \cup Ended
  BY CallsAssumption DEF CallInv, TypeOK, Answers
\* While a request may be sent, an answer is still to come.
<1>1. Asks => /\ Answers + 1 <= All /\ at \notin Ended
              /\ sent + 1 <= (Answers + 1) * T
              /\ (Answers + 1) * T <= All * T
  <2> SUFFICES ASSUME Asks
               PROVE  /\ Answers + 1 <= All /\ at \notin Ended
                      /\ sent + 1 <= (Answers + 1) * T /\ (Answers + 1) * T <= All * T
    OBVIOUS
  <2>1. Answers + 1 <= All /\ at \notin Ended
    BY <1>0 DEF Asks, CallInv, CountersInv, Answers, Ended
  <2>2. (Answers + 1) * T = Answers * T + T /\ Answers * T \in Nat
    BY <1>0, CostOfAnswers
  <2>3. (Answers + 1) * T <= All * T
    BY <1>0, <2>1, CostOfAnswers
  <2>4. sent <= Answers * T + tries
    BY <2>1 DEF CallInv, CostInv
  <2> HIDE DEF Answers, All, T
  <2>5. sent + 1 <= Answers * T + T
    <3> DEFINE z == Answers * T
    <3>1. z \in Nat /\ sent <= z + tries /\ tries + 1 <= T
      BY <1>0, <2>2, <2>4
    <3> HIDE DEF z
    <3>2. sent + 1 <= z + T
      BY <1>0, <3>1
    <3> QED
      BY <3>2 DEF z
  <2> QED
    BY <2>1, <2>2, <2>3, <2>5
<1>2. CASE RequestFails
  <2>1. sent' = sent + 1 /\ tries' = tries + 1 /\ at' = at /\ Answers' = Answers
    BY <1>2 DEF RequestFails, Answers
  <2>2. at \notin Ended /\ sent <= Answers * T + tries /\ Answers * T \in Nat
    BY <1>0, <1>1, <1>2, CostOfAnswers DEF RequestFails, CallInv, CostInv
  <2> HIDE DEF Answers
  <2> QED
    BY <1>0, <2>1, <2>2 DEF CostInv
<1>3. CASE ProviderGivesUp \/ AnswerIsMalformed
  <2>1. sent' = sent + 1 /\ at' \in Ended
    BY <1>3 DEF ProviderGivesUp, AnswerIsMalformed, GivesUpAs, Ended
  <2>2. sent + 1 <= All * T
    BY <1>0, <1>1, <1>3, CostOfAnswers DEF ProviderGivesUp, AnswerIsMalformed
  <2> QED
    BY <2>1, <2>2 DEF CostInv, RequestsAreBounded
\* An answer: the failed tries are forgotten, their requests are paid for.
<1>4. ASSUME Asks, Answered, Answers' = Answers + 1 PROVE CostInv'
  <2>1. sent' = sent + 1 /\ tries' = 0
    BY <1>4 DEF Answered
  <2>2. sent' <= Answers' * T /\ sent' <= All * T /\ Answers' * T \in Nat
    BY <1>0, <1>1, <1>4, <2>1, CostOfAnswers
  <2> HIDE DEF Answers
  <2> QED
    BY <2>1, <2>2 DEF CostInv, RequestsAreBounded
<1>5. CASE StopGrounding \/ CallTools
  BY <1>0, <1>4, <1>5 DEF StopGrounding, CallTools, Asks, Answers
<1>6. CASE ExecuteTool \/ BatchDone \/ StepsDone
  BY <1>6 DEF ExecuteTool, BatchDone, StepsDone, CallInv, CostInv, Answers, Ended
<1>7. CASE Structured
  BY <1>0, <1>4, <1>7 DEF Structured, EmissionFits, Repair, GiveUp, Asks, Answers
<1>8. CASE Returned
  BY <1>8 DEF Returned, vars, CallInv, CostInv, Answers, RequestsAreBounded
<1>9. CASE ToolRaises
  BY <1>9, BoundFromInv DEF ToolRaises, CostInv, RequestsAreBounded, Ended
<1> QED
  BY <1>2, <1>3, <1>5, <1>6, <1>7, <1>8, <1>9 DEF Next, Transport, Grounding

LEMMA CallInvariant == Spec => []CallInv
<1>1. CallInv /\ [Next]_vars => CallInv'
  <2>1. CASE Next
    BY <2>1, TypeStep, CountersStep, CostStep DEF CallInv
  <2>2. CASE UNCHANGED vars
    BY <2>2 DEF vars, CallInv, TypeOK, CountersInv, CostInv, Answers, RequestsAreBounded
  <2> QED
    BY <2>1, <2>2
<1> QED
  BY InitialCall, <1>1, PTL DEF Spec

\* Every variable keeps its type: in particular the loops stay within the
\* steps, the repairs and the retries of their settings.
THEOREM CallTypeCorrect == Spec => []TypeOK
<1>1. CallInv => TypeOK
  BY DEF CallInv
<1> QED
  BY <1>1, CallInvariant, PTL

\* A StructuredOutputError means that the model was heard and wrong MaxRepair + 1
\* times; an unreachable model is never taken for a wrong one.
THEOREM UnstructuredIsHonest == Spec => []UnstructuredMeansHeard
<1>1. CallInv => UnstructuredMeansHeard
  BY DEF CallInv, CountersInv, UnstructuredMeansHeard
<1> QED
  BY <1>1, CallInvariant, PTL

\* The three nested retry loops cost at most the product of their bounds.
THEOREM RequestsStayBounded == Spec => []RequestsAreBounded
<1>1. CallInv => RequestsAreBounded
  BY BoundFromInv
<1> QED
  BY <1>1, CallInvariant, PTL
-----------------------------------------------------------------------------
(***************************************************************************)
(* The conversation.  The request for an answer is well formed because at  *)
(* any time every answer of the model but the one being acted on has all   *)
(* its calls answered right behind it, and behind that one stand exactly   *)
(* the results of the calls already executed, the batch being the rest.    *)
(***************************************************************************)
\* The first d calls of the answer at i have their results, in order, behind it.
AnsweredTo(c, i, d) ==
  /\ i + d <= Len(c)
  /\ \A k \in 1..d : c[i + k] = Message("tool", <<c[i].calls[k]>>)

AllAnswered(c, i) == AnsweredTo(c, i, Len(c[i].calls))

\* The answer at i, of which the calls b are left and nothing else was said.
ActedOn(c, i, b) ==
  LET d == Len(c) - i
      n == Len(c[i].calls)
  IN /\ d + Len(b) = n
     /\ AnsweredTo(c, i, d)
     /\ \A k \in 1..Len(b) : b[k] = c[i].calls[d + k]

HasAsker(c, i) ==
  \E j \in 1..(i - 1) : c[j].role = "assistant" /\ i <= j + Len(c[j].calls)

ConversationInv ==
  /\ \A i \in DOMAIN convo : convo[i].role = "assistant" =>
        AllAnswered(convo, i) \/ (at \in {"acting", "raised"} /\ ActedOn(convo, i, batch))
  /\ \A i \in DOMAIN convo : convo[i].role = "tool" => HasAsker(convo, i)
  /\ at \in {"grounding", "emitting"} =>
        convo # <<>> /\ convo[Len(convo)].role \in {"user", "tool"}
  /\ at = "acting" =>
        \E i \in DOMAIN convo : /\ convo[i].role = "assistant"
                                /\ convo[i].calls # <<>>
                                /\ ActedOn(convo, i, batch)

\* A conversation that goes on from another one.
GoesOn(c, c2) == Len(c) <= Len(c2) /\ \A i \in DOMAIN c : c2[i] = c[i]

\* What was answered, and who asked, stays so when the conversation goes on.
LEMMA AnswersStay ==
  ASSUME NEW c \in Seq(Messages), NEW c2 \in Seq(Messages), GoesOn(c, c2),
         NEW i \in DOMAIN c
  PROVE  /\ i \in DOMAIN c2 /\ c2[i] = c[i]
         /\ \A d \in Nat : AnsweredTo(c, i, d) => AnsweredTo(c2, i, d)
         /\ AllAnswered(c, i) => AllAnswered(c2, i)
         /\ HasAsker(c, i) => HasAsker(c2, i)
<1> HIDE DEF Messages
<1>1. i \in DOMAIN c2 /\ c2[i] = c[i] /\ i \in 1..Len(c) /\ Len(c) \in Nat /\ Len(c2) \in Nat
      /\ DOMAIN c = 1..Len(c)
  BY DEF GoesOn
<1>2. ASSUME NEW d \in Nat, AnsweredTo(c, i, d) PROVE AnsweredTo(c2, i, d)
  <2>1. i + d <= Len(c2)
    BY <1>1, <1>2 DEF AnsweredTo, GoesOn
  <2>2. ASSUME NEW k \in 1..d PROVE c2[i + k] = Message("tool", <<c2[i].calls[k]>>)
    <3>1. i + k \in DOMAIN c
      BY <1>1, <1>2 DEF AnsweredTo
    <3>2. c2[i + k] = c[i + k]
      BY <3>1 DEF GoesOn
    <3> QED
      BY <1>1, <1>2, <3>2 DEF AnsweredTo
  <2> QED
    BY <2>1, <2>2 DEF AnsweredTo
<1>3. c[i].calls \in Seq(Names)
  <2>1. c[i] \in Messages
    OBVIOUS
  <2> QED
    BY <2>1 DEF Messages
<1>4. Len(c[i].calls) \in Nat
  BY <1>3
<1>5. AllAnswered(c, i) => AllAnswered(c2, i)
  BY <1>1, <1>2, <1>4 DEF AllAnswered
<1>6. HasAsker(c, i) => HasAsker(c2, i)
  <2> SUFFICES ASSUME NEW j \in 1..(i - 1), c[j].role = "assistant", i <= j + Len(c[j].calls)
               PROVE  HasAsker(c2, i)
    BY DEF HasAsker
  <2>1. j \in DOMAIN c
    BY <1>1
  <2>2. c2[j] = c[j]
    BY <2>1 DEF GoesOn
  <2> QED
    BY <2>2 DEF HasAsker
<1> QED
  BY <1>1, <1>2, <1>5, <1>6

\* One more message, and what stands where afterwards.
LEMMA OneMore ==
  ASSUME NEW c \in Seq(Messages), NEW m \in Messages
  PROVE  /\ Append(c, m) \in Seq(Messages)
         /\ GoesOn(c, Append(c, m))
         /\ Len(Append(c, m)) = Len(c) + 1
         /\ Append(c, m)[Len(c) + 1] = m
         /\ c \o <<m>> = Append(c, m)
<1> HIDE DEF Messages
<1>1. /\ Append(c, m) \in Seq(Messages)
      /\ Len(Append(c, m)) = Len(c) + 1
      /\ Append(c, m)[Len(c) + 1] = m
      /\ \A i \in 1..Len(c) : Append(c, m)[i] = c[i]
  BY AppendProperties
<1>2. Len(c) \in Nat /\ DOMAIN c = 1..Len(c)
  OBVIOUS
<1>3. GoesOn(c, Append(c, m))
  BY <1>1, <1>2 DEF GoesOn
<1>4. c \o <<m>> = Append(c, m)
  OBVIOUS
<1> QED
  BY <1>1, <1>3, <1>4

\* The messages of the calls, by their parts.
LEMMA MessageParts ==
  ASSUME NEW calls \in Seq(Names), NEW name \in Names
  PROVE  /\ Message("assistant", calls) \in Messages
         /\ Message("assistant", calls).role = "assistant"
         /\ Message("assistant", calls).calls = calls
         /\ EmitRequest \in Messages /\ EmitRequest.role = "user"
         /\ Message("tool", <<name>>) \in Messages
         /\ Message("tool", <<name>>).role = "tool"
BY DEF Message, Messages, EmitRequest
\* An answer without calls and the user's words after it.
LEMMA TwoMore ==
  ASSUME NEW c \in Seq(Messages), NEW u \in Messages
  PROVE  c \o <<Message("assistant", <<>>), u>>
           = Append(Append(c, Message("assistant", <<>>)), u)
<1> DEFINE a == Message("assistant", <<>>)
<1>1. a \in Messages
  BY DEF Message, Messages
<1> HIDE DEF Messages, a
<1>2. c \o <<a, u>> = Append(Append(c, a), u)
  BY <1>1
<1> QED
  BY <1>2 DEF a

LEMMA InitialConversation == Init => ConversationInv
<1> SUFFICES ASSUME Init PROVE ConversationInv
  OBVIOUS
<1>1. /\ convo = <<Message("system", <<>>), Message("user", <<>>)>> /\ at = "grounding"
      /\ Len(convo) = 2 /\ DOMAIN convo = 1..2
  BY DEF Init
<1>2. convo[1].role = "system" /\ convo[2].role = "user"
  BY <1>1 DEF Message
<1> QED
  BY <1>1, <1>2 DEF ConversationInv

\* Unless calls are left, every answer is followed by all its results.
LEMMA NothingOpen ==
  ASSUME TypeOK, ConversationInv, at \notin {"acting", "raised"} \/ batch = <<>>
  PROVE  \A i \in DOMAIN convo : convo[i].role = "assistant" => AllAnswered(convo, i)
<1> SUFFICES ASSUME NEW i \in DOMAIN convo, convo[i].role = "assistant"
             PROVE  AllAnswered(convo, i)
  OBVIOUS
<1>1. CASE AllAnswered(convo, i)
  BY <1>1
<1>2. CASE at \in {"acting", "raised"} /\ ActedOn(convo, i, batch)
  <2>1. Len(batch) = 0
    BY <1>2
  <2>2. Len(convo) - i = Len(convo[i].calls)
    <3>1. i \in Int /\ Len(convo) \in Int
      BY DEF TypeOK
    <3> QED
      BY <1>2, <2>1, <3>1 DEF ActedOn
  <2> QED
    BY <1>2, <2>2 DEF ActedOn, AllAnswered
<1> QED
  BY <1>1, <1>2 DEF ConversationInv

\* Words of the user, or an answer without calls, end a conversation in which
\* everything is answered, and keep it so.
LEMMA PlainWords ==
  ASSUME NEW c \in Seq(Messages), NEW m \in Messages,
         m.role = "user" \/ m = Message("assistant", <<>>),
         \A i \in DOMAIN c : /\ c[i].role = "assistant" => AllAnswered(c, i)
                             /\ c[i].role = "tool" => HasAsker(c, i)
  PROVE  LET c2 == Append(c, m)
         IN /\ \A i \in DOMAIN c2 : /\ c2[i].role = "assistant" => AllAnswered(c2, i)
                                    /\ c2[i].role = "tool" => HasAsker(c2, i)
            /\ c2 \in Seq(Messages) /\ c2 # <<>> /\ c2[Len(c2)] = m
<1> DEFINE c2 == Append(c, m)
<1>1. /\ c2 \in Seq(Messages) /\ GoesOn(c, c2)
      /\ Len(c2) = Len(c) + 1 /\ c2[Len(c) + 1] = m
  BY OneMore
<1>2. Len(c) \in Nat /\ DOMAIN c = 1..Len(c) /\ DOMAIN c2 = 1..(Len(c) + 1)
  BY <1>1
<1>3. c2 # <<>> /\ c2[Len(c2)] = m
  BY <1>1, <1>2
<1>4. m.role # "tool"
  BY DEF Message
<1>5. ASSUME m.role = "assistant" PROVE AllAnswered(c2, Len(c) + 1)
  <2>1. m.calls = <<>>
    BY <1>5 DEF Message
  <2>2. Len(c2[Len(c) + 1].calls) = 0
    BY <1>1, <2>1
  <2> QED
    BY <1>1, <1>2, <2>2 DEF AllAnswered, AnsweredTo
<1> HIDE DEF c2
<1>6. ASSUME NEW i \in DOMAIN c2
      PROVE  /\ c2[i].role = "assistant" => AllAnswered(c2, i)
             /\ c2[i].role = "tool" => HasAsker(c2, i)
  <2>1. CASE i = Len(c) + 1
    BY <1>1, <1>4, <1>5, <2>1
  <2>2. CASE i \in DOMAIN c
    BY <1>1, <2>2, AnswersStay
  <2> QED
    BY <1>2, <2>1, <2>2
<1> QED
  BY <1>1, <1>3, <1>6 DEF c2

LEMMA PlainStep ==
  ASSUME TypeOK, ConversationInv, StopGrounding \/ StepsDone \/ \E e \in Emissions : Repair(e)
  PROVE  ConversationInv'
<1> DEFINE a == Message("assistant", <<>>)
           Fine(c) == \A i \in DOMAIN c : /\ c[i].role = "assistant" => AllAnswered(c, i)
                                          /\ c[i].role = "tool" => HasAsker(c, i)
<1>1. at \in {"grounding", "emitting"} /\ at' = "emitting" /\ convo \in Seq(Messages)
  BY DEF StopGrounding, StepsDone, Repair, TypeOK
<1>2. Fine(convo)
  BY <1>1, NothingOpen DEF ConversationInv
<1>3. a \in Messages /\ EmitRequest \in Messages /\ EmitRequest.role = "user"
  BY DEF Message, Messages, EmitRequest
<1>4. Fine(Append(convo, a)) /\ Append(convo, a) \in Seq(Messages)
  BY <1>1, <1>2, <1>3, PlainWords
<1>5. PICK c \in {convo, Append(convo, a)} : convo' = Append(c, EmitRequest)
  BY <1>1, <1>3, TwoMore DEF StopGrounding, StepsDone, Repair, EmitRequest
<1>6. c \in Seq(Messages) /\ Fine(c)
  BY <1>1, <1>2, <1>4
<1>7. /\ Fine(convo') /\ convo' # <<>> /\ convo'[Len(convo')] = EmitRequest
  BY <1>3, <1>5, <1>6, PlainWords
<1> QED
  BY <1>1, <1>3, <1>7 DEF ConversationInv
\* The model calls tools: its answer is the one to act on.
LEMMA CallStep == ASSUME TypeOK, ConversationInv, CallTools PROVE ConversationInv'
<1> DEFINE m == Message("assistant", batch')
<1>1. at = "grounding" /\ at' = "acting" /\ convo' = Append(convo, m)
  BY DEF CallTools
<1>2. batch' \in Seq(Names) /\ batch' # <<>>
  BY BatchesAreSequences DEF CallTools
<1>3. m \in Messages /\ m.role = "assistant" /\ m.calls = batch'
  BY <1>2 DEF Message, Messages
<1>4. /\ convo \in Seq(Messages) /\ convo' \in Seq(Messages) /\ GoesOn(convo, convo')
      /\ Len(convo') = Len(convo) + 1 /\ convo'[Len(convo) + 1] = m
  BY <1>1, <1>3, OneMore DEF TypeOK
<1> HIDE DEF m
<1>5. Len(convo) \in Nat /\ DOMAIN convo = 1..Len(convo) /\ DOMAIN convo' = 1..(Len(convo) + 1)
  BY <1>4
<1>6. ActedOn(convo', Len(convo) + 1, batch')
  <2>1. Len(convo') - (Len(convo) + 1) = 0 /\ Len(batch') \in Nat
    BY <1>2, <1>4, <1>5
  <2> QED
    BY <1>2, <1>3, <1>4, <1>5, <2>1 DEF ActedOn, AnsweredTo
<1>7. ASSUME NEW i \in DOMAIN convo
      PROVE  /\ convo'[i].role = "assistant" => AllAnswered(convo', i)
             /\ convo'[i].role = "tool" => HasAsker(convo', i)
  BY <1>1, <1>4, AnswersStay, NothingOpen DEF ConversationInv
<1> QED
  BY <1>1, <1>2, <1>3, <1>4, <1>5, <1>6, <1>7 DEF ConversationInv

\* The next call is executed: the answer acted on has one result more.
LEMMA ExecuteStep == ASSUME TypeOK, ConversationInv, ExecuteTool PROVE ConversationInv'
<1> DEFINE b == batch
           m == Message("tool", <<Head(b)>>)
           L == Len(convo)
<1>1. /\ at = "acting" /\ at' = "acting" /\ b # <<>> /\ batch' = Tail(b)
      /\ b \in Seq(Names) /\ convo \in Seq(Messages)
  BY DEF ExecuteTool, TypeOK
<1>2. /\ Head(b) \in Names /\ Head(b) = b[1] /\ Len(b) \in Nat \ {0}
      /\ Len(batch') = Len(b) - 1 /\ \A k \in 1..Len(batch') : batch'[k] = b[k + 1]
  BY <1>1, HeadTailProperties
<1>3. m \in Messages /\ m.role = "tool"
  <2> DEFINE name == Head(b)
  <2>1. name \in Names
    BY <1>2
  <2> HIDE DEF name
  <2>2. Message("tool", <<name>>) \in Messages /\ Message("tool", <<name>>).role = "tool"
    BY <2>1 DEF Message, Messages
  <2> QED
    BY <2>2 DEF name
<1>4. convo' = convo \o <<m>>
  BY DEF ExecuteTool, Observed
<1> HIDE DEF m
<1>5. /\ convo' \in Seq(Messages) /\ GoesOn(convo, convo')
      /\ Len(convo') = L + 1 /\ convo'[L + 1] = m
  BY <1>1, <1>3, <1>4, OneMore
<1>6. L \in Nat /\ DOMAIN convo = 1..L /\ DOMAIN convo' = 1..(L + 1)
  BY <1>1, <1>5
<1>7. ASSUME NEW i \in DOMAIN convo, ActedOn(convo, i, b)
      PROVE  ActedOn(convo', i, batch') /\ L + 1 <= i + Len(convo[i].calls)
  <2> DEFINE d == L - i
             calls == convo[i].calls
  <2>1. /\ d \in Nat /\ d + Len(b) = Len(calls) /\ AnsweredTo(convo, i, d)
        /\ \A k \in 1..Len(b) : b[k] = calls[d + k]
    BY <1>6, <1>7 DEF ActedOn
  <2>2. calls = convo'[i].calls /\ AnsweredTo(convo', i, d)
    BY <1>1, <1>5, <2>1, AnswersStay
  <2>3. b[1] = calls[d + 1] /\ i + (d + 1) = L + 1 /\ d + 1 + Len(batch') = Len(calls)
    <3>1. 1 \in 1..Len(b)
      BY <1>2
    <3>2. b[1] = calls[d + 1]
      BY <2>1, <3>1
    <3>3. i \in Nat /\ i + (d + 1) = L + 1
      BY <1>6
    <3>4. \A x, y, z, n \in Nat : x = y - 1 /\ z + y = n => (z + 1) + x = n
      OBVIOUS
    <3>5. Len(batch') \in Nat /\ Len(calls) \in Nat
      BY <1>2, <2>1
    <3>6. (d + 1) + Len(batch') = Len(calls)
      BY <1>2, <2>1, <3>4, <3>5
    <3> QED
      BY <3>2, <3>3, <3>6
  <2>4. AnsweredTo(convo', i, d + 1)
    <3>1. convo'[i + (d + 1)] = Message("tool", <<calls[d + 1]>>)
      BY <1>2, <1>5, <2>3 DEF m
    <3>2. \A k \in 1..(d + 1) : k \in 1..d \/ k = d + 1
      BY <2>1
    <3>3. \A k \in 1..d : convo'[i + k] = Message("tool", <<convo'[i].calls[k]>>)
      BY <2>2 DEF AnsweredTo
    <3>4. \A k \in 1..(d + 1) : convo'[i + k] = Message("tool", <<convo'[i].calls[k]>>)
      BY <2>2, <3>1, <3>2, <3>3
    <3>5. i + (d + 1) <= Len(convo')
      BY <1>5, <1>6, <2>3
    <3> QED
      BY <3>4, <3>5 DEF AnsweredTo
  <2>5. \A k \in 1..Len(batch') : batch'[k] = calls[(d + 1) + k]
    <3> SUFFICES ASSUME NEW k \in 1..Len(batch') PROVE batch'[k] = calls[(d + 1) + k]
      OBVIOUS
    <3>1. k + 1 \in 1..Len(b) /\ d + (k + 1) = (d + 1) + k
      BY <1>2, <2>1
    <3> QED
      BY <1>2, <2>1, <3>1
  <2>6. Len(convo') - i = d + 1 /\ L + 1 <= i + Len(calls)
    BY <1>2, <1>5, <1>6, <2>1
  <2> QED
    BY <2>2, <2>3, <2>4, <2>5, <2>6 DEF ActedOn
<1>8. PICK i0 \in DOMAIN convo :
        convo[i0].role = "assistant" /\ convo[i0].calls # <<>> /\ ActedOn(convo, i0, b)
  BY <1>1 DEF ConversationInv
<1>9. /\ i0 \in DOMAIN convo' /\ convo'[i0] = convo[i0]
      /\ ActedOn(convo', i0, batch') /\ L + 1 <= i0 + Len(convo[i0].calls)
  BY <1>1, <1>5, <1>7, <1>8, AnswersStay
<1>10. HasAsker(convo', L + 1)
  <2>1. i0 \in 1..((L + 1) - 1)
    BY <1>6
  <2> QED
    BY <1>8, <1>9, <2>1 DEF HasAsker
<1>11. ASSUME NEW i \in DOMAIN convo
       PROVE  /\ convo'[i].role = "assistant" =>
                    AllAnswered(convo', i) \/ ActedOn(convo', i, batch')
              /\ convo'[i].role = "tool" => HasAsker(convo', i)
  BY <1>1, <1>5, <1>7, AnswersStay DEF ConversationInv
<1> QED
  BY <1>1, <1>3, <1>5, <1>6, <1>8, <1>9, <1>10, <1>11 DEF ConversationInv

\* The last call is done: everything is answered and the last word is a result.
LEMMA BatchStep == ASSUME TypeOK, ConversationInv, BatchDone PROVE ConversationInv'
<1>1. at = "acting" /\ batch = <<>> /\ at' = "grounding" /\ convo' = convo
  BY DEF BatchDone
<1>2. convo \in Seq(Messages) /\ Len(convo) \in Nat
  BY DEF TypeOK
<1>3. PICK i \in DOMAIN convo :
        convo[i].role = "assistant" /\ convo[i].calls # <<>> /\ ActedOn(convo, i, batch)
  BY <1>1 DEF ConversationInv
<1> DEFINE n == Len(convo[i].calls)
<1>4. n \in Nat \ {0}
  <2>1. convo[i] \in Messages
    BY <1>2
  <2>2. convo[i].calls \in Seq(Names)
    BY <2>1 DEF Messages
  <2> QED
    BY <1>3, <2>2
<1>5. Len(convo) - i = n /\ AnsweredTo(convo, i, n)
  <2>1. Len(batch) = 0 /\ i \in Int
    BY <1>1, <1>2
  <2> HIDE DEF n
  <2>2. Len(convo) - i + 0 = n /\ AnsweredTo(convo, i, Len(convo) - i)
    BY <1>3, <2>1 DEF ActedOn, n
  <2> QED
    BY <1>2, <2>1, <2>2
<1>6. convo[i + n] = Message("tool", <<convo[i].calls[n]>>) /\ i + n = Len(convo)
  <2>1. n \in 1..n /\ i \in Int
    BY <1>2, <1>4
  <2> HIDE DEF n
  <2>2. \A k \in 1..n : convo[i + k] = Message("tool", <<convo[i].calls[k]>>)
    BY <1>5 DEF AnsweredTo
  <2>3. convo[i + n] = Message("tool", <<convo[i].calls[n]>>)
    BY <2>1, <2>2
  <2>4. i + n = Len(convo)
    BY <1>2, <1>4, <1>5, <2>1
  <2> QED
    BY <2>3, <2>4
<1>7. convo # <<>> /\ convo[Len(convo)].role = "tool"
  BY <1>2, <1>3, <1>6 DEF Message
<1> QED
  BY <1>1, <1>7, NothingOpen DEF ConversationInv

LEMMA ConversationStep == ASSUME TypeOK, ConversationInv, Next PROVE ConversationInv'
<1>1. CASE StopGrounding \/ StepsDone \/ \E e \in Emissions : Repair(e)
  BY <1>1, PlainStep
<1>2. CASE CallTools
  BY <1>2, CallStep
<1>3. CASE ExecuteTool
  BY <1>3, ExecuteStep
<1>4. CASE BatchDone
  BY <1>4, BatchStep
<1>5. ASSUME UNCHANGED <<convo, batch>>, at' = at \/ at' \in Ended,
             Asks \/ at \in Ended \/ at' = "raised", at = "raised" => at' = "raised"
      PROVE  ConversationInv'
  BY <1>5 DEF ConversationInv, Ended, Asks
<1>6. CASE Transport \/ ToolRaises \/ Returned \/ \E e \in Emissions : EmissionFits(e) \/ GiveUp(e)
  BY <1>5, <1>6
  DEF Transport, RequestFails, ProviderGivesUp, AnswerIsMalformed, GivesUpAs, Ended,
      ToolRaises, EmissionFits, GiveUp, Returned, vars, Asks
<1> QED
  BY <1>1, <1>2, <1>3, <1>4, <1>6 DEF Next, Grounding, Structured

\* Every request the model gets is a conversation it can follow: every call of
\* every answer, refused ones too, is answered in order before anything else is
\* said, whatever tools the model names and however often it repairs.
THEOREM ConversationWellFormed == Spec => []ConversationIsWellFormed
<1>1. TypeOK /\ ConversationInv => ConversationIsWellFormed
  <2> SUFFICES ASSUME TypeOK, ConversationInv, Asks PROVE ConversationIsWellFormed
    BY DEF ConversationIsWellFormed
  <2>1. at \in {"grounding", "emitting"}
    BY DEF Asks
  <2>2. convo[Len(convo)].role \in {"user", "tool"}
    BY <2>1 DEF ConversationInv
  <2>3. \A i \in DOMAIN convo : /\ convo[i].role = "assistant" => AllAnswered(convo, i)
                                /\ convo[i].role = "tool" => HasAsker(convo, i)
    BY <2>1, NothingOpen DEF ConversationInv
  <2> QED
    BY <2>2, <2>3 DEF ConversationIsWellFormed, AllAnswered, AnsweredTo, HasAsker
<1>2. TypeOK /\ ConversationInv /\ [Next]_vars => ConversationInv'
  <2>1. CASE UNCHANGED vars
    BY <2>1 DEF vars, ConversationInv
  <2> QED
    BY <2>1, ConversationStep
<1> QED
  BY <1>1, <1>2, InitialConversation, CallTypeCorrect, PTL DEF Spec
=============================================================================
