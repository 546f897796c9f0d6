--------------------------- MODULE EvalSuiteProofs ---------------------------
(***************************************************************************)
(* Theorems about the evaluation harness, for any suite of distinct        *)
(* categories, any number of cases, streams and outages, and any sequence  *)
(* of invocations: what is left of a task always ends with the clearing of *)
(* the tables it may have written, and the gate compares what was measured.*)
(***************************************************************************)
EXTENDS EvalSuite, SequenceTheorems, FiniteSetTheorems, TLAPS

Work == {"index", "evaluate", "graph", "answer"}
StageNames == Work \cup Tables \cup {"report"}

\* What is left of a task: work first, then clearing, which no work goes
\* without and which begins with the chunks, and the report at the end.
WellStaged(s) ==
  /\ s \in Seq(StageNames)
  /\ s # <<>> => /\ \A i \in DOMAIN s : s[i] = "report" <=> i = Len(s)
                 /\ \A i, j \in DOMAIN s : i < j /\ s[j] \in Work => s[i] \in Work
                 /\ Range(s) \cap Work # {} => Tables \subseteq Range(s)
                 /\ \A i, j \in DOMAIN s : i < j /\ s[j] = "chunks" => s[i] \in Work

\* A sequence is its first element and its rest.
LEMMA HeadAndRest ==
  ASSUME NEW S, NEW s \in Seq(S), s # <<>>
  PROVE  /\ Tail(s) \in Seq(S) /\ Len(s) \in Nat \ {0}
         /\ Len(Tail(s)) = Len(s) - 1 /\ DOMAIN s = 1..Len(s) /\ DOMAIN Tail(s) = 1..(Len(s) - 1)
         /\ Head(s) = s[1] /\ Head(s) \in S
         /\ \A i \in 1..(Len(s) - 1) : Tail(s)[i] = s[i + 1]
         /\ Range(s) = {Head(s)} \cup Range(Tail(s))
<1>1. /\ Tail(s) \in Seq(S) /\ Len(s) \in Nat \ {0}
      /\ Len(Tail(s)) = Len(s) - 1
      /\ Head(s) = s[1] /\ Head(s) \in S
      /\ \A i \in 1..(Len(s) - 1) : Tail(s)[i] = s[i + 1]
  BY HeadTailProperties
<1>2. DOMAIN s = 1..Len(s) /\ DOMAIN Tail(s) = 1..(Len(s) - 1)
  BY <1>1
<1>3. ASSUME NEW x \in Range(s) PROVE x \in {Head(s)} \cup Range(Tail(s))
  <2>1. PICK i \in DOMAIN s : x = s[i]
    BY DEF Range
  <2>2. CASE i = 1
    BY <1>1, <2>1, <2>2
  <2>3. CASE i # 1
    <3>1. i - 1 \in 1..(Len(s) - 1) /\ (i - 1) + 1 = i
      BY <1>1, <1>2, <2>3
    <3>2. x = Tail(s)[i - 1]
      BY <1>1, <2>1, <3>1
    <3> QED
      BY <1>2, <3>1, <3>2 DEF Range
  <2> QED
    BY <2>2, <2>3
<1>4. ASSUME NEW x \in {Head(s)} \cup Range(Tail(s)) PROVE x \in Range(s)
  <2>1. CASE x = Head(s)
    BY <1>1, <1>2, <2>1 DEF Range
  <2>2. CASE x \in Range(Tail(s))
    <3>1. PICK i \in DOMAIN Tail(s) : x = Tail(s)[i]
      BY <2>2 DEF Range
    <3>2. x = s[i + 1] /\ i + 1 \in DOMAIN s
      BY <1>1, <1>2, <3>1
    <3> QED
      BY <3>2 DEF Range
  <2> QED
    BY <2>1, <2>2
<1> QED
  BY <1>1, <1>2, <1>3, <1>4

\* What a step of a task leaves, by what it was.
LEMMA StepsOfATask ==
  ASSUME NEW s, WellStaged(s), s # <<>>
  PROVE  /\ WellStaged(Tail(s))
         /\ Head(s) # "report" => Tail(s) # <<>>
         /\ Head(s) = "report" => Range(s) = {"report"} /\ Tail(s) = <<>>
         /\ Head(s) \in Work => /\ Tables \subseteq Range(Tail(s))
                                /\ \A w \in Work : /\ WellStaged(<<w>> \o Tail(s))
                                                   /\ Range(<<w>> \o Tail(s)) = {w} \cup Range(Tail(s))
         /\ Head(s) \in Tables => Range(s) \cap Work = {} /\ "chunks" \notin Range(Tail(s))
<1> DEFINE t == Tail(s)
           n == Len(s)
<1>0. s \in Seq(StageNames)
  BY DEF WellStaged
<1>1. /\ t \in Seq(StageNames) /\ n \in Nat \ {0}
      /\ Len(t) = n - 1 /\ DOMAIN s = 1..n /\ DOMAIN t = 1..(n - 1)
      /\ Head(s) = s[1] /\ Head(s) \in StageNames
      /\ \A i \in 1..(n - 1) : t[i] = s[i + 1]
      /\ Range(s) = {Head(s)} \cup Range(t)
  BY <1>0, HeadAndRest
<1>2. /\ \A i \in 1..n : s[i] = "report" <=> i = n
      /\ \A i, j \in 1..n : i < j /\ s[j] \in Work => s[i] \in Work
      /\ Range(s) \cap Work # {} => Tables \subseteq Range(s)
      /\ \A i, j \in 1..n : i < j /\ s[j] = "chunks" => s[i] \in Work
  BY <1>1 DEF WellStaged
<1> HIDE DEF t
<1>3. Head(s) \in Work \/ Head(s) \in Tables => Head(s) # "report"
  BY DEF Work, Tables
<1>4. Head(s) # "report" => t # <<>>
  <2> SUFFICES ASSUME Head(s) # "report" PROVE t # <<>>
    OBVIOUS
  <2>1. n # 1
    BY <1>1, <1>2
  <2>2. Len(t) # 0
    BY <1>1, <2>1
  <2> QED
    BY <2>2
<1>5. Head(s) = "report" => Range(s) = {"report"} /\ t = <<>>
  <2> SUFFICES ASSUME Head(s) = "report" PROVE Range(s) = {"report"} /\ t = <<>>
    OBVIOUS
  <2>1. n = 1
    BY <1>1, <1>2
  <2>2. t = <<>>
    BY <1>1, <2>1
  <2>3. Range(t) = {}
    BY <2>2 DEF Range
  <2> QED
    BY <1>1, <2>2, <2>3
<1>6. Head(s) \in Tables => Range(s) \cap Work = {}
  <2> SUFFICES ASSUME Head(s) \in Tables, NEW i \in 1..n, s[i] \in Work PROVE FALSE
    BY <1>1 DEF Range
  <2>1. s[1] \notin Work
    BY <1>1 DEF Tables, Work
  <2> QED
    BY <1>1, <1>2, <2>1
<1>6a. Head(s) \in Tables => "chunks" \notin Range(t)
  <2> SUFFICES ASSUME Head(s) \in Tables, NEW i \in 1..(n - 1), t[i] = "chunks" PROVE FALSE
    BY <1>1 DEF Range
  <2>1. s[1] \notin Work
    BY <1>1 DEF Tables, Work
  <2>2. 1 \in 1..n /\ i + 1 \in 1..n /\ 1 < i + 1 /\ s[i + 1] = "chunks"
    BY <1>1
  <2> QED
    BY <1>2, <2>1, <2>2
<1>7. Head(s) \in Work => Tables \subseteq Range(t)
  <2> SUFFICES ASSUME Head(s) \in Work PROVE Tables \subseteq Range(t)
    OBVIOUS
  <2>1. Tables \subseteq Range(s)
    BY <1>1, <1>2
  <2> QED
    BY <1>1, <2>1 DEF Tables, Work
<1>8. WellStaged(t)
  <2> SUFFICES ASSUME t # <<>> PROVE WellStaged(t)
    BY <1>1 DEF WellStaged
  <2>1. \A i \in DOMAIN t : t[i] = "report" <=> i = Len(t)
    BY <1>1, <1>2
  <2>2. \A i, j \in DOMAIN t : i < j /\ t[j] \in Work => t[i] \in Work
    BY <1>1, <1>2
  <2>3. ASSUME Range(t) \cap Work # {} PROVE Tables \subseteq Range(t)
    <3>1. PICK j \in DOMAIN t : t[j] \in Work
      BY <2>3 DEF Range
    <3>2. s[1] \in Work
      BY <1>1, <1>2, <3>1
    <3> QED
      BY <1>1, <1>7, <3>2
  <2>4. \A i, j \in DOMAIN t : i < j /\ t[j] = "chunks" => t[i] \in Work
    BY <1>1, <1>2
  <2> QED
    BY <1>1, <2>1, <2>2, <2>3, <2>4 DEF WellStaged
<1>9. ASSUME Head(s) \in Work, NEW w \in Work
      PROVE  WellStaged(<<w>> \o t) /\ Range(<<w>> \o t) = {w} \cup Range(t)
  <2> DEFINE u == <<w>> \o t
  <2>1. /\ u \in Seq(StageNames) /\ Len(u) = n /\ DOMAIN u = 1..n /\ u[1] = w
        /\ \A i \in 2..n : u[i] = s[i]
    <3>1. w \in StageNames /\ <<w>> \in Seq(StageNames) /\ Len(<<w>>) = 1 /\ <<w>>[1] = w
      BY DEF StageNames
    <3>2. /\ u \in Seq(StageNames) /\ Len(u) = 1 + Len(t)
          /\ \A i \in 1..(1 + Len(t)) : u[i] = IF i <= 1 THEN <<w>>[i] ELSE t[i - 1]
      BY <1>1, <3>1, ConcatProperties
    <3>3. Len(u) = n /\ u[1] = w /\ DOMAIN u = 1..n
      BY <1>1, <3>1, <3>2
    <3>4. ASSUME NEW i \in 2..n PROVE u[i] = s[i]
      <4>1. i \in 1..(1 + Len(t)) /\ ~(i <= 1) /\ i - 1 \in 1..(n - 1) /\ (i - 1) + 1 = i
        BY <1>1
      <4> QED
        BY <1>1, <3>2, <4>1
    <3> QED
      BY <3>2, <3>3, <3>4
  <2>2. n > 1
    BY <1>1, <1>2, <1>3, <1>9
  <2> HIDE DEF u
  <2>3. \A i \in DOMAIN u : u[i] = "report" <=> i = Len(u)
    <3> SUFFICES ASSUME NEW i \in 1..n PROVE u[i] = "report" <=> i = n
      BY <2>1
    <3>1. CASE i = 1
      BY <2>1, <2>2, <3>1 DEF Work
    <3>2. CASE i \in 2..n
      BY <1>2, <2>1, <3>2
    <3> QED
      BY <1>1, <3>1, <3>2
  <2>4. \A i, j \in DOMAIN u : i < j /\ u[j] \in Work => u[i] \in Work
    BY <1>1, <1>2, <2>1
  <2>4a. \A i, j \in DOMAIN u : i < j /\ u[j] = "chunks" => u[i] \in Work
    <3> SUFFICES ASSUME NEW i \in 1..n, NEW j \in 1..n, i < j, u[j] = "chunks"
                 PROVE  u[i] \in Work
      BY <2>1
    <3>1. j \in 2..n /\ s[j] = "chunks"
      BY <1>1, <2>1
    <3> QED
      BY <1>1, <1>2, <2>1, <3>1
  <2>5. Range(t) \subseteq Range(u)
    <3> SUFFICES ASSUME NEW i \in 1..(n - 1) PROVE t[i] \in Range(u)
      BY <1>1 DEF Range
    <3>1. i + 1 \in 2..n /\ i + 1 \in DOMAIN u
      BY <1>1, <2>1
    <3>2. t[i] = u[i + 1]
      BY <1>1, <2>1, <3>1
    <3> QED
      BY <3>1, <3>2 DEF Range
  <2>6. WellStaged(u)
    BY <1>7, <1>9, <2>1, <2>3, <2>4, <2>4a, <2>5 DEF WellStaged
  <2>7. Range(u) \subseteq {w} \cup Range(t)
    <3> SUFFICES ASSUME NEW i \in 2..n PROVE u[i] \in Range(t)
      BY <1>1, <2>1 DEF Range
    <3>1. i - 1 \in 1..(n - 1) /\ (i - 1) + 1 = i
      BY <1>1
    <3>2. u[i] = t[i - 1]
      BY <1>1, <2>1, <3>1
    <3> QED
      BY <1>1, <3>1, <3>2 DEF Range
  <2>8. w \in Range(u)
    BY <1>1, <2>1 DEF Range
  <2> QED
    BY <2>5, <2>6, <2>7, <2>8 DEF u
<1> QED
  BY <1>4, <1>5, <1>6, <1>6a, <1>7, <1>8, <1>9 DEF t
\* Work, then the clearing and the report: what a task begins with, and what an
\* exception leaves of it.
LEMMA PlannedIsWellStaged ==
  ASSUME NEW w \in Seq(Work)
  PROVE  LET s == Append(w \o Clearing, "report")
         IN /\ WellStaged(s) /\ s # <<>> /\ Tables \subseteq Range(s)
            /\ \A x \in Work : x \in Range(s) <=> \E i \in DOMAIN w : x = w[i]
<1> DEFINE c == Clearing
           v == w \o c
           s == Append(v, "report")
           m == Len(w)
<1>1. /\ c \in Seq(StageNames) /\ Len(c) = 3
      /\ c[1] = "chunks" /\ c[2] = "facts" /\ c[3] = "records"
  BY DEF Clearing, StageNames, Tables
<1>2. w \in Seq(StageNames) /\ m \in Nat /\ \A i \in 1..m : w[i] \in Work
  BY DEF StageNames
<1> HIDE DEF c
<1>3. /\ v \in Seq(StageNames) /\ Len(v) = m + 3
      /\ \A i \in 1..(m + 3) : v[i] = IF i <= m THEN w[i] ELSE c[i - m]
  <2>1. /\ v \in Seq(StageNames) /\ Len(v) = m + Len(c)
        /\ \A i \in 1..(m + Len(c)) : v[i] = IF i <= m THEN w[i] ELSE c[i - m]
    BY <1>1, <1>2, ConcatProperties
  <2> QED
    BY <1>1, <2>1
<1> HIDE DEF v
<1>4. /\ s \in Seq(StageNames) /\ Len(s) = m + 4
      /\ s[m + 4] = "report" /\ \A i \in 1..(m + 3) : s[i] = v[i]
  <2>1. "report" \in StageNames
    BY DEF StageNames
  <2>2. /\ s \in Seq(StageNames) /\ Len(s) = Len(v) + 1
        /\ \A i \in 1..Len(v) : s[i] = v[i]
        /\ s[Len(v) + 1] = "report"
    BY <1>3, <2>1, AppendProperties
  <2> QED
    BY <1>2, <1>3, <2>2
<1> HIDE DEF s, m
<1>5. DOMAIN s = 1..(m + 4) /\ s # <<>>
  BY <1>2, <1>4
<1>6. \A i \in 1..m : s[i] = w[i] /\ s[i] \in Work
  <2> SUFFICES ASSUME NEW i \in 1..m PROVE s[i] = w[i]
    BY <1>2
  <2>1. i \in 1..(m + 3) /\ i <= m
    BY <1>2
  <2> QED
    BY <1>3, <1>4, <2>1
<1>7. s[m + 1] = "chunks" /\ s[m + 2] = "facts" /\ s[m + 3] = "records"
  <2>1. \A k \in 1..3 : m + k \in 1..(m + 3) /\ ~(m + k <= m) /\ (m + k) - m = k
    BY <1>2
  <2>2. \A k \in 1..3 : s[m + k] = c[k]
    BY <1>3, <1>4, <2>1
  <2> QED
    BY <1>1, <2>2
<1>8. \A i \in 1..(m + 4) : i \in 1..m \/ i = m + 1 \/ i = m + 2 \/ i = m + 3 \/ i = m + 4
  BY <1>2
<1>9. \A i \in DOMAIN s : s[i] \in Work => i \in 1..m
  BY <1>4, <1>5, <1>7, <1>8 DEF Work
<1>10. \A i \in DOMAIN s : s[i] = "report" <=> i = Len(s)
  <2> SUFFICES ASSUME NEW i \in 1..(m + 4) PROVE s[i] = "report" <=> i = m + 4
    BY <1>4, <1>5
  <2>1. CASE i \in 1..m
    BY <1>2, <1>6, <2>1 DEF Work
  <2>2. CASE i = m + 1 \/ i = m + 2 \/ i = m + 3 \/ i = m + 4
    BY <1>2, <1>4, <1>7, <2>2
  <2> QED
    BY <1>8, <2>1, <2>2
<1>11. \A i, j \in DOMAIN s : i < j /\ s[j] \in Work => s[i] \in Work
  <2> SUFFICES ASSUME NEW i \in 1..(m + 4), NEW j \in 1..(m + 4), i < j, s[j] \in Work
               PROVE  s[i] \in Work
    BY <1>5
  <2>1. i \in 1..m
    BY <1>2, <1>5, <1>9
  <2> QED
    BY <1>6, <2>1
<1>12. Tables \subseteq Range(s)
  <2>1. m + 1 \in DOMAIN s /\ m + 2 \in DOMAIN s /\ m + 3 \in DOMAIN s
    BY <1>2, <1>5
  <2> QED
    BY <1>7, <2>1 DEF Range, Tables
<1>13. \A x \in Work : x \in Range(s) <=> \E i \in DOMAIN w : x = w[i]
  <2>1. DOMAIN w = 1..m /\ 1..m \subseteq DOMAIN s
    BY <1>2, <1>5 DEF m
  <2> QED
    BY <1>5, <1>6, <1>9, <2>1 DEF Range
<1>14. \A i, j \in DOMAIN s : i < j /\ s[j] = "chunks" => s[i] \in Work
  <2> SUFFICES ASSUME NEW i \in 1..(m + 4), NEW j \in 1..(m + 4), i < j, s[j] = "chunks"
               PROVE  s[i] \in Work
    BY <1>5
  <2>1. j \in 1..m \/ j = m + 1
    BY <1>4, <1>7, <1>8
  <2>2. i \in 1..m
    BY <1>2, <2>1
  <2> QED
    BY <1>6, <2>2
<1>15. WellStaged(s)
  BY <1>4, <1>10, <1>11, <1>12, <1>14 DEF WellStaged
<1> QED
  BY <1>5, <1>12, <1>13, <1>15 DEF s, v, c

LEMMA ClearingIsWellStaged ==
  /\ WellStaged(AfterError) /\ AfterError # <<>> /\ Range(AfterError) \cap Work = {}
  /\ Tables \subseteq Range(AfterError)
  /\ WellStaged(<<"report">>) /\ Range(<<"report">>) = {"report"}
  /\ WellStaged(<<>>)
<1>1. <<>> \o Clearing = Clearing /\ <<>> \in Seq(Work)
  BY DEF Clearing
<1>2. Append(<<>> \o Clearing, "report") = AfterError
  BY <1>1 DEF AfterError
<1>3. /\ WellStaged(AfterError) /\ AfterError # <<>>
      /\ Tables \subseteq Range(AfterError)
      /\ \A x \in Work : x \in Range(AfterError) <=> \E i \in DOMAIN <<>> : x = <<>>[i]
  <2> DEFINE w == <<>>
  <2>1. w \in Seq(Work)
    BY <1>1
  <2>2. Append(w \o Clearing, "report") = AfterError
    BY <1>2
  <2> HIDE DEF w
  <2>3. /\ WellStaged(AfterError) /\ AfterError # <<>>
        /\ Tables \subseteq Range(AfterError)
        /\ \A x \in Work : x \in Range(AfterError) <=> \E i \in DOMAIN w : x = w[i]
    BY <2>1, <2>2, PlannedIsWellStaged
  <2> QED
    BY <2>3 DEF w
<1>4. Range(<<"report">>) = {"report"}
  BY DEF Range
<1>5. WellStaged(<<"report">>)
  BY <1>4 DEF WellStaged, StageNames, Work, Tables
<1>6. WellStaged(<<>>)
  BY DEF WellStaged
<1>7. Range(AfterError) \cap Work = {}
  <2>1. DOMAIN <<>> = {}
    OBVIOUS
  <2> QED
    BY <1>3, <2>1
<1> QED
  BY <1>3, <1>4, <1>5, <1>6, <1>7

\* What a task begins with; only the retrieval task evaluates.
LEMMA TasksAreWellStaged ==
  ASSUME NEW task \in Categories
  PROVE  LET s == Append(Stages(task) \o Clearing, "report")
         IN /\ WellStaged(s) /\ s # <<>>
            /\ "evaluate" \in Range(s) <=> task = "retrieval"
<1> DEFINE s == Append(Stages(task) \o Clearing, "report")
<1>1. Stages(task) \in Seq(Work)
  <2>1. \A a, b \in Work : <<a>> \in Seq(Work) /\ <<a, b>> \in Seq(Work)
    OBVIOUS
  <2> QED
    BY <2>1 DEF Stages, Work
<1>2. /\ WellStaged(s) /\ s # <<>>
      /\ "evaluate" \in Range(s) <=> \E i \in DOMAIN Stages(task) : "evaluate" = Stages(task)[i]
  BY <1>1, PlannedIsWellStaged DEF Work
<1>3. (\E i \in DOMAIN Stages(task) : "evaluate" = Stages(task)[i]) <=> task = "retrieval"
  <2>1. CASE task = "retrieval"
    <3>1. Stages(task) = <<"index", "evaluate">>
      BY <2>1 DEF Stages
    <3> QED
      BY <2>1, <3>1
  <2>2. CASE task # "retrieval"
    <3>1. Stages(task) \in {<<"graph", "graph">>, <<"graph">>, <<"index", "graph">>}
      BY <2>2 DEF Stages
    <3> QED
      BY <2>2, <3>1
  <2> QED
    BY <2>1, <2>2
<1> QED
  BY <1>2, <1>3-----------------------------------------------------------------------------
(***************************************************************************)
(* The inductive invariant.                                                *)
(***************************************************************************)
\* The tasks of an invocation are distinct, and a reported one does not come back.
QueueInv ==
  /\ queue \in Seq(Categories) /\ IsInjective(queue)
  /\ reports \in Seq([category : Categories, error : BOOLEAN,
                      precision : {NoData, <<hits, Cases>>}])
  /\ \A i \in DOMAIN reports : reports[i].category \notin Range(queue)
  /\ \A i, j \in DOMAIN reports : reports[i].category = reports[j].category => i = j

\* A task in progress is the first of the queue, and reports under its category.
StageInv ==
  /\ WellStaged(stage)
  /\ stage # <<>> => /\ exit = NoExit
                     /\ queue # <<>> /\ report.category = Head(queue)
  /\ "evaluate" \in Range(stage) => report.category = "retrieval"

\* What has been measured, once there is nothing left to evaluate.
MeasureInv ==
  /\ hits \in 0..Cases
  /\ report \in [category : Categories, error : BOOLEAN, precision : {NoData, <<hits, Cases>>}]
  /\ stage # <<>> =>
        /\ report.category # "retrieval" => report.precision = NoData
        /\ report.category = "retrieval" /\ ~report.error /\ "evaluate" \notin Range(stage) =>
              report.precision = <<hits, Cases>>
  /\ \A i \in DOMAIN reports :
        reports[i].precision = IF reports[i].category = "retrieval" /\ ~reports[i].error
                               THEN <<hits, Cases>> ELSE NoData

\* The invocation found a table missing that is cleared before the records.
Early == lacked \cap {"chunks", "facts"} # {}

\* While the database has not failed, the chunks of a task are still to be cleared;
\* its records are too, unless a table before theirs is missing.
RowsInv ==
  /\ left \subseteq {"chunks", "records"} /\ left \subseteq schema
  /\ Tables \ schema \subseteq lacked
  /\ outages \in Nat
  /\ outages = 0 =>
        /\ leaks \subseteq {"records"} /\ (leaks # {} => Early)
        /\ stage # <<>> => /\ "chunks" \in left => "chunks" \in Range(stage)
                           /\ "records" \in left => "records" \in Range(stage) \/ Early
                           /\ down => left = {}

SuiteInv == QueueInv /\ StageInv /\ MeasureInv /\ RowsInv

LEMMA InitialSuite == Init => SuiteInv
<1> SUFFICES ASSUME Init PROVE SuiteInv
  OBVIOUS
<1>1. QueueInv
  BY DEF Init, QueueInv, IsInjective, Range
<1>2. StageInv
  <2>1. Range(stage) = {}
    BY DEF Init, Range
  <2> QED
    BY <2>1, ClearingIsWellStaged DEF Init, StageInv
<1>3. MeasureInv
  BY DEF Init, MeasureInv, Blank, Categories
<1>4. RowsInv
  BY DEF Init, RowsInv
<1> QED
  BY <1>1, <1>2, <1>3, <1>4 DEF SuiteInv

\* What a command selects is distinct tasks of the suite.
LEMMA SelectedIsDistinct ==
  ASSUME NEW category
  PROVE  Selected(category) \in Seq(Categories) /\ IsInjective(Selected(category))
<1>1. Suite \in Seq(Categories) /\ IsInjective(Suite)
  BY EvalAssumption
<1>2. IsInjective(<<>>) /\ IsInjective(<<category>>)
  BY DEF IsInjective
<1>3. category \in Range(Suite) => <<category>> \in Seq(Categories)
  BY <1>1 DEF Range
<1> QED
  BY <1>1, <1>2, <1>3 DEF Selected

\* The first task leaves the queue for good.
LEMMA FirstLeaves ==
  ASSUME NEW q \in Seq(Categories), IsInjective(q), q # <<>>
  PROVE  /\ Tail(q) \in Seq(Categories) /\ IsInjective(Tail(q))
         /\ Head(q) \in Range(q) /\ Head(q) \in Categories
         /\ Head(q) \notin Range(Tail(q)) /\ Range(Tail(q)) \subseteq Range(q)
<1> HIDE DEF Categories
<1>1. /\ Tail(q) \in Seq(Categories) /\ Len(q) \in Nat \ {0}
      /\ DOMAIN q = 1..Len(q) /\ DOMAIN Tail(q) = 1..(Len(q) - 1)
      /\ Head(q) = q[1] /\ Head(q) \in Categories
      /\ \A i \in 1..(Len(q) - 1) : Tail(q)[i] = q[i + 1]
      /\ Range(q) = {Head(q)} \cup Range(Tail(q))
  BY HeadAndRest
<1>2. IsInjective(Tail(q))
  <2> SUFFICES ASSUME NEW i \in DOMAIN Tail(q), NEW j \in DOMAIN Tail(q), Tail(q)[i] = Tail(q)[j]
               PROVE  i = j
    BY DEF IsInjective
  <2>1. i + 1 \in DOMAIN q /\ j + 1 \in DOMAIN q /\ q[i + 1] = q[j + 1]
    BY <1>1
  <2>2. i + 1 = j + 1
    BY <2>1 DEF IsInjective
  <2> QED
    BY <1>1, <2>2
<1>3. ASSUME Head(q) \in Range(Tail(q)) PROVE FALSE
  <2>1. PICK i \in DOMAIN Tail(q) : q[1] = Tail(q)[i]
    BY <1>1, <1>3 DEF Range
  <2>2. i + 1 \in DOMAIN q /\ 1 \in DOMAIN q /\ q[i + 1] = q[1]
    BY <1>1, <2>1
  <2>3. i + 1 = 1
    BY <2>2 DEF IsInjective
  <2> QED
    BY <1>1, <2>3
<1> QED
  BY <1>1, <1>2, <1>3

\* A step of a task's work: it may write, to a table it makes sure of first.
Writes ==
  \/ UNCHANGED <<schema, left>>
  \/ /\ ~down
     /\ \E t \in {"chunks", "records"} :
          schema' = schema \cup {t} /\ left' \in {left, left \cup {t}}

\* What a step writes is still to be cleared, when all the tables are.
LEMMA WritesKeepRows ==
  ASSUME RowsInv, Writes, UNCHANGED <<db, leaks>>, stage # <<>>,
         Tables \subseteq Range(stage')
  PROVE  RowsInv'
<1>1. /\ left' \subseteq {"chunks", "records"} /\ left' \subseteq schema'
      /\ Tables \ schema' \subseteq lacked' /\ Early' = Early
      /\ outages' = outages /\ leaks' = leaks /\ down' = down
      /\ down => left' = left
  BY DEF RowsInv, Writes, db, Early
<1>2. "chunks" \in Range(stage') /\ "records" \in Range(stage')
  BY DEF Tables
<1> QED
  BY <1>1, <1>2 DEF RowsInv

\* The first thing left of the task in progress is done: its rest is left, after
\* a question or its answer at most, and what was not written stays unwritten.
LEMMA ForwardStep ==
  ASSUME SuiteInv, stage # <<>>, Head(stage) \in Work,
         UNCHANGED <<suite, db, world>>,
         \/ Forward
         \/ \E w \in Work \ {"evaluate"} : stage' = <<w>> \o Tail(stage),
         \/ report' = report /\ Head(stage) # "evaluate"
         \/ report' = [report EXCEPT !.precision = <<hits, Cases>>] /\ Head(stage) = "evaluate",
         Writes
  PROVE  SuiteInv'
<1> DEFINE rest == Tail(stage)
<1>1. /\ WellStaged(stage) /\ WellStaged(rest) /\ rest # <<>>
      /\ Tables \subseteq Range(rest)
      /\ \A w \in Work : /\ WellStaged(<<w>> \o rest)
                         /\ Range(<<w>> \o rest) = {w} \cup Range(rest)
      /\ Range(stage) = {Head(stage)} \cup Range(rest)
  <2>1. WellStaged(stage)
    BY DEF SuiteInv, StageInv
  <2>2. stage \in Seq(StageNames)
    BY <2>1 DEF WellStaged
  <2>3. Head(stage) # "report"
    BY DEF Work
  <2> QED
    BY <2>1, <2>2, <2>3, StepsOfATask, HeadAndRest
<1> HIDE DEF rest
<1>2. \E W \in SUBSET (Work \ {"evaluate"}) :
        WellStaged(stage') /\ Range(stage') = W \cup Range(rest)
  <2>1. CASE Forward
    <3>1. WellStaged(stage') /\ Range(stage') = {} \cup Range(rest)
      BY <1>1, <2>1 DEF Forward, rest
    <3> QED
      BY <3>1
  <2>2. ASSUME NEW w \in Work \ {"evaluate"}, stage' = <<w>> \o Tail(stage)
        PROVE  WellStaged(stage') /\ Range(stage') = {w} \cup Range(rest)
    BY <1>1, <2>2 DEF rest
  <2> QED
    BY <2>1, <2>2
<1>3. /\ Range(rest) \subseteq Range(stage') /\ Tables \subseteq Range(stage')
      /\ "evaluate" \in Range(stage') => "evaluate" \in Range(rest)
      /\ "evaluate" \in Range(stage) /\ "evaluate" \notin Range(stage') => Head(stage) = "evaluate"
      /\ "evaluate" \in Range(rest) => "evaluate" \in Range(stage)
      /\ WellStaged(stage')
  BY <1>1, <1>2
<1>4. QueueInv'
  BY DEF SuiteInv, QueueInv, suite, world
<1>5. report'.category = report.category /\ report'.error = report.error
  BY DEF SuiteInv, MeasureInv
<1>6. StageInv'
  BY <1>1, <1>3, <1>5 DEF SuiteInv, StageInv, suite
<1>7. MeasureInv'
  <2>1. hits' = hits /\ reports' = reports
    BY DEF world, suite
  <2>2. report' \in [category : Categories, error : BOOLEAN, precision : {NoData, <<hits, Cases>>}]
    BY DEF SuiteInv, MeasureInv
  <2>3. CASE Head(stage) = "evaluate"
    <3>1. report.category = "retrieval" /\ report'.precision = <<hits, Cases>>
      BY <1>1, <2>3 DEF SuiteInv, StageInv, MeasureInv
    <3> QED
      BY <1>5, <2>1, <2>2, <3>1 DEF SuiteInv, MeasureInv
  <2>4. CASE Head(stage) # "evaluate"
    <3>1. "evaluate" \notin Range(stage') => "evaluate" \notin Range(stage)
      BY <1>3, <2>4
    <3>2. report' = report
      BY <2>4
    <3> QED
      BY <2>1, <2>2, <3>1, <3>2 DEF SuiteInv, MeasureInv
  <2> QED
    BY <2>3, <2>4
<1>8. RowsInv'
  BY <1>3, WritesKeepRows DEF SuiteInv, suite
<1> QED
  BY <1>4, <1>6, <1>7, <1>8 DEF SuiteInv

\* An exception: the clearing comes next, of everything that was written.
LEMMA RaisingStep ==
  ASSUME SuiteInv, stage # <<>>, Raises, UNCHANGED <<suite, db, world>>,
         Writes
  PROVE  SuiteInv'
<1>1. /\ WellStaged(stage') /\ stage' # <<>>
      /\ Tables \subseteq Range(stage') /\ "evaluate" \notin Range(stage')
  BY ClearingIsWellStaged DEF Raises, Work
<1>2. report' = [report EXCEPT !.error = TRUE]
  BY DEF Raises
<1>3. QueueInv'
  BY DEF SuiteInv, QueueInv, suite, world
<1>4. report'.category = report.category /\ report'.precision = report.precision /\ report'.error
  BY <1>2 DEF SuiteInv, MeasureInv
<1>5. StageInv'
  BY <1>1, <1>4 DEF SuiteInv, StageInv, suite
<1>6. MeasureInv'
  BY <1>2, <1>4 DEF SuiteInv, MeasureInv, world, suite
<1>7. RowsInv'
  BY <1>1, WritesKeepRows DEF SuiteInv, suite
<1> QED
  BY <1>3, <1>5, <1>6, <1>7 DEF SuiteInv

\* A table is cleared; with the database down the rest is given up.
LEMMA ClearingStep == ASSUME SuiteInv, ClearTable PROVE SuiteInv'
<1>1. /\ stage # <<>> /\ Head(stage) \in Tables
      /\ UNCHANGED <<suite, streams, report, db, schema, world>>
  BY DEF ClearTable
<1>2. WellStaged(stage) /\ stage \in Seq(StageNames) /\ Head(stage) # "report"
  BY <1>1 DEF SuiteInv, StageInv, WellStaged, Tables
<1>3. /\ WellStaged(Tail(stage)) /\ Tail(stage) # <<>>
      /\ Range(stage) \cap Work = {}
      /\ Range(stage) = {Head(stage)} \cup Range(Tail(stage))
      /\ "chunks" \notin Range(Tail(stage))
  BY <1>1, <1>2, StepsOfATask, HeadAndRest
<1>4. stage' \in {<<"report">>, Tail(stage)}
  BY DEF ClearTable, Forward
<1>5. /\ WellStaged(stage') /\ stage' # <<>>
      /\ "evaluate" \notin Range(stage') /\ "evaluate" \notin Range(stage)
  <2>1. "evaluate" \notin Range(stage)
    BY <1>3 DEF Work
  <2>2. CASE stage' = Tail(stage)
    BY <1>3, <2>1, <2>2
  <2>3. CASE stage' = <<"report">>
    BY <2>1, <2>3, ClearingIsWellStaged
  <2> QED
    BY <1>4, <2>1, <2>2, <2>3
<1>6. QueueInv' /\ StageInv' /\ MeasureInv'
  BY <1>1, <1>5 DEF SuiteInv, QueueInv, StageInv, MeasureInv, suite, world
<1>7. RowsInv'
  <2> DEFINE head == Head(stage)
  <2>1. /\ left \subseteq {"chunks", "records"} /\ left \subseteq schema
        /\ Tables \ schema \subseteq lacked /\ outages \in Nat
        /\ outages = 0 => /\ leaks \subseteq {"records"} /\ (leaks # {} => Early)
                          /\ "chunks" \in left => "chunks" \in Range(stage)
                          /\ "records" \in left => "records" \in Range(stage) \/ Early
                          /\ down => left = {}
    BY <1>1 DEF SuiteInv, RowsInv
  <2>2. /\ schema' = schema /\ lacked' = lacked /\ outages' = outages /\ down' = down
        /\ leaks' = leaks /\ Early' = Early
    BY <1>1 DEF db, suite, Early
  <2>3. head \in {"chunks", "facts", "records"}
    BY <1>1 DEF Tables
  <2>4. CASE down
    <3>1. left' = left /\ (outages = 0 => left = {})
      BY <2>1, <2>4 DEF ClearTable
    <3> QED
      BY <2>1, <2>2, <3>1 DEF RowsInv
  <2>5. CASE ~down /\ head \notin schema
    <3>1. left' = left /\ head \in lacked /\ head \notin left
      BY <1>1, <2>1, <2>5 DEF ClearTable
    <3>2. outages = 0 => "chunks" \notin left
      <4>1. CASE head = "chunks"
        BY <3>1, <4>1
      <4>2. CASE head # "chunks"
        BY <1>3, <2>1, <4>2
      <4> QED
        BY <4>1, <4>2
    <3>3. "records" \in left => Early
      BY <2>3, <3>1 DEF Early
    <3> QED
      BY <2>1, <2>2, <2>5, <3>1, <3>2, <3>3 DEF RowsInv
  <2>6. CASE ~down /\ head \in schema
    <3>1. left' = left \ {head} /\ stage' = Tail(stage)
      BY <2>6 DEF ClearTable, Forward
    <3>2. outages = 0 => /\ "chunks" \in left' => "chunks" \in Range(stage')
                         /\ "records" \in left' => "records" \in Range(stage') \/ Early
      BY <1>3, <2>1, <3>1
    <3> QED
      BY <2>1, <2>2, <2>6, <3>1, <3>2 DEF RowsInv
  <2> QED
    BY <2>4, <2>5, <2>6
<1> QED
  BY <1>6, <1>7 DEF SuiteInv
\* A task begins, with its whole plan or with the report that git failed.
LEMMA BeginStep == ASSUME SuiteInv, BeginTask \/ RepositoryFails PROVE SuiteInv'
<1> DEFINE task == Head(queue)
<1>1. /\ exit = NoExit /\ queue # <<>> /\ stage = <<>>
      /\ UNCHANGED <<suite, db, schema, world>> /\ left' = {}
  BY DEF BeginTask, RepositoryFails
<1>2. task \in Categories /\ hits \in 0..Cases
  BY <1>1, FirstLeaves DEF SuiteInv, QueueInv, MeasureInv
<1>3. report' \in [category : {task}, error : BOOLEAN, precision : {NoData}]
  <2>1. \E e \in BOOLEAN : report' = [category |-> task, error |-> e, precision |-> NoData]
    <3>1. CASE BeginTask
      BY <3>1 DEF BeginTask, Blank
    <3>2. CASE RepositoryFails
      BY <3>2 DEF RepositoryFails, Blank
    <3> QED
      BY <3>1, <3>2
  <2> QED
    BY <2>1
<1>4. /\ WellStaged(stage') /\ stage' # <<>>
      /\ "evaluate" \in Range(stage') => task = "retrieval"
      /\ task = "retrieval" => "evaluate" \in Range(stage')
  <2>1. CASE BeginTask
    BY <1>2, <2>1, TasksAreWellStaged DEF BeginTask
  <2>2. CASE RepositoryFails
    BY <2>2, ClearingIsWellStaged DEF RepositoryFails
  <2> QED
    BY <2>1, <2>2
<1>5. QueueInv'
  BY <1>1 DEF SuiteInv, QueueInv, suite, world
<1>6. StageInv'
  BY <1>1, <1>3, <1>4 DEF StageInv, suite
<1>7. MeasureInv'
  <2>1. hits' = hits /\ reports' = reports
    BY <1>1 DEF world, suite
  <2>2. report' \in [category : Categories, error : BOOLEAN, precision : {NoData, <<hits, Cases>>}]
    BY <1>2, <1>3
  <2>3. /\ report'.precision = NoData
        /\ report'.category = "retrieval" => "evaluate" \in Range(stage')
    BY <1>3, <1>4
  <2> QED
    BY <1>2, <2>1, <2>2, <2>3 DEF SuiteInv, MeasureInv
<1>8. RowsInv'
  BY <1>1 DEF SuiteInv, RowsInv, Early, db, suite
<1> QED
  BY <1>5, <1>6, <1>7, <1>8 DEF SuiteInv

\* A task is reported: nothing is left to clear, and it leaves the queue.
LEMMA EndStep == ASSUME SuiteInv, EndTask PROVE SuiteInv'
<1> DEFINE task == Head(queue)
           n == Len(reports)
           r == Reported
<1>1. /\ At("report") /\ reports' = Append(reports, r)
      /\ leaks' = leaks \cup left
      /\ stage' = <<>> /\ queue' = Tail(queue)
      /\ UNCHANGED <<args, exit, streams, report, left, db, schema, world>>
  BY DEF EndTask
<1>2. stage # <<>> /\ Head(stage) = "report" /\ queue # <<>> /\ report.category = task
  BY <1>1 DEF At, SuiteInv, StageInv
<1>3. Range(stage) = {"report"}
  BY <1>2, StepsOfATask DEF SuiteInv, StageInv
<1>4. /\ Tail(queue) \in Seq(Categories) /\ IsInjective(Tail(queue))
      /\ task \in Range(queue) /\ task \in Categories
      /\ task \notin Range(Tail(queue)) /\ Range(Tail(queue)) \subseteq Range(queue)
  BY <1>2, FirstLeaves DEF SuiteInv, QueueInv
<1> DEFINE R == [category : Categories, error : BOOLEAN, precision : {NoData, <<hits, Cases>>}]
<1>5. report \in R
  BY DEF SuiteInv, MeasureInv
<1>6. /\ r \in R /\ r.category = task
      /\ r.precision = IF r.category = "retrieval" /\ ~r.error THEN <<hits, Cases>> ELSE NoData
  <2>1. CASE report.error
    <3>1. r = [category |-> report.category, error |-> TRUE, precision |-> NoData]
      BY <2>1 DEF Reported, Blank
    <3> QED
      BY <1>2, <1>5, <3>1
  <2>2. CASE ~report.error
    <3>1. r = report
      BY <2>2 DEF Reported
    <3>2. "evaluate" \notin Range(stage)
      BY <1>3
    <3> QED
      BY <1>2, <1>5, <2>2, <3>1, <3>2 DEF SuiteInv, MeasureInv
  <2> QED
    BY <2>1, <2>2
<1> HIDE DEF r, R
<1>7. /\ reports \in Seq(R) /\ n \in Nat /\ DOMAIN reports = 1..n
      /\ reports' \in Seq(R) /\ Len(reports') = n + 1 /\ DOMAIN reports' = 1..(n + 1)
      /\ reports'[n + 1] = r /\ \A i \in 1..n : reports'[i] = reports[i]
  <2>1. reports \in Seq(R) /\ n \in Nat /\ DOMAIN reports = 1..n
    BY DEF SuiteInv, QueueInv, R
  <2>2. /\ reports' \in Seq(R) /\ Len(reports') = n + 1
        /\ reports'[n + 1] = r /\ \A i \in 1..n : reports'[i] = reports[i]
    BY <1>1, <1>6, <2>1, AppendProperties
  <2>3. DOMAIN reports' = 1..(n + 1)
    BY <2>2
  <2> QED
    BY <2>1, <2>2, <2>3
<1>8. \A i \in 1..(n + 1) : i \in 1..n \/ i = n + 1
  BY <1>7
<1>9. hits' = hits /\ report' = report /\ outages' = outages /\ left' = left
  BY <1>1 DEF world, db
<1>10. /\ \A i \in 1..n : reports[i].category \notin Range(queue)
       /\ \A i, j \in 1..n : reports[i].category = reports[j].category => i = j
       /\ \A i \in 1..n : reports[i].precision
            = IF reports[i].category = "retrieval" /\ ~reports[i].error THEN <<hits, Cases>> ELSE NoData
  BY <1>7 DEF SuiteInv, QueueInv, MeasureInv
<1>11. QueueInv'
  <2>1. \A i \in DOMAIN reports' : reports'[i].category \notin Range(queue')
    BY <1>1, <1>4, <1>6, <1>7, <1>8, <1>10
  <2>2. ASSUME NEW i \in DOMAIN reports', NEW j \in DOMAIN reports',
               reports'[i].category = reports'[j].category
        PROVE  i = j
    BY <1>4, <1>6, <1>7, <1>8, <1>10, <2>2
  <2> QED
    BY <1>1, <1>4, <1>7, <1>9, <2>1, <2>2 DEF QueueInv, R
<1>12. StageInv'
  <2>1. Range(stage') = {}
    BY <1>1 DEF Range
  <2> QED
    BY <1>1, <2>1, ClearingIsWellStaged DEF StageInv
<1>13. MeasureInv'
  <2>1. \A i \in DOMAIN reports' :
          reports'[i].precision = IF reports'[i].category = "retrieval" /\ ~reports'[i].error
                                  THEN <<hits, Cases>> ELSE NoData
    BY <1>6, <1>7, <1>8, <1>10
  <2> QED
    BY <1>1, <1>9, <2>1 DEF SuiteInv, MeasureInv
<1>14. RowsInv'
  <2>1. outages = 0 => left \subseteq {"records"} /\ ("records" \in left => Early)
    BY <1>2, <1>3 DEF SuiteInv, RowsInv
  <2>2. schema' = schema /\ lacked' = lacked /\ Early' = Early
    BY <1>1 DEF db, Early
  <2> QED
    BY <1>1, <1>9, <2>1, <2>2 DEF SuiteInv, RowsInv
<1> QED
  BY <1>11, <1>12, <1>13, <1>14 DEF SuiteInv

\* The invariant is kept by the rest of the harness and by the database.
LEMMA SuiteStep == ASSUME SuiteInv, Next PROVE SuiteInv'
<1>1. CASE DatabaseFails
  <2>1. outages' # 0 /\ outages' \in Nat
    BY <1>1 DEF DatabaseFails, SuiteInv, RowsInv
  <2> QED
    BY <1>1, <2>1 DEF DatabaseFails, SuiteInv, QueueInv, StageInv, MeasureInv, RowsInv, suite, world
<1>2. CASE DatabaseRecovers
  BY <1>2 DEF DatabaseRecovers, SuiteInv, QueueInv, StageInv, MeasureInv, RowsInv, Early,
              suite, world
<1>2a. CASE EnsureSchema
  <2>1. schema \subseteq schema'
    BY <1>2a DEF EnsureSchema
  <2> QED
    BY <1>2a, <2>1 DEF EnsureSchema, SuiteInv, QueueInv, StageInv, MeasureInv, RowsInv, Early,
                       suite, db, world
<1>3. CASE Invoke
  <2>1. /\ exit # NoExit /\ queue' = Selected(args'.category)
        /\ reports' = <<>> /\ leaks' = {} /\ outages' = 0
        /\ report' = Blank("happy_path") /\ hits' \in 0..Cases
        /\ lacked' = Tables \ schema
        /\ UNCHANGED <<stage, streams, left, down, schema, baseline>>
    BY <1>3 DEF Invoke
  <2>2. stage = <<>> /\ Range(stage) = {}
    BY <2>1 DEF SuiteInv, StageInv, Range
  <2>3. QueueInv'
    BY <2>1, SelectedIsDistinct DEF QueueInv
  <2>4. StageInv'
    BY <2>1, <2>2, ClearingIsWellStaged DEF StageInv
  <2>5. MeasureInv'
    BY <2>1, <2>2 DEF MeasureInv, Blank, Categories
  <2>6. RowsInv'
    BY <2>1, <2>2 DEF SuiteInv, RowsInv
  <2> QED
    BY <2>3, <2>4, <2>5, <2>6 DEF SuiteInv
<1>4. CASE BeginTask \/ RepositoryFails
  BY <1>4, BeginStep
<1>5. CASE IndexRepository \/ EvaluateRetrieval \/ StreamAsks \/ StreamEnds
  BY <1>5, ForwardStep
  DEF IndexRepository, EvaluateRetrieval, StreamAsks, StreamEnds, At, Work, Writes
<1>6. CASE AnswerAbort
  BY <1>6, ForwardStep DEF AnswerAbort, At, Work, Writes
<1>7. CASE IndexRaises \/ EvaluateRaises \/ StreamRaises
  BY <1>7, RaisingStep DEF IndexRaises, EvaluateRaises, StreamRaises, At, Writes
<1>8. CASE ClearTable
  BY <1>8, ClearingStep
<1>9. CASE EndTask
  BY <1>9, EndStep
<1>10. CASE Settle
  BY <1>10 DEF Settle, SuiteInv, QueueInv, StageInv, MeasureInv, RowsInv, Early, db
<1> QED
  BY <1>1, <1>2, <1>2a, <1>3, <1>4, <1>5, <1>6, <1>7, <1>8, <1>9, <1>10 DEF Next, Task

LEMMA SuiteInvariant == Spec => []SuiteInv
<1>1. SuiteInv /\ [Next]_vars => SuiteInv'
  <2>1. CASE UNCHANGED vars
    BY <2>1 DEF vars, SuiteInv, QueueInv, StageInv, MeasureInv, RowsInv, Early
  <2> QED
    BY <2>1, SuiteStep
<1> QED
  BY <1>1, InitialSuite, PTL DEF Spec

\* Without an outage a task never leaves chunks behind, wherever it raised, and
\* leaves records only when a table that is cleared before theirs was missing when
\* the invocation began (tasks._cleanup).
THEOREM RowsCleared == Spec => []RowsAreCleared
<1>1. SuiteInv => RowsAreCleared
  BY DEF SuiteInv, RowsInv, Early, RowsAreCleared
<1> QED
  BY <1>1, SuiteInvariant, PTL
\* Every task is reported once, hence the average is over the retrieval task alone.
LEMMA PrecisionMeasured ==
  ASSUME SuiteInv
  PROVE  /\ Measured => Precision(reports) = <<hits, Cases>>
         /\ ~Measured => Precision(reports) = NoData
<1> DEFINE measured == {i \in DOMAIN reports : /\ reports[i].category = "retrieval"
                                               /\ reports[i].precision # NoData}
           found == {hit \in measured \X (1..Cases) : hit[2] <= reports[hit[1]].precision[1]}
<1>0. Precision(reports) = Rate(Cardinality(found), Cases * Cardinality(measured))
  BY DEF Precision
<1>1. <<hits, Cases>> # NoData /\ hits \in 0..Cases /\ Cases \in Nat \ {0}
  BY EvalAssumption DEF NoData, SuiteInv, MeasureInv
<1>2. \A i \in DOMAIN reports :
        /\ i \in measured <=> reports[i].category = "retrieval" /\ ~reports[i].error
        /\ i \in measured => reports[i].precision = <<hits, Cases>>
  BY <1>1 DEF SuiteInv, MeasureInv
<1>3. ASSUME Measured PROVE Precision(reports) = <<hits, Cases>>
  <2>1. PICK i \in DOMAIN reports : i \in measured
    BY <1>2, <1>3 DEF Measured
  <2>2. measured = {i}
    BY <2>1 DEF SuiteInv, QueueInv
  <2>3. found = {i} \X (1..hits)
    <3>1. \A h \in 1..Cases : h <= reports[i].precision[1] <=> h \in 1..hits
      BY <1>1, <1>2, <2>1
    <3>2. 1..hits \subseteq 1..Cases
      BY <1>1
    <3> HIDE DEF measured
    <3>3. ASSUME NEW x \in found PROVE x \in {i} \X (1..hits)
      BY <2>2, <3>1, <3>3
    <3>4. ASSUME NEW x \in {i} \X (1..hits) PROVE x \in found
      BY <2>2, <3>1, <3>2, <3>4
    <3> QED
      BY <3>3, <3>4
  <2>4. IsFiniteSet({i}) /\ Cardinality({i}) = 1
    BY FS_Singleton
  <2>5. IsFiniteSet(1..hits) /\ Cardinality(1..hits) = hits
    <3>1. 1 \in Int /\ hits \in Int /\ hits \in Nat
      BY <1>1
    <3>2. /\ IsFiniteSet(1..hits)
          /\ Cardinality(1..hits) = IF 1 > hits THEN 0 ELSE hits - 1 + 1
      BY <3>1, FS_Interval
    <3>3. (IF 1 > hits THEN 0 ELSE hits - 1 + 1) = hits
      BY <3>1
    <3> QED
      BY <3>2, <3>3
  <2>6. Cardinality(found) = hits
    BY <1>1, <2>3, <2>4, <2>5, FS_Product
  <2>7. Cases * Cardinality(measured) = Cases
    <3>1. Cardinality(measured) = 1
      BY <2>2, <2>4
    <3>2. Cases * 1 = Cases
      BY <1>1
    <3> QED
      BY <3>1, <3>2
  <2> QED
    BY <1>0, <1>1, <2>6, <2>7 DEF Rate
<1>4. ASSUME ~Measured PROVE Precision(reports) = NoData
  <2>1. measured = {}
    BY <1>2, <1>4 DEF Measured
  <2>2. Cardinality(measured) = 0
    BY <2>1, FS_EmptySet
  <2>3. Cases * Cardinality(measured) = 0
    BY <1>1, <2>2
  <2> QED
    BY <1>0, <2>3 DEF Rate
<1> QED
  BY <1>3, <1>4

\* The gate fails an invocation exactly when the retrieval task got through and
\* the code finds fewer of its cases than the saved baseline says, whatever the
\* other tasks did and however often the baseline was measured and saved before.
THEOREM GateIsRight == Spec => []TheGateIsRight
<1>1. Init => TheGateIsRight
  BY DEF Init, TheGateIsRight
<1>2. ASSUME SuiteInv, TheGateIsRight, [Next]_vars PROVE TheGateIsRight'
  <2>1. CASE exit' = exit /\ args' = args /\ reports' = reports /\ UNCHANGED world
    BY <1>2, <2>1 DEF TheGateIsRight, Measured, world
  <2>2. CASE Invoke
    BY <2>2 DEF Invoke, TheGateIsRight
  <2>3. CASE EndTask
    <3>1. exit' = NoExit
      BY <1>2, <2>3 DEF EndTask, At, SuiteInv, StageInv
    <3> QED
      BY <3>1 DEF TheGateIsRight
  <2>4. CASE Settle
    <3>1. /\ reports' = reports /\ hits' = hits /\ args' = args
          /\ ~args.update =>
                /\ exit' = IF GatedRegression(Precision(reports), baseline) THEN 1 ELSE 0
                /\ baseline' = baseline
      BY <2>4 DEF Settle
    <3>2. <<hits, Cases>> # NoData
      BY DEF NoData
    <3>3. GatedRegression(Precision(reports), baseline)
            <=> Measured /\ baseline # NoData /\ Below(<<hits, Cases>>, baseline)
      BY <1>2, <3>2, PrecisionMeasured DEF GatedRegression
    <3> QED
      BY <3>1, <3>3 DEF TheGateIsRight, Measured
  <2> QED
    BY <1>2, <2>1, <2>2, <2>3, <2>4
    DEF Next, Task, vars, suite, db, world, DatabaseFails, DatabaseRecovers, EnsureSchema,
        BeginTask, RepositoryFails, IndexRepository, IndexRaises, EvaluateRetrieval, EvaluateRaises,
        StreamAsks, AnswerAbort, StreamEnds, StreamRaises, ClearTable
<1> QED
  BY <1>1, <1>2, SuiteInvariant, PTL DEF Spec
=============================================================================
