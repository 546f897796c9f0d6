---------------------------- MODULE MemoryProofs ----------------------------
(***************************************************************************)
(* Theorems about the memory of a project, for any texts, records, numbers *)
(* of runs, notes and edits, any window, cap and cuts, and any similarity. *)
(***************************************************************************)
EXTENDS Memory, FunctionTheorems, FiniteSetTheorems, SequenceTheorems, TLAPS
-----------------------------------------------------------------------------
(* The facts. *)

\* A bag of facts: finitely many, each as often as it was written.
BagOf(bag, S) ==
  /\ DOMAIN bag \subseteq S /\ IsFiniteSet(DOMAIN bag)
  /\ bag = [f \in DOMAIN bag |-> bag[f]]
  /\ \A f \in DOMAIN bag : bag[f] \in Nat \ {0}

FactsInv ==
  /\ BagOf(facts, Facts)
  /\ BagOf(ingest.read, Decisions)
  /\ ingest = [phase |-> ingest.phase, read |-> ingest.read]
  /\ ingest.phase \in {"none", "read", "cleared", "written"}
  /\ ingest.phase = "cleared" => Only(facts, "decision") = EmptyBag
  /\ IngestReplaces

LEMMA EmptyIsABag ==
  /\ DOMAIN EmptyBag = {} /\ \A S : BagOf(EmptyBag, S)
  /\ \A kind : Only(EmptyBag, kind) = EmptyBag
<1>1. DOMAIN EmptyBag = {} /\ EmptyBag = [f \in {} |-> 1]
  BY DEF EmptyBag, SetToBag
<1>2. \A S : BagOf(EmptyBag, S)
  <2>1. EmptyBag = [f \in DOMAIN EmptyBag |-> EmptyBag[f]]
    BY <1>1
  <2> QED
    BY <1>1, <2>1, FS_EmptySet DEF BagOf
<1>3. ASSUME NEW kind PROVE Only(EmptyBag, kind) = EmptyBag
  BY <1>1 DEF Only
<1> QED
  BY <1>1, <1>2, <1>3

\* What is written is added to what there is.
LEMMA Adding ==
  ASSUME NEW S, NEW a, NEW b, BagOf(a, S), BagOf(b, S)
  PROVE  BagOf(a (+) b, S)
<1> DEFINE c == a (+) b
<1>1. c = [f \in DOMAIN a \cup DOMAIN b |->
             (IF f \in DOMAIN a THEN a[f] ELSE 0) + (IF f \in DOMAIN b THEN b[f] ELSE 0)]
  BY DEF (+)
<1>2. DOMAIN c = DOMAIN a \cup DOMAIN b
  BY <1>1
<1>3. \A f \in DOMAIN c : c[f] \in Nat \ {0}
  BY <1>1, <1>2 DEF BagOf
<1>4. IsFiniteSet(DOMAIN c)
  <2>1. IsFiniteSet(DOMAIN a) /\ IsFiniteSet(DOMAIN b)
    BY DEF BagOf
  <2>2. IsFiniteSet(DOMAIN a \cup DOMAIN b)
    BY <2>1, FS_Union
  <2> QED
    BY <1>2, <2>2
<1>5. c = [f \in DOMAIN c |-> c[f]]
  BY <1>1
<1> HIDE DEF c
<1>6. BagOf(c, S)
  BY <1>2, <1>3, <1>4, <1>5 DEF BagOf
<1> QED
  BY <1>6 DEF c

\* ... kind by kind.
LEMMA AddingByKind ==
  ASSUME NEW S, NEW a, NEW b, BagOf(a, S), BagOf(b, S), NEW kind
  PROVE  Only(a (+) b, kind) = Only(a, kind) (+) Only(b, kind)
<1> DEFINE c == a (+) b
           D == {f \in DOMAIN a \cup DOMAIN b : f.kind = kind}
           x == Only(a, kind)
           y == Only(b, kind)
<1>1. /\ c = [f \in DOMAIN a \cup DOMAIN b |->
                (IF f \in DOMAIN a THEN a[f] ELSE 0) + (IF f \in DOMAIN b THEN b[f] ELSE 0)]
      /\ DOMAIN c = DOMAIN a \cup DOMAIN b
  BY DEF (+)
<1>2. /\ DOMAIN x = {f \in DOMAIN a : f.kind = kind} /\ \A f \in DOMAIN x : x[f] = a[f]
      /\ DOMAIN y = {f \in DOMAIN b : f.kind = kind} /\ \A f \in DOMAIN y : y[f] = b[f]
  BY DEF Only
<1>3. x (+) y = [f \in D |-> (IF f \in DOMAIN x THEN x[f] ELSE 0)
                              + (IF f \in DOMAIN y THEN y[f] ELSE 0)]
  BY <1>2 DEF (+)
<1>4. Only(c, kind) = [f \in D |-> c[f]]
  BY <1>1 DEF Only
<1> HIDE DEF x, y
<1>5. \A f \in D : c[f] = (IF f \in DOMAIN x THEN x[f] ELSE 0)
                           + (IF f \in DOMAIN y THEN y[f] ELSE 0)
  BY <1>1, <1>2
<1> HIDE DEF c, D
<1>6. Only(c, kind) = x (+) y
  BY <1>3, <1>4, <1>5
<1> QED
  BY <1>6 DEF x, y, c

\* Nothing added.
LEMMA AddingNothing ==
  ASSUME NEW S, NEW a, BagOf(a, S)
  PROVE  a (+) EmptyBag = a /\ EmptyBag (+) a = a
<1>1. DOMAIN EmptyBag = {}
  BY EmptyIsABag
<1>2. a (+) EmptyBag = [f \in DOMAIN a |-> a[f]]
  <2>1. a (+) EmptyBag = [f \in DOMAIN a |-> a[f] + 0]
    BY <1>1 DEF (+)
  <2>2. \A f \in DOMAIN a : a[f] + 0 = a[f]
    BY DEF BagOf
  <2> QED
    BY <2>1, <2>2
<1>3. EmptyBag (+) a = [f \in DOMAIN a |-> a[f]]
  <2>1. EmptyBag (+) a = [f \in DOMAIN a |-> 0 + a[f]]
    BY <1>1 DEF (+)
  <2>2. \A f \in DOMAIN a : 0 + a[f] = a[f]
    BY DEF BagOf
  <2> QED
    BY <2>1, <2>2
<1> QED
  BY <1>2, <1>3 DEF BagOf

\* What is left of a bag by kind.
LEMMA OfAKind ==
  ASSUME NEW S, NEW a, BagOf(a, S), NEW kind
  PROVE  /\ BagOf(Only(a, kind), S)
         /\ Only(Only(a, kind), kind) = Only(a, kind)
         /\ (\A f \in DOMAIN a : f.kind = kind) => Only(a, kind) = a
         /\ \A other : other # kind => Only(Only(a, kind), other) = EmptyBag
         /\ (\A f \in DOMAIN a : f.kind # kind) => Only(a, kind) = EmptyBag
<1> DEFINE x == Only(a, kind)
<1>1. /\ DOMAIN x = {f \in DOMAIN a : f.kind = kind} /\ \A f \in DOMAIN x : x[f] = a[f]
      /\ x = [f \in DOMAIN x |-> x[f]]
  BY DEF Only
<1>2. IsFiniteSet(DOMAIN x)
  BY <1>1, FS_Subset DEF BagOf
<1>3. EmptyBag = [f \in {} |-> 1]
  BY DEF EmptyBag, SetToBag
<1> HIDE DEF x
<1>4. BagOf(x, S)
  BY <1>1, <1>2 DEF BagOf
<1>5. Only(x, kind) = x
  BY <1>1 DEF Only
<1>6. ASSUME NEW other, other # kind PROVE Only(x, other) = EmptyBag
  <2>1. {f \in DOMAIN x : f.kind = other} = {}
    BY <1>1, <1>6
  <2> QED
    BY <1>3, <2>1 DEF Only
<1>7. ASSUME \A f \in DOMAIN a : f.kind = kind PROVE x = a
  <2>1. DOMAIN x = DOMAIN a
    BY <1>1, <1>7
  <2> QED
    BY <1>1, <2>1 DEF BagOf
<1>8. ASSUME \A f \in DOMAIN a : f.kind # kind PROVE x = EmptyBag
  <2>1. DOMAIN x = {}
    BY <1>1, <1>8
  <2> QED
    BY <1>1, <1>3, <2>1
<1> QED
  BY <1>4, <1>5, <1>6, <1>7, <1>8 DEF x

\* A decision is read once for each record that holds it.
LEMMA ParsedIsABag == BagOf(Parsed, Decisions)
<1> DEFINE D == {d \in Decisions : \E r \in Records : adrs[r] = d.text}
           Held(d) == {r \in Records : adrs[r] = d.text}
           Titled == {r \in Records : adrs[r] \in Texts}
           read == [r \in Titled |-> [kind |-> "decision", text |-> adrs[r]]]
<1>1. Parsed = [f \in D |-> Cardinality(Held(f))] /\ IsFiniteSet(Records)
  BY MemoryAssumption DEF Parsed
<1>2. IsFiniteSet(D)
  <2>1. IsFiniteSet(Titled)
    BY <1>1, FS_Subset
  <2>2. \A d \in D : d = [kind |-> "decision", text |-> d.text] /\ d.text \in Texts
    BY DEF Decisions, Facts
  <2>3. \A r \in Titled : read[r] \in D
    BY DEF Decisions, Facts
  <2>4. \A d \in D : \E r \in Titled : read[r] = d
    BY <2>2
  <2>5. read \in [Titled -> D]
    BY <2>3
  <2>6. read \in Surjection(Titled, D)
    BY <2>4, <2>5 DEF Surjection
  <2> QED
    BY <2>1, <2>6, FS_Surjection
<1>3. ASSUME NEW d \in D PROVE Cardinality(Held(d)) \in Nat \ {0}
  <2>1. IsFiniteSet(Held(d)) /\ Held(d) # {}
    BY <1>1, FS_Subset
  <2> QED
    BY <2>1, FS_CardinalityType, FS_EmptySet
<1>4. D \subseteq Decisions
  OBVIOUS
<1> DEFINE count(d) == Cardinality(Held(d))
<1> HIDE DEF D, Held
<1> QED
  BY <1>1, <1>2, <1>3, <1>4 DEF BagOf

\* Some of what is written is written as it is.
LEMMA PartsAreBags ==
  ASSUME NEW S, NEW a, BagOf(a, S), NEW part \in Parts(a)
  PROVE  BagOf(part, S)
<1>1. PICK kept \in SUBSET DOMAIN a : part \in [kept -> 1..Cardinality(Records)]
  BY DEF Parts
<1>2. Cardinality(Records) \in Nat
  BY MemoryAssumption, FS_CardinalityType
<1>3. IsFiniteSet(kept)
  BY FS_Subset DEF BagOf
<1> QED
  BY <1>1, <1>2, <1>3 DEF BagOf

LEMMA InitialFacts == Init => FactsInv
<1> SUFFICES ASSUME Init PROVE FactsInv
  OBVIOUS
<1>1. facts = EmptyBag /\ noted = EmptyBag /\ ingest = [phase |-> "none", read |-> EmptyBag]
  BY DEF Init, NoIngest
<1>2. ingest.phase = "none" /\ ingest.read = EmptyBag
  BY <1>1
<1> QED
  BY <1>1, <1>2, EmptyIsABag DEF FactsInv, IngestReplaces

\* A note changes the notes and nothing else.
LEMMA NoteStep == ASSUME FactsInv, NEW text \in Texts, WriteNote(text) PROVE FactsInv'
<1> DEFINE note == [kind |-> "note", text |-> text]
           one == SetToBag({note})
<1>1. facts' = facts (+) one /\ noted' = noted (+) one /\ ingest' = ingest
  BY DEF WriteNote
<1>2. DOMAIN one = {note} /\ one = [f \in {note} |-> 1]
  BY DEF SetToBag
<1>3. BagOf(one, Facts)
  <2>1. note \in Facts /\ IsFiniteSet({note})
    BY FS_Singleton DEF Facts
  <2>2. one[note] = 1
    BY <1>2
  <2> HIDE DEF one, note
  <2> QED
    BY <1>2, <2>1, <2>2 DEF BagOf
<1>4. Only(one, "note") = one /\ Only(one, "decision") = EmptyBag
  <2>1. \A f \in DOMAIN one : f.kind = "note"
    BY <1>2
  <2> HIDE DEF one
  <2>2. Only(one, "note") = one /\ Only(Only(one, "note"), "decision") = EmptyBag
    BY <1>3, <2>1, OfAKind
  <2> QED
    BY <2>2
<1> HIDE DEF one
<1>5. /\ BagOf(facts', Facts)
      /\ Only(facts', "note") = noted'
      /\ Only(facts', "decision") = Only(facts, "decision")
  <2>1. BagOf(facts, Facts) /\ Only(facts, "note") = noted
    BY DEF FactsInv, IngestReplaces
  <2>2. /\ BagOf(facts', Facts)
        /\ Only(facts', "note") = Only(facts, "note") (+) Only(one, "note")
        /\ Only(facts', "decision") = Only(facts, "decision") (+) Only(one, "decision")
    <3>1. BagOf(facts (+) one, Facts)
      BY <1>3, <2>1, Adding
    <3>2. Only(facts (+) one, "note") = Only(facts, "note") (+) Only(one, "note")
      BY <1>3, <2>1, AddingByKind
    <3>3. Only(facts (+) one, "decision") = Only(facts, "decision") (+) Only(one, "decision")
      BY <1>3, <2>1, AddingByKind
    <3> QED
      BY <1>1, <3>1, <3>2, <3>3
  <2>3. Only(facts, "decision") (+) EmptyBag = Only(facts, "decision")
    BY <2>1, OfAKind, AddingNothing
  <2> QED
    BY <1>1, <1>4, <2>1, <2>2, <2>3
<1> QED
  BY <1>1, <1>5 DEF FactsInv, IngestReplaces

\* Decisions added change no note.
LEMMA DecisionsAdded ==
  ASSUME FactsInv, NEW bag, BagOf(bag, Decisions)
  PROVE  /\ BagOf(facts (+) bag, Facts)
         /\ Only(facts (+) bag, "note") = noted
         /\ Only(facts, "decision") = EmptyBag => Only(facts (+) bag, "decision") = bag
<1>1. BagOf(facts, Facts) /\ Only(facts, "note") = noted
  BY DEF FactsInv, IngestReplaces
<1>2. BagOf(bag, Facts) /\ \A f \in DOMAIN bag : f.kind = "decision"
  BY DEF BagOf, Decisions
<1>3. Only(bag, "decision") = bag /\ Only(bag, "note") = EmptyBag
  BY <1>2, OfAKind
<1>4. BagOf(noted, Facts)
  BY <1>1, OfAKind
<1>5. /\ BagOf(facts (+) bag, Facts)
      /\ Only(facts (+) bag, "note") = noted (+) EmptyBag
      /\ Only(facts (+) bag, "decision") = Only(facts, "decision") (+) bag
  <2>1. BagOf(facts, Facts) /\ BagOf(bag, Facts)
    BY <1>1, <1>2
  <2>2. BagOf(facts (+) bag, Facts)
    BY <2>1, Adding
  <2>3. Only(facts (+) bag, "note") = Only(facts, "note") (+) Only(bag, "note")
    BY <2>1, AddingByKind
  <2>4. Only(facts (+) bag, "decision") = Only(facts, "decision") (+) Only(bag, "decision")
    BY <2>1, AddingByKind
  <2> QED
    BY <1>1, <1>3, <2>2, <2>3, <2>4
<1> QED
  BY <1>2, <1>4, <1>5, AddingNothing

LEMMA FactsStep == ASSUME FactsInv, Next PROVE FactsInv'
<1>1. ASSUME UNCHANGED <<facts, ingest, noted>> PROVE FactsInv'
  BY <1>1 DEF FactsInv, IngestReplaces
<1>2. ASSUME NEW text \in Texts, WriteNote(text) PROVE FactsInv'
  BY <1>2, NoteStep
<1>3. CASE IngestReads
  <2>1. /\ ingest' = [phase |-> "read", read |-> Parsed]
        /\ facts' = facts /\ noted' = noted
    BY <1>3 DEF IngestReads
  <2>2. ingest'.phase = "read" /\ ingest'.read = Parsed
    BY <2>1
  <2> QED
    BY <2>1, <2>2, ParsedIsABag DEF FactsInv, IngestReplaces
<1>4. ASSUME ingest' = NoIngest, noted' = noted, BagOf(facts', Facts), Only(facts', "note") = noted
      PROVE  FactsInv'
  <2>1. ingest'.phase = "none" /\ ingest'.read = EmptyBag
    BY <1>4 DEF NoIngest
  <2> QED
    BY <1>4, <2>1, EmptyIsABag DEF FactsInv, IngestReplaces, NoIngest
<1>5. BagOf(facts, Facts) /\ Only(facts, "note") = noted /\ BagOf(ingest.read, Decisions)
  BY DEF FactsInv, IngestReplaces
<1>6. CASE IngestClears
  <2>1. CASE "database" \in down
    BY <1>4, <1>5, <1>6, <2>1 DEF IngestClears
  <2>2. CASE "database" \notin down
    <3>1. /\ facts' = Only(facts, "note") /\ noted' = noted
          /\ ingest' = [ingest EXCEPT !.phase = "cleared"]
      BY <1>6, <2>2 DEF IngestClears, WithoutDecisions
    <3>2. /\ ingest' = [phase |-> "cleared", read |-> ingest.read]
          /\ ingest'.phase = "cleared" /\ ingest'.read = ingest.read
      BY <3>1 DEF FactsInv
    <3>3. /\ BagOf(facts', Facts) /\ Only(facts', "note") = noted
          /\ Only(facts', "decision") = EmptyBag
      BY <1>5, <3>1, OfAKind
    <3> QED
      BY <1>5, <3>1, <3>2, <3>3 DEF FactsInv, IngestReplaces
  <2> QED
    BY <2>1, <2>2
<1>7. CASE IngestWrites
  <2>1. ingest.phase = "cleared" /\ noted' = noted /\ Only(facts, "decision") = EmptyBag
    BY <1>7 DEF IngestWrites, FactsInv
  <2>2. CASE /\ facts' = facts (+) ingest.read
             /\ ingest' = [ingest EXCEPT !.phase = "written"]
    <3>1. /\ ingest' = [phase |-> "written", read |-> ingest.read]
          /\ ingest'.phase = "written" /\ ingest'.read = ingest.read
      BY <2>2 DEF FactsInv
    <3>2. /\ BagOf(facts', Facts) /\ Only(facts', "note") = noted
          /\ Only(facts', "decision") = ingest.read
      BY <1>5, <2>1, <2>2, DecisionsAdded
    <3> QED
      BY <1>5, <2>1, <3>1, <3>2 DEF FactsInv, IngestReplaces
  <2>3. CASE ingest' = NoIngest /\ \E some \in Parts(ingest.read) : facts' = facts (+) some
    BY <1>4, <1>5, <2>1, <2>3, PartsAreBags, DecisionsAdded
  <2>4. CASE ingest' = NoIngest /\ facts' = facts
    BY <1>4, <1>5, <2>1, <2>4
  <2> QED
    BY <1>7, <2>2, <2>3, <2>4 DEF IngestWrites
<1>8. CASE IngestReturns
  BY <1>4, <1>5, <1>8 DEF IngestReturns
<1>9. ASSUME \/ \E status \in Statuses, text \in Summaries : FinishRun(status, text)
             \/ \E r \in Records : EditRecord(r)
             \/ \E b \in {"database", "embedder"} : BackendChanges(b)
      PROVE  FactsInv'
  BY <1>1, <1>9 DEF FinishRun, EditRecord, BackendChanges
<1> QED
  BY <1>2, <1>3, <1>6, <1>7, <1>8, <1>9 DEF Next, Ingesting

LEMMA FactsInvariant == Spec => []FactsInv
<1>1. FactsInv /\ [Next]_vars => FactsInv'
  <2>1. CASE UNCHANGED vars
    BY <2>1 DEF vars, FactsInv, IngestReplaces
  <2> QED
    BY <2>1, FactsStep
<1> QED
  BY <1>1, InitialFacts, PTL DEF Spec

\* An ingestion that returns has replaced the project's decisions by those of the
\* records it read, and none, whole or failed half way, costs or doubles a note:
\* for any records, any edits of them and any failures in between.
THEOREM IngestionReplaces == Spec => []IngestReplaces
<1>1. FactsInv => IngestReplaces
  BY DEF FactsInv
<1> QED
  BY <1>1, FactsInvariant, PTL
-----------------------------------------------------------------------------
(* The sort. *)

\* A set of scores with their positions comes out of BestFirst whole, the better
\* before the worse: counting what comes before it gives each a place of its own.
LEMMA BestFirstSorts ==
  ASSUME NEW scored, IsFiniteSet(scored), scored \subseteq Int \X Nat,
         \A x, y \in scored : x[2] = y[2] => x = y
  PROVE  LET n == Cardinality(scored)
         IN \E at \in [1..n -> scored] :
              /\ BestFirst(scored) = [k \in 1..n |-> at[k][2]]
              /\ \A a, b \in 1..n : a < b => Before(at[a], at[b])
              /\ \A x \in scored : \E a \in 1..n : at[a] = x
<1> DEFINE n == Cardinality(scored)
           Above(x) == {y \in scored : Before(y, x)}
           Place(x) == 1 + Cardinality(Above(x))
           at == [k \in 1..n |-> CHOOSE x \in scored : Place(x) = k]
<1>1. n \in Nat /\ IsFiniteSet(1..n) /\ Cardinality(1..n) = n
  <2>1. n \in Nat
    BY FS_CardinalityType
  <2> HIDE DEF n
  <2>2. Cardinality(1..n) = IF 1 > n THEN 0 ELSE n - 1 + 1
    BY <2>1, FS_Interval
  <2>3. IsFiniteSet(1..n)
    BY <2>1, FS_Interval
  <2> QED
    BY <2>1, <2>2, <2>3
<1>2. ASSUME NEW x \in scored
      PROVE  /\ IsFiniteSet(Above(x)) /\ Cardinality(Above(x)) \in Nat /\ x \notin Above(x)
             /\ Place(x) \in 1..n
  <2>1. x \notin Above(x)
    BY DEF Before
  <2>2. Above(x) \in SUBSET scored /\ x \in scored
    BY <1>2
  <2> HIDE DEF Above
  <2>3. IsFiniteSet(Above(x)) /\ Cardinality(Above(x)) <= n /\ Cardinality(Above(x)) # n
    BY <2>1, <2>2, FS_Subset
  <2>4. Cardinality(Above(x)) \in Nat
    BY <2>3, FS_CardinalityType
  <2> HIDE DEF n
  <2>5. 1 + Cardinality(Above(x)) \in 1..n
    BY <1>1, <2>3, <2>4
  <2> QED
    BY <2>1, <2>3, <2>4, <2>5
<1>3. ASSUME NEW x \in scored, NEW y \in scored, Before(x, y) PROVE Place(x) < Place(y)
  <2>1. Above(x) \in SUBSET Above(y)
    BY <1>3 DEF Before
  <2>2. x \in Above(y)
    BY <1>3
  <2>3. /\ IsFiniteSet(Above(y)) /\ Cardinality(Above(x)) \in Nat /\ Cardinality(Above(y)) \in Nat
        /\ x \notin Above(x)
    BY <1>2
  <2> HIDE DEF Above
  <2>4. Cardinality(Above(x)) <= Cardinality(Above(y)) /\ Cardinality(Above(y)) # Cardinality(Above(x))
    BY <2>1, <2>2, <2>3, FS_Subset
  <2> QED
    BY <2>3, <2>4
<1>4. \A x, y \in scored : x = y \/ Before(x, y) \/ Before(y, x)
  BY DEF Before
<1>5. BestFirst(scored) = [k \in 1..n |-> (CHOOSE x \in scored : Place(x) = k)[2]]
  BY DEF BestFirst
<1> HIDE DEF Place, Above, n
<1>6. \A x, y \in scored : Place(x) = Place(y) => x = y
  BY <1>2, <1>3, <1>4
<1>7. \A k \in 1..n : \E x \in scored : Place(x) = k
  <2> DEFINE place == [x \in scored |-> Place(x)]
  <2>1. place \in [scored -> 1..n] /\ \A x, y \in scored : place[x] = place[y] => x = y
    BY <1>2, <1>6
  <2> HIDE DEF place
  <2>2. place \in Injection(scored, 1..n)
    BY <2>1 DEF Injection, IsInjective
  <2>3. place \in Surjection(scored, 1..n)
    BY <1>1, <2>2, FS_Injection DEF n
  <2>4. \A k \in 1..n : \E x \in scored : place[x] = k
    BY <2>3 DEF Surjection
  <2> QED
    BY <2>4 DEF place
<1>8. at \in [1..n -> scored] /\ \A k \in 1..n : Place(at[k]) = k
  BY <1>7
<1>9. BestFirst(scored) = [k \in 1..n |-> at[k][2]]
  BY <1>5
<1> HIDE DEF at
<1>10. ASSUME NEW a \in 1..n, NEW b \in 1..n, a < b PROVE Before(at[a], at[b])
  <2>1. at[a] # at[b] /\ ~Before(at[b], at[a])
    BY <1>3, <1>8, <1>10
  <2> QED
    BY <1>4, <1>8, <2>1
<1>11. \A x \in scored : \E a \in 1..n : at[a] = x
  BY <1>2, <1>6, <1>8
<1> QED
  BY <1>8, <1>9, <1>10, <1>11 DEF n

\* The same of a sequence of scores: the positions in their order.
LEMMA PositionsSorted ==
  ASSUME NEW n \in Nat, NEW score \in [1..n -> Int]
  PROVE  LET r == BestFirst({<<score[i], i>> : i \in 1..n})
         IN /\ r \in [1..n -> 1..n]
            /\ \A a, b \in 1..n : a < b => Before(<<score[r[a]], r[a]>>, <<score[r[b]], r[b]>>)
            /\ \A i \in 1..n : \E a \in 1..n : r[a] = i
<1> DEFINE item == [i \in 1..n |-> <<score[i], i>>]
           scored == {<<score[i], i>> : i \in 1..n}
           r == BestFirst(scored)
<1>1. /\ scored \subseteq Int \X Nat
      /\ \A x \in scored : x[2] \in 1..n /\ x = <<score[x[2]], x[2]>>
      /\ \A i \in 1..n : <<score[i], i>> \in scored /\ item[i] = <<score[i], i>>
      /\ \A i, j \in 1..n : item[i] = item[j] => i = j
      /\ item \in [1..n -> scored] /\ \A x \in scored : \E i \in 1..n : item[i] = x
  OBVIOUS
<1> HIDE DEF item, scored, r
<1>2. IsFiniteSet(scored) /\ Cardinality(scored) = n
  <2>1. item \in Injection(1..n, scored)
    BY <1>1 DEF Injection, IsInjective
  <2>2. item \in Surjection(1..n, scored)
    BY <1>1 DEF Surjection
  <2>3. Cardinality(1..n) = IF 1 > n THEN 0 ELSE n - 1 + 1
    BY FS_Interval
  <2>4. IsFiniteSet(1..n) /\ Cardinality(1..n) = n
    BY <2>3, FS_Interval
  <2> QED
    BY <2>1, <2>2, <2>4, FS_Surjection
<1>3. PICK at \in [1..n -> scored] :
        /\ r = [k \in 1..n |-> at[k][2]]
        /\ \A a, b \in 1..n : a < b => Before(at[a], at[b])
        /\ \A x \in scored : \E a \in 1..n : at[a] = x
  <2>1. ASSUME NEW x \in scored, NEW y \in scored, x[2] = y[2] PROVE x = y
    <3>1. x = <<score[x[2]], x[2]>> /\ y = <<score[x[2]], x[2]>>
      BY <1>1, <2>1
    <3> QED
      BY <3>1
  <2>2. \E at \in [1..Cardinality(scored) -> scored] :
          /\ BestFirst(scored) = [k \in 1..Cardinality(scored) |-> at[k][2]]
          /\ \A a, b \in 1..Cardinality(scored) : a < b => Before(at[a], at[b])
          /\ \A x \in scored : \E a \in 1..Cardinality(scored) : at[a] = x
    BY <1>1, <1>2, <2>1, BestFirstSorts
  <2> QED
    BY <1>2, <2>2 DEF r
<1>4. r \in [1..n -> 1..n] /\ \A a \in 1..n : at[a] = <<score[r[a]], r[a]>>
  BY <1>1, <1>3
<1>5. ASSUME NEW i \in 1..n PROVE \E a \in 1..n : r[a] = i
  <2>1. PICK a \in 1..n : at[a] = <<score[i], i>>
    BY <1>1, <1>3
  <2> QED
    BY <1>3, <2>1
<1> QED
  BY <1>3, <1>4, <1>5 DEF r, scored

\* The first k of a sequence are its own, in its order.
LEMMA TakeIsAPrefix ==
  ASSUME NEW S, NEW s \in Seq(S), NEW k \in Nat
  PROVE  LET m == IF Len(s) < k THEN Len(s) ELSE k
         IN /\ m \in Nat /\ m <= Len(s)
            /\ Take(s, k) \in Seq(S) /\ Len(Take(s, k)) = m
            /\ DOMAIN Take(s, k) = 1..m /\ \A a \in 1..m : Take(s, k)[a] = s[a]
<1> DEFINE m == IF Len(s) < k THEN Len(s) ELSE k
<1>1. m \in Nat /\ m <= Len(s) /\ Take(s, k) = SubSeq(s, 1, m)
  <2>1. Len(s) \in Nat
    OBVIOUS
  <2> QED
    BY <2>1 DEF Take
<1> HIDE DEF m
<1>2. SubSeq(s, 1, m) \in Seq(S) /\ Len(SubSeq(s, 1, m)) = m /\ \A a \in 1..m : SubSeq(s, 1, m)[a] = s[a]
  BY <1>1
<1> QED
  BY <1>1, <1>2 DEF m

\* A finite set has its members in a sequence.
LEMMA SetInASequence ==
  ASSUME NEW S, IsFiniteSet(S)
  PROVE  SetToSeq(S) \in Seq(S) /\ Len(SetToSeq(S)) = Cardinality(S) /\ Cardinality(S) \in Nat
<1>1. Cardinality(S) \in Nat /\ ExistsBijection(1..Cardinality(S), S)
  BY FS_CardinalityType
<1>2. \E f \in [1..Cardinality(S) -> S] : IsInjective(f)
  BY <1>1 DEF ExistsBijection, Bijection, Injection
<1>3. SetToSeq(S) \in [1..Cardinality(S) -> S]
  BY <1>2 DEF SetToSeq
<1> HIDE DEF SetToSeq
<1> QED
  BY <1>1, <1>3

\* The best rows are rows, as many as there are and no more than k.
LEMMA BestRowsAreRows ==
  ASSUME NEW S, IsFiniteSet(S), NEW value \in [S -> Int], NEW k \in Nat
  PROVE  LET n == Cardinality(S)
         IN /\ n \in Nat /\ BestRows(value, k) \in Seq(S)
            /\ Len(BestRows(value, k)) = IF n < k THEN n ELSE k
<1> DEFINE n == Cardinality(S)
           rows == SetToSeq(S)
           score == [i \in 1..n |-> value[rows[i]]]
           scored == {<<score[i], i>> : i \in 1..n}
           best == BestFirst(scored)
           order == Take(best, k)
           m == IF n < k THEN n ELSE k
<1>1. n \in Nat /\ rows \in Seq(S) /\ Len(rows) = n
  BY SetInASequence
<1> HIDE DEF n, rows
<1>2. DOMAIN rows = 1..n /\ \A i \in 1..n : rows[i] \in S
  BY <1>1, ElementOfSeq
<1>3. score \in [1..n -> Int]
  BY <1>2
<1>4. BestRows(value, k) = [i \in DOMAIN order |-> rows[order[i]]]
  <2>1. {<<value[rows[i]], i>> : i \in DOMAIN rows} = scored
    BY <1>2
  <2> HIDE DEF scored
  <2> QED
    BY <2>1 DEF BestRows, rows
<1>5. best \in [1..n -> 1..n]
  <2> HIDE DEF score
  <2> QED
    BY <1>1, <1>3, PositionsSorted
<1> HIDE DEF best
<1>6. best \in Seq(1..n) /\ Len(best) = n
  BY <1>1, <1>5
<1>7. m \in Nat /\ order \in Seq(1..n) /\ Len(order) = m /\ DOMAIN order = 1..m
  BY <1>1, <1>6, TakeIsAPrefix
<1> HIDE DEF order
<1>8. \A i \in 1..m : rows[order[i]] \in S
  <2>1. \A i \in 1..m : order[i] \in 1..n
    BY <1>7, ElementOfSeq
  <2> QED
    BY <1>2, <2>1
<1>9. BestRows(value, k) \in Seq(S) /\ Len(BestRows(value, k)) = m
  <2> HIDE DEF m
  <2> QED
    BY <1>4, <1>7, <1>8
<1> QED
  BY <1>1, <1>9 DEF n
-----------------------------------------------------------------------------
(* The attempts. *)

\* With a quarter for recency, a shared token outranks a failure, and a failure
\* any recency: f and g are 1 for a failure.
LEMMA ScoresCompare ==
  ASSUME NEW n \in Nat, NEW o \in Nat, NEW u \in Nat, NEW f \in {0, 1}, NEW g \in {0, 1},
         NEW i \in 1..n, NEW j \in 1..n, i # j,
         LET x == 4 * n * o + 3 * n * f + (n - (i - 1))
             y == 4 * n * u + 3 * n * g + (n - (j - 1))
         IN x > y \/ (x = y /\ i < j)
  PROVE  o > u \/ (o = u /\ f > g) \/ (o = u /\ f = g /\ i < j)
<1> DEFINE d == (4 * o + 3 * f) - (4 * u + 3 * g)
<1>1. d \in Int /\ n * d = (4 * n * o + 3 * n * f) - (4 * n * u + 3 * n * g)
  OBVIOUS
<1> HIDE DEF d
<1>2. n * d >= i - j
  BY <1>1
<1>3. ~(d < 0)
  <2> SUFFICES ASSUME d <= -1 PROVE FALSE
    BY <1>1
  <2>1. n * d <= n * (-1)
    BY <1>1
  <2> QED
    BY <1>1, <1>2, <2>1
<1>4. d >= 0 /\ (d = 0 => i < j)
  <2>1. d = 0 => n * d = 0
    OBVIOUS
  <2> QED
    BY <1>1, <1>2, <1>3, <2>1
<1> QED
  BY <1>4 DEF d

\* What is shown of the log is finite and its scores are numbers.
LEMMA Overlapping == ASSUME NEW request \in Requests, NEW run PROVE Overlap(run, request) \in Nat
<1>1. IsFiniteSet((run.summary \cup {run.status}) \cap request)
  BY MemoryAssumption, FS_Subset
<1> QED
  BY <1>1, FS_CardinalityType DEF Overlap

LogInv == log \in Seq([status : Statuses, summary : Summaries])

LEMMA LogInvariant == Spec => []LogInv
<1>1. Init => LogInv
  BY DEF Init, LogInv
<1>2. LogInv /\ [Next]_vars => LogInv'
  <2> SUFFICES ASSUME LogInv, [Next]_vars PROVE LogInv'
    OBVIOUS
  <2>1. ASSUME NEW status \in Statuses, NEW text \in Summaries, FinishRun(status, text)
        PROVE  LogInv'
    BY <2>1 DEF FinishRun, LogInv
  <2>2. ASSUME log' = log PROVE LogInv'
    BY <2>2 DEF LogInv
  <2> QED
    BY <2>1, <2>2 DEF Next, vars, Ingesting, WriteNote, EditRecord, IngestReads, IngestClears,
       IngestWrites, IngestReturns, BackendChanges
<1> QED
  BY <1>1, <1>2, PTL DEF Spec

\* The candidates are the newest rows of the log, the newest first.
LEMMA CandidatesAreRecent ==
  ASSUME LogInv
  PROVE  /\ Candidates \in Seq([status : Statuses, summary : Summaries])
         /\ Len(Candidates) \in Nat /\ DOMAIN Candidates = 1..Len(Candidates)
         /\ "database" \notin down =>
              /\ Len(Candidates) = IF Len(log) < Window THEN Len(log) ELSE Window
              /\ \A i \in 1..Len(Candidates) : Candidates[i] = log[Len(log) + 1 - i]
<1> DEFINE n == IF Len(log) < Window THEN Len(log) ELSE Window
           R == [status : Statuses, summary : Summaries]
<1>1. Len(log) \in Nat /\ n \in Nat /\ n <= Len(log) /\ log \in Seq(R)
  BY MemoryAssumption DEF LogInv
<1>2. CASE "database" \in down
  BY <1>2 DEF Candidates
<1>3. CASE "database" \notin down
  <2>1. Candidates = [i \in 1..n |-> log[Len(log) + 1 - i]]
    BY <1>3 DEF Candidates, RecentRuns
  <2> HIDE DEF n, R
  <2>2. \A i \in 1..n : log[Len(log) + 1 - i] \in R
    BY <1>1
  <2>3. Candidates \in Seq(R) /\ Len(Candidates) = n
    BY <1>1, <2>1, <2>2
  <2> QED
    BY <1>1, <1>3, <2>1, <2>3 DEF n, R
<1> QED
  BY <1>2, <1>3

Better(runs, request, i, j) ==
  LET o == Overlap(runs[i], request)  u == Overlap(runs[j], request)
  IN \/ o > u
     \/ o = u /\ Failed(runs[i]) /\ ~Failed(runs[j])
     \/ o = u /\ (Failed(runs[i]) <=> Failed(runs[j])) /\ i < j

\* A run with the better score, or the newer of two with the same, is the better.
LEMMA BeforeIsBetter ==
  ASSUME NEW request \in Requests, NEW runs, NEW n \in Nat,
         NEW i \in 1..n, NEW j \in 1..n, i # j,
         Before(<<Relevance(runs[i], request, i, n), i>>, <<Relevance(runs[j], request, j, n), j>>)
  PROVE  Better(runs, request, i, j)
<1> DEFINE o == Overlap(runs[i], request)
           u == Overlap(runs[j], request)
           f == IF Failed(runs[i]) THEN 1 ELSE 0
           g == IF Failed(runs[j]) THEN 1 ELSE 0
<1>1. o \in Nat /\ u \in Nat
  BY Overlapping
<1>2. f \in {0, 1} /\ g \in {0, 1}
  OBVIOUS
<1>3. /\ Relevance(runs[i], request, i, n) = 4 * n * o + 3 * n * f + (n - (i - 1))
      /\ Relevance(runs[j], request, j, n) = 4 * n * u + 3 * n * g + (n - (j - 1))
  <2>1. 3 * n * 1 = 3 * n /\ 3 * n * 0 = 0 /\ \A x \in Int : x + 0 = x
    OBVIOUS
  <2> HIDE DEF o, u
  <2> QED
    BY <1>1, <2>1 DEF Relevance, o, u
<1> HIDE DEF o, u, f, g
<1>4. LET x == 4 * n * o + 3 * n * f + (n - (i - 1))
          y == 4 * n * u + 3 * n * g + (n - (j - 1))
      IN x > y \/ (x = y /\ i < j)
  BY <1>3 DEF Before
<1>5. o > u \/ (o = u /\ f > g) \/ (o = u /\ f = g /\ i < j)
  BY <1>1, <1>2, <1>4, ScoresCompare
<1>6. (f > g => Failed(runs[i]) /\ ~Failed(runs[j])) /\ (f = g => (Failed(runs[i]) <=> Failed(runs[j])))
  BY DEF f, g
<1> QED
  BY <1>5, <1>6 DEF Better, o, u

\* The attempts are positions of the candidates, the better before the worse, and
\* those left out come after all that are in.
LEMMA RankedAreBest ==
  ASSUME LogInv, NEW request \in Requests
  PROVE  LET runs == Candidates
             n == Len(runs)
             ranked == Ranked(runs, request)
             m == IF n < EpisodicK THEN n ELSE EpisodicK
         IN /\ ranked \in Seq(1..n) /\ Len(ranked) = m /\ DOMAIN ranked = 1..m
            /\ \A a, b \in 1..m : a < b => Better(runs, request, ranked[a], ranked[b])
            /\ \A a \in 1..m, j \in 1..n :
                 j \notin ToSet(ranked) => Better(runs, request, ranked[a], j)
<1> DEFINE runs == Candidates
           n == Len(runs)
           ranked == Ranked(runs, request)
           m == IF n < EpisodicK THEN n ELSE EpisodicK
           score == [i \in 1..n |-> Relevance(runs[i], request, i, n)]
           r == BestFirst({<<score[i], i>> : i \in 1..n})
<1>1. n \in Nat /\ EpisodicK \in Nat
  BY CandidatesAreRecent, MemoryAssumption
<1> HIDE DEF runs, n
<1>2. score \in [1..n -> Int]
  <2>1. \A i \in 1..n : Overlap(runs[i], request) \in Nat
    BY Overlapping
  <2>2. \A i \in 1..n : Relevance(runs[i], request, i, n) \in Int
    BY <1>1, <2>1 DEF Relevance
  <2> QED
    BY <2>2
<1>3. /\ r \in [1..n -> 1..n]
      /\ \A a, b \in 1..n : a < b => Before(<<score[r[a]], r[a]>>, <<score[r[b]], r[b]>>)
      /\ \A i \in 1..n : \E a \in 1..n : r[a] = i
  <2> HIDE DEF score
  <2> QED
    BY <1>1, <1>2, PositionsSorted
<1> HIDE DEF r
<1>4. \A a, b \in 1..n : a < b => Better(runs, request, r[a], r[b])
  <2> SUFFICES ASSUME NEW a \in 1..n, NEW b \in 1..n, a < b PROVE Better(runs, request, r[a], r[b])
    OBVIOUS
  <2>1. r[a] \in 1..n /\ r[b] \in 1..n
    BY <1>3
  <2>2. Before(<<Relevance(runs[r[a]], request, r[a], n), r[a]>>,
               <<Relevance(runs[r[b]], request, r[b], n), r[b]>>)
    BY <1>3, <2>1
  <2>3. r[a] # r[b]
    <3>1. CASE r[a] = r[b]
      <4>1. score[r[a]] \in Int /\ score[r[a]] = score[r[b]]
        BY <1>2, <2>1, <3>1
      <4>2. Before(<<score[r[a]], r[a]>>, <<score[r[b]], r[b]>>)
        BY <1>3
      <4> HIDE DEF score
      <4> QED
        BY <2>1, <3>1, <4>1, <4>2 DEF Before
    <3> QED
      BY <3>1
  <2> QED
    BY <1>1, <2>1, <2>2, <2>3, BeforeIsBetter
<1>5. ranked = Take(r, EpisodicK)
  <2>1. runs = Candidates /\ n = Len(runs)
    BY DEF runs, n
  <2> QED
    BY <2>1 DEF Ranked, r
<1> HIDE DEF score, ranked
<1>6. r \in Seq(1..n) /\ Len(r) = n
  BY <1>1, <1>3
<1>7. /\ ranked \in Seq(1..n) /\ Len(ranked) = m /\ DOMAIN ranked = 1..m
      /\ m \in Nat /\ m <= n /\ \A a \in 1..m : ranked[a] = r[a]
  BY <1>1, <1>5, <1>6, TakeIsAPrefix
<1>8. ASSUME NEW a \in 1..m, NEW j \in 1..n, j \notin ToSet(ranked)
      PROVE  Better(runs, request, ranked[a], j)
  <2>1. PICK b \in 1..n : r[b] = j
    BY <1>3
  <2>2. b \notin 1..m
    BY <1>7, <1>8, <2>1 DEF ToSet
  <2> QED
    BY <1>1, <1>4, <1>7, <2>1, <2>2
<1>9. \A a, b \in 1..m : a < b => Better(runs, request, ranked[a], ranked[b])
  BY <1>1, <1>4, <1>7
<1> QED
  BY <1>7, <1>8, <1>9 DEF runs, n, ranked

\* The planner's attempts are the best of the candidates in order: for any log,
\* request, window and cut, one more shared token outranks a failure and any
\* recency, a failure outranks recency, and the newer comes first otherwise.
THEOREM BestRunsFirst == Spec => []BestAttemptsFirst
<1>1. LogInv => BestAttemptsFirst
  <2> SUFFICES ASSUME LogInv, NEW request \in Requests
      PROVE LET runs == Candidates
                ranked == Ranked(runs, request)
            IN /\ \A a, b \in DOMAIN ranked : a < b => Better(runs, request, ranked[a], ranked[b])
               /\ \A a \in DOMAIN ranked, j \in DOMAIN runs \ ToSet(ranked) :
                    Better(runs, request, ranked[a], j)
    BY DEF BestAttemptsFirst, Better
  <2>1. DOMAIN Candidates = 1..Len(Candidates)
    BY CandidatesAreRecent
  <2> QED
    BY <2>1, RankedAreBest
<1> QED
  BY <1>1, LogInvariant, PTL
-----------------------------------------------------------------------------
(* The sections. *)

\* The characters of the first n bullets are finitely many, more with more bullets.
LEMMA UsedGrows ==
  ASSUME NEW bullets \in Seq(Summaries), NEW n \in Nat, NEW m \in 0..n, n <= Len(bullets)
  PROVE  /\ Used(bullets, n) \in Nat /\ Used(bullets, m) \in Nat
         /\ Used(bullets, m) <= Used(bullets, n)
<1> DEFINE Chars(i) == {i} \X (0..Length(bullets[i]))
           Sets(k) == {Chars(i) : i \in 1..k}
           All(k) == UNION Sets(k)
<1>1. ASSUME NEW i \in 1..n PROVE IsFiniteSet(Chars(i))
  <2>1. bullets[i] \in Texts \cup {{}}
    BY DEF Summaries
  <2>2. Length(bullets[i]) \in Nat
    BY <2>1, MemoryAssumption
  <2>3. IsFiniteSet(0..Length(bullets[i]))
    BY <2>2, FS_Interval
  <2>4. IsFiniteSet({i})
    BY FS_Singleton
  <2> QED
    BY <2>3, <2>4, FS_Product
<1> HIDE DEF Chars
<1>2. IsFiniteSet(Sets(n))
  <2> DEFINE f == [i \in 1..n |-> Chars(i)]
  <2>1. f \in [1..n -> Sets(n)] /\ \A x \in Sets(n) : \E i \in 1..n : f[i] = x
    OBVIOUS
  <2>2. IsFiniteSet(1..n)
    BY FS_Interval
  <2> HIDE DEF f, Sets
  <2>3. f \in Surjection(1..n, Sets(n))
    BY <2>1 DEF Surjection
  <2> QED
    BY <2>2, <2>3, FS_Surjection
<1>3. IsFiniteSet(All(n))
  <2>1. \A T \in Sets(n) : IsFiniteSet(T)
    BY <1>1
  <2> HIDE DEF Sets
  <2> QED
    BY <1>2, <2>1, FS_UNION
<1>4. All(m) \in SUBSET All(n)
  OBVIOUS
<1>5. Used(bullets, n) = Cardinality(All(n)) /\ Used(bullets, m) = Cardinality(All(m))
  BY DEF Used, Chars
<1> HIDE DEF All
<1>6. IsFiniteSet(All(m)) /\ Cardinality(All(m)) <= Cardinality(All(n))
  BY <1>3, <1>4, FS_Subset
<1> QED
  BY <1>3, <1>5, <1>6, FS_CardinalityType

\* A section keeps its first bullet, and more only within the cap.
LEMMA Capping ==
  ASSUME NEW bullets \in Seq(Summaries)
  PROVE  LET c == Capped(bullets)
         IN /\ bullets # <<>> => c # <<>> /\ c[1] = bullets[1]
            /\ Len(c) > 1 => Used(c, Len(c)) <= SectionCap
<1> DEFINE L == Len(bullets)
           Kept == {n \in 1..L : n = 1 \/ Used(bullets, n) <= SectionCap}
           k == Cardinality(Kept)
           c == Capped(bullets)
<1>1. L \in Nat /\ DOMAIN bullets = 1..L /\ c = SubSeq(bullets, 1, k)
  <2>1. L \in Nat /\ DOMAIN bullets = 1..L
    OBVIOUS
  <2>2. c = SubSeq(bullets, 1, Cardinality({n \in DOMAIN bullets :
                                              n = 1 \/ Used(bullets, n) <= SectionCap}))
    BY DEF Capped
  <2> HIDE DEF c, L
  <2> QED
    BY <2>1, <2>2
<1>2. IsFiniteSet(1..L) /\ Cardinality(1..L) = L
  <2>1. Cardinality(1..L) = IF 1 > L THEN 0 ELSE L - 1 + 1
    BY <1>1, FS_Interval
  <2>2. IsFiniteSet(1..L)
    BY <1>1, FS_Interval
  <2> QED
    BY <1>1, <2>1, <2>2
<1>3. IsFiniteSet(Kept) /\ k \in Nat /\ k <= L
  <2>1. Kept \in SUBSET (1..L)
    OBVIOUS
  <2> HIDE DEF Kept, L
  <2>2. IsFiniteSet(Kept) /\ Cardinality(Kept) <= L
    BY <1>2, <2>1, FS_Subset
  <2> QED
    BY <2>2, FS_CardinalityType
<1>4. ASSUME NEW n \in Kept, NEW m \in 1..n PROVE m \in Kept
  <2>1. n \in Nat /\ n <= L /\ m \in 0..n
    BY <1>1
  <2>2. /\ Used(bullets, n) \in Nat /\ Used(bullets, m) \in Nat
        /\ Used(bullets, m) <= Used(bullets, n)
    BY <2>1, UsedGrows
  <2>3. n = 1 \/ Used(bullets, n) <= SectionCap
    OBVIOUS
  <2>4. m \in 1..L /\ SectionCap \in Nat
    BY <1>1, MemoryAssumption
  <2> QED
    BY <2>1, <2>2, <2>3, <2>4
<1>5. k > 0 => k \in Kept
  <2> SUFFICES ASSUME k > 0, k \notin Kept PROVE FALSE
    OBVIOUS
  <2>1. k - 1 \in Nat /\ Kept \in SUBSET (1..(k-1))
    <3>1. \A n \in Kept : n \in 1..L /\ ~(k \in 1..n)
      BY <1>4
    <3> HIDE DEF Kept
    <3> QED
      BY <1>1, <1>3, <3>1
  <2> HIDE DEF k, Kept, L
  <2>2. IsFiniteSet(1..(k-1)) /\ Cardinality(1..(k-1)) = k - 1
    <3>1. Cardinality(1..(k-1)) = IF 1 > k-1 THEN 0 ELSE (k-1) - 1 + 1
      BY <1>3, FS_Interval
    <3>2. IsFiniteSet(1..(k-1))
      BY <1>3, FS_Interval
    <3> QED
      BY <1>3, <3>1, <3>2
  <2>3. Cardinality(Kept) <= k - 1
    BY <2>1, <2>2, FS_Subset
  <2> QED
    BY <1>3, <2>3 DEF k
<1>6. Len(c) = k /\ \A i \in 1..k : c[i] = bullets[i]
  <2> HIDE DEF k, c
  <2> QED
    BY <1>1, <1>3
<1>7. ASSUME bullets # <<>> PROVE c # <<>> /\ c[1] = bullets[1]
  <2>1. 1 \in Kept
    BY <1>1, <1>7
  <2>2. k # 0
    <3> HIDE DEF Kept
    <3> QED
      BY <1>3, <2>1, FS_EmptySet
  <2> HIDE DEF k, c
  <2>3. Len(c) # 0 /\ c[1] = bullets[1]
    BY <1>3, <1>6, <2>2
  <2> QED
    BY <2>3
<1>8. ASSUME Len(c) > 1 PROVE Used(c, Len(c)) <= SectionCap
  <2>1. k \in Kept /\ k # 1
    BY <1>3, <1>5, <1>6, <1>8
  <2>2. Used(bullets, k) <= SectionCap
    BY <2>1
  <2> HIDE DEF k, c
  <2>3. {{i} \X (0..Length(c[i])) : i \in 1..k} = {{i} \X (0..Length(bullets[i])) : i \in 1..k}
    BY <1>6
  <2>4. Used(c, k) = Used(bullets, k)
    BY <2>3 DEF Used
  <2> QED
    BY <1>6, <2>2, <2>4
<1> QED
  BY <1>7, <1>8

\* Whatever its nearness, some fact is found when there is one.
LEMMA SomethingIsNear ==
  ASSUME FactsInv, NEW request \in Requests
  PROVE  LET found == Nearest(request)
         IN /\ [i \in DOMAIN found |-> found[i][1].text] \in Seq(Summaries)
            /\ facts # EmptyBag => [i \in DOMAIN found |-> found[i][1].text] # <<>>
<1> DEFINE Copies(f) == {<<f, copy>> : copy \in 1..facts[f]}
           sets == {Copies(f) : f \in DOMAIN facts}
           rows == UNION sets
           value == [r \in rows |-> Nearness(request, r[1].text)]
           n == Cardinality(rows)
           found == Nearest(request)
           m == IF n < LongTermK THEN n ELSE LongTermK
<1>1. /\ IsFiniteSet(DOMAIN facts) /\ DOMAIN facts \subseteq Facts
      /\ \A f \in DOMAIN facts : facts[f] \in Nat \ {0} /\ f.text \in Texts
  BY DEF FactsInv, BagOf, Facts
<1>2. IsFiniteSet(rows)
  <2>1. ASSUME NEW f \in DOMAIN facts PROVE IsFiniteSet(Copies(f))
    <3> DEFINE row == [copy \in 1..facts[f] |-> <<f, copy>>]
    <3>1. row \in [1..facts[f] -> Copies(f)] /\ \A x \in Copies(f) : \E i \in 1..facts[f] : row[i] = x
      OBVIOUS
    <3>2. IsFiniteSet(1..facts[f])
      BY <1>1, FS_Interval
    <3> HIDE DEF row, Copies
    <3>3. row \in Surjection(1..facts[f], Copies(f))
      BY <3>1 DEF Surjection
    <3> QED
      BY <3>2, <3>3, FS_Surjection
  <2> HIDE DEF Copies
  <2>2. IsFiniteSet(sets)
    <3> DEFINE of == [f \in DOMAIN facts |-> Copies(f)]
    <3>1. of \in [DOMAIN facts -> sets] /\ \A x \in sets : \E f \in DOMAIN facts : of[f] = x
      OBVIOUS
    <3> HIDE DEF of, sets
    <3>2. of \in Surjection(DOMAIN facts, sets)
      BY <3>1 DEF Surjection
    <3> QED
      BY <1>1, <3>2, FS_Surjection
  <2>3. \A T \in sets : IsFiniteSet(T)
    BY <2>1
  <2> HIDE DEF sets
  <2> QED
    BY <2>2, <2>3, FS_UNION
<1>3. \A r \in rows : r[1] \in DOMAIN facts /\ r[1].text \in Texts
  BY <1>1
<1>4. facts # EmptyBag => rows # {}
  <2> SUFFICES ASSUME facts # EmptyBag PROVE rows # {}
    OBVIOUS
  <2>1. DOMAIN facts # {}
    BY EmptyIsABag DEF FactsInv, BagOf
  <2>2. PICK f \in DOMAIN facts : TRUE
    BY <2>1
  <2>3. <<f, 1>> \in Copies(f)
    BY <1>1
  <2> HIDE DEF Copies
  <2>4. Copies(f) \in sets
    BY <2>2
  <2> HIDE DEF sets
  <2> QED
    BY <2>3, <2>4
<1>5. value \in [rows -> Int]
  <2>1. \A r \in rows : Nearness(request, r[1].text) \in Int
    BY <1>3, MemoryAssumption
  <2> HIDE DEF rows
  <2> QED
    BY <2>1
<1>6. found = BestRows(value, LongTermK)
  BY DEF Nearest
<1> HIDE DEF rows, value, found
<1>7. n \in Nat /\ m \in Nat /\ found \in Seq(rows) /\ Len(found) = m /\ DOMAIN found = 1..m
  <2>1. LongTermK \in Nat
    BY MemoryAssumption
  <2>2. n \in Nat /\ found \in Seq(rows) /\ Len(found) = m
    BY <1>2, <1>5, <1>6, <2>1, BestRowsAreRows
  <2> QED
    BY <2>1, <2>2
<1>8. \A i \in 1..m : found[i][1].text \in Summaries
  <2>1. \A i \in 1..m : found[i] \in rows
    BY <1>7, ElementOfSeq
  <2> QED
    BY <1>3, <2>1 DEF Summaries
<1> DEFINE texts == [i \in DOMAIN found |-> found[i][1].text]
<1>9. texts \in Seq(Summaries) /\ Len(texts) = m
  <2> HIDE DEF m
  <2> QED
    BY <1>7, <1>8
<1>10. ASSUME facts # EmptyBag PROVE texts # <<>>
  <2>1. n # 0
    BY <1>2, <1>4, <1>10, FS_EmptySet
  <2>2. m # 0
    BY <1>7, <2>1, MemoryAssumption
  <2> HIDE DEF texts, m
  <2> QED
    BY <1>9, <2>2
<1> QED
  BY <1>9, <1>10 DEF found

\* The bullets of the attempts: summaries, some whenever there was a run, that of
\* the last run first when it failed and none has more in common with the request.
LEMMA AttemptsToShow ==
  ASSUME LogInv, NEW request \in Requests
  PROVE  LET ranked == Ranked(Candidates, request)
             bullets == [i \in DOMAIN ranked |-> Candidates[ranked[i]].summary]
             last == Len(log)
         IN /\ bullets \in Seq(Summaries)
            /\ "database" \notin down /\ log # <<>> => bullets # <<>>
            /\ "database" \notin down /\ last > 0 /\ Failed(log[last])
               /\ (\A i \in DOMAIN log : i + Window > last =>
                    Overlap(log[i], request) <= Overlap(log[last], request))
               => bullets # <<>> /\ bullets[1] = log[last].summary
<1> DEFINE runs == Candidates
           n == Len(runs)
           ranked == Ranked(runs, request)
           m == IF n < EpisodicK THEN n ELSE EpisodicK
           bullets == [i \in DOMAIN ranked |-> runs[ranked[i]].summary]
           last == Len(log)
           R == [status : Statuses, summary : Summaries]
<1>1. /\ n \in Nat /\ DOMAIN runs = 1..n /\ \A i \in 1..n : runs[i].summary \in Summaries
      /\ "database" \notin down =>
           /\ n = IF last < Window THEN last ELSE Window
           /\ \A i \in 1..n : runs[i] = log[last + 1 - i]
  <2>1. runs \in Seq(R) /\ n \in Nat /\ DOMAIN runs = 1..n
    BY CandidatesAreRecent
  <2>2. \A i \in 1..n : runs[i].summary \in Summaries
    <3>1. \A i \in 1..n : runs[i] \in R
      <4> HIDE DEF R, runs
      <4> QED
        BY <2>1, ElementOfSeq
    <3> HIDE DEF runs, n
    <3> QED
      BY <3>1
  <2> QED
    BY <2>1, <2>2, CandidatesAreRecent
<1>2. /\ ranked \in Seq(1..n) /\ Len(ranked) = m /\ DOMAIN ranked = 1..m
      /\ \A a, b \in 1..m : a < b => Better(runs, request, ranked[a], ranked[b])
      /\ \A a \in 1..m, j \in 1..n :
           j \notin ToSet(ranked) => Better(runs, request, ranked[a], j)
  BY RankedAreBest
<1>3. /\ Window \in Nat \ {0} /\ EpisodicK \in Nat \ {0}
      /\ last \in Nat /\ DOMAIN log = 1..last /\ (log # <<>> => last > 0)
  BY MemoryAssumption DEF LogInv
<1> HIDE DEF runs, n, ranked, last
<1>4. m \in Nat
  BY <1>1, <1>3
<1>5. bullets \in Seq(Summaries) /\ Len(bullets) = m /\ \A i \in 1..m : bullets[i] = runs[ranked[i]].summary
  <2>1. \A i \in 1..m : ranked[i] \in 1..n
    BY <1>2, ElementOfSeq
  <2>2. \A i \in 1..m : runs[ranked[i]].summary \in Summaries
    BY <1>1, <2>1
  <2>3. DOMAIN bullets = 1..m /\ \A i \in 1..m : bullets[i] = runs[ranked[i]].summary
    BY <1>2
  <2> HIDE DEF bullets, m
  <2>4. bullets = [i \in 1..m |-> runs[ranked[i]].summary]
    BY <1>2 DEF bullets
  <2>5. bullets \in [1..m -> Summaries]
    BY <2>2, <2>4
  <2> QED
    BY <1>4, <2>3, <2>5
<1> HIDE DEF bullets
<1>6. ASSUME "database" \notin down, last > 0 PROVE n >= 1 /\ m >= 1 /\ bullets # <<>>
  <2>1. n >= 1 /\ m >= 1
    BY <1>1, <1>3, <1>6
  <2> HIDE DEF m
  <2> QED
    BY <1>5, <2>1
<1>7. ASSUME "database" \notin down, last > 0, Failed(log[last]),
             \A i \in DOMAIN log : i + Window > last =>
               Overlap(log[i], request) <= Overlap(log[last], request)
      PROVE  bullets[1] = log[last].summary
  <2>1. 1 \in 1..n /\ 1 \in 1..m
    BY <1>1, <1>4, <1>6, <1>7
  <2>2. runs[1] = log[last]
    BY <1>1, <1>3, <1>7, <2>1
  <2>3. ranked[1] \in 1..n
    BY <1>2, <2>1, ElementOfSeq
  <2> DEFINE j == ranked[1]
  <2>4. Overlap(runs[j], request) <= Overlap(runs[1], request)
    <3>1. runs[j] = log[last + 1 - j]
      BY <1>1, <1>7, <2>3
    <3>2. last + 1 - j \in DOMAIN log /\ (last + 1 - j) + Window > last
      BY <1>1, <1>3, <1>7, <2>3
    <3> QED
      BY <1>7, <2>2, <3>1, <3>2
  <2>5. ~Better(runs, request, j, 1)
    <3>1. Overlap(runs[j], request) \in Nat /\ Overlap(runs[1], request) \in Nat
      BY Overlapping
    <3>2. ~(j < 1) /\ Failed(runs[1])
      BY <1>7, <2>2, <2>3
    <3> HIDE DEF j
    <3> QED
      BY <2>4, <3>1, <3>2 DEF Better
  <2>6. 1 \in ToSet(ranked)
    BY <1>2, <2>1, <2>5
  <2>7. PICK b \in 1..m : ranked[b] = 1
    BY <1>2, <2>6 DEF ToSet
  <2>8. ~(1 < b)
    BY <1>2, <2>1, <2>5, <2>7
  <2>9. ranked[1] = 1
    BY <1>4, <2>7, <2>8
  <2> HIDE DEF m
  <2> QED
    BY <1>5, <2>1, <2>2, <2>9
<1> QED
  BY <1>3, <1>5, <1>6, <1>7 DEF runs, ranked, bullets, last

\* The planner is shown how the last run failed first, when no run of the window
\* has more in common with the request, something whenever there is something to
\* say, and no more than the cap: for any log and facts, texts of any length, any
\* window, cuts and cap, and any similarity.
THEOREM PlannerIsTold == Spec => []PlannerSeesWhatMatters
<1>1. LogInv /\ FactsInv => PlannerSeesWhatMatters
  <2> SUFFICES ASSUME LogInv, FactsInv, NEW request \in Requests
      PROVE LET last == Len(log)
                attempts == Attempts(request)
                conventions == Conventions(request)
            IN /\ /\ "database" \notin down /\ last > 0 /\ Failed(log[last])
                  /\ \A i \in DOMAIN log : i + Window > last =>
                       Overlap(log[i], request) <= Overlap(log[last], request)
                  => attempts # <<>> /\ attempts[1] = log[last].summary
               /\ "database" \notin down /\ log # <<>> => attempts # <<>>
               /\ down = {} /\ facts # EmptyBag => conventions # <<>>
               /\ \A s \in {attempts, conventions} :
                    Len(s) > 1 => Used(s, Len(s)) <= SectionCap
    BY DEF PlannerSeesWhatMatters
  <2> DEFINE ranked == Ranked(Candidates, request)
             tried == [i \in DOMAIN ranked |-> Candidates[ranked[i]].summary]
             found == IF down # {} THEN <<>> ELSE Nearest(request)
             known == [i \in DOMAIN found |-> found[i][1].text]
  <2>1. Attempts(request) = Capped(tried) /\ Conventions(request) = Capped(known)
    BY DEF Attempts, Conventions
  <2>2. /\ tried \in Seq(Summaries)
        /\ "database" \notin down /\ log # <<>> => tried # <<>>
        /\ "database" \notin down /\ Len(log) > 0 /\ Failed(log[Len(log)])
           /\ (\A i \in DOMAIN log : i + Window > Len(log) =>
                Overlap(log[i], request) <= Overlap(log[Len(log)], request))
           => tried # <<>> /\ tried[1] = log[Len(log)].summary
    BY AttemptsToShow
  <2>3. /\ known \in Seq(Summaries)
        /\ down = {} /\ facts # EmptyBag => known # <<>>
    <3>1. CASE down = {}
      BY <3>1, SomethingIsNear
    <3>2. CASE down # {}
      <4>1. known = [i \in DOMAIN << >> |-> << >>[i][1].text]
        BY <3>2
      <4>2. known = << >>
        BY <4>1
      <4> QED
        BY <3>2, <4>2
    <3> QED
      BY <3>1, <3>2
  <2> HIDE DEF tried, known
  <2>4. /\ tried # <<>> => Capped(tried) # <<>> /\ Capped(tried)[1] = tried[1]
        /\ Len(Capped(tried)) > 1 => Used(Capped(tried), Len(Capped(tried))) <= SectionCap
    BY <2>2, Capping
  <2>5. /\ known # <<>> => Capped(known) # <<>> /\ Capped(known)[1] = known[1]
        /\ Len(Capped(known)) > 1 => Used(Capped(known), Len(Capped(known))) <= SectionCap
    BY <2>3, Capping
  <2> QED
    BY <2>1, <2>2, <2>3, <2>4, <2>5
<1> QED
  BY <1>1, LogInvariant, FactsInvariant, PTL
=============================================================================
