------------------------------ MODULE Ranking ------------------------------
(***************************************************************************)
(* What memory/episodic.py and rag/retriever.py do with scores: a stable   *)
(* sort, the highest first, cut at k; and the ORDER BY ... LIMIT of their  *)
(* queries, which leaves the order of equals open.                         *)
(***************************************************************************)
EXTENDS Integers, Sequences, FiniteSets, SequencesExt

\* A score and its position come before another: higher, or first of equals.
Before(x, y) == x[1] > y[1] \/ (x[1] = y[1] /\ x[2] < y[2])

\* sorted(..., reverse=True): the positions of a set of scores with their
\* positions, best first.
BestFirst(scored) ==
  LET Place(x) == 1 + Cardinality({y \in scored : Before(y, x)})
  IN [k \in 1..Cardinality(scored) |-> (CHOOSE x \in scored : Place(x) = k)[2]]

Take(s, k) == SubSeq(s, 1, IF Len(s) < k THEN Len(s) ELSE k)

\* The k best rows, by a function that gives every row its value.
BestRows(value, k) ==
  LET rows == SetToSeq(DOMAIN value)
      order == Take(BestFirst({<<value[rows[i]], i>> : i \in DOMAIN rows}), k)
  IN [i \in DOMAIN order |-> rows[order[i]]]
=============================================================================
