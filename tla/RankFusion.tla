----------------------------- MODULE RankFusion -----------------------------
(***************************************************************************)
(* Reciprocal rank fusion as rag/retriever.py computes it: a key scores    *)
(* 1/(rrf_k + rank) in every list that has it, and the sum decides.  Scores*)
(* are counted in units of 1/Unit, a fraction every rank's share is a whole*)
(* multiple of.                                                            *)
(***************************************************************************)
EXTENDS Naturals, Sequences, SequencesExt, Ranking

CONSTANTS
  RrfK,        \* RagSettings.rrf_k
  CandidateK,  \* RagSettings.candidate_k, the length of each list at most
  Unit

ASSUME FusionAssumption ==
  /\ RrfK \in Nat /\ CandidateK \in Nat \ {0} /\ Unit \in Nat \ {0}
  /\ \A rank \in 1..CandidateK : Unit % (RrfK + rank) = 0

Weight(rank) == Unit \div (RrfK + rank)

Share(list, key) ==
  IF key \in ToSet(list) THEN Weight(CHOOSE i \in DOMAIN list : list[i] = key)
  ELSE 0

ScoreOfFirstList(vec, lex, key) ==
  IF key \in ToSet(vec) THEN Share(vec, key) ELSE Share(lex, key)

\* rrf_scores
Score(vec, lex, key) == Share(vec, key) + Share(lex, key)

\* Where the dictionary of scores receives a key that it does not have yet.
Arrivals(keys) == {i \in DOMAIN keys : \A j \in 1..(i - 1) : keys[j] # keys[i]}

\* The sort of Retriever.retrieve: by score, ties as they arrived, cut at k.
Fuse(vec, lex, k) ==
  LET keys == vec \o lex
      scored == {<<Score(vec, lex, keys[i]), i>> : i \in Arrivals(keys)}
      ranked == Take(BestFirst(scored), k)
  IN [i \in DOMAIN ranked |-> keys[ranked[i]]]
=============================================================================
