------------------------------ MODULE MCMemory ------------------------------
EXTENDS Memory, TLC

CONSTANTS r1, r2

MCTexts == {{"a"}, {"a", "b"}}
MCRequests == {{"a"}, {"a", "b"}, {"b", "failed"}}
MCNearness(request, text) == Cardinality(request \cap text) * 2 - Cardinality(text)
Interchangeable == Permutations(Records)
MCLength(text) == 3 * Cardinality(text)
=============================================================================
