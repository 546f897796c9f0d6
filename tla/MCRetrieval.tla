---------------------------- MODULE MCRetrieval ----------------------------
EXTENDS Retrieval

CONSTANTS imp, dec, fun, body, cls

Def(symbol, first, last, top) ==
  [symbol |-> symbol, first |-> first, last |-> last, top |-> top]
File(lines, defs, status) == [lines |-> lines, defs |-> defs, status |-> status]

Plain == File(<<imp, fun, body>>, <<Def("f", 2, 3, TRUE)>>, "parses")
\* The same chunks, one of them a line further down.
Moved == File(<<imp, Blank, fun, body>>, <<Def("f", 3, 4, TRUE)>>, "parses")
\* A decorator above the definition and a call below: the preamble spans all.
Decorated == File(<<dec, fun, body, imp>>, <<Def("f", 2, 3, TRUE)>>, "parses")
Class == File(<<cls, fun, body>>,
              <<Def("C", 1, 3, TRUE), Def("C.f", 2, 3, FALSE)>>, "parses")
Broken == File(<<imp, Blank, Blank, Blank, cls>>, <<>>, "broken")
Huge == File(<<>>, <<>>, "unreadable")

MCFiles == {Plain, Moved, Decorated, Class, Broken, Huge}

\* Fixed rankings, one query per word.
Place(text, word) ==
  IF \E i \in DOMAIN text : text[i] = word
  THEN CHOOSE i \in DOMAIN text : text[i] = word ELSE 0
MCNearness(q, text) == 10 * Len(text) - Place(text, q)
MCRelevance(q, row) ==
  IF Place(row.text, q) = 0 THEN 0 ELSE 10 + row.first - Len(row.text)
=============================================================================
