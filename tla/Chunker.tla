------------------------------ MODULE Chunker ------------------------------
(***************************************************************************)
(* rag/chunker.py as operators on one file.  A file is its lines, each     *)
(* Blank or some text, and the definitions tree-sitter finds in it, in the *)
(* order visit meets them (outer before inner).  A chunk's content_hash is *)
(* a function of its text alone, so the text stands for it.                *)
(***************************************************************************)
EXTENDS Naturals, Sequences

CONSTANTS
  Blank,       \* a line without text
  NoSymbol,    \* the symbol of a chunk that is no definition
  WindowLines  \* _WINDOW_LINES

ASSUME ChunkerAssumption == WindowLines \in Nat \ {0}

(***************************************************************************)
(* file.lines  : Seq(line)                                                 *)
(* file.defs   : Seq([symbol, first, last, top]), top: not inside another  *)
(* file.status : "parses", "broken" (the parser raises), or "unreadable"   *)
(*               (too large, not UTF-8, not a file: read by nobody)        *)
(***************************************************************************)
LineNumbers(file) == 1..Len(file.lines)

IsSequence(s) == s \in Seq({s[i] : i \in DOMAIN s})

\* The definitions are nodes of the tree of the file's own lines.
WellFormed(file) ==
  /\ IsSequence(file.lines) /\ IsSequence(file.defs)
  /\ \A i \in DOMAIN file.defs :
       /\ file.defs[i].last \in LineNumbers(file)
       /\ file.defs[i].first \in 1..file.defs[i].last

Written(file) == {n \in LineNumbers(file) : file.lines[n] # Blank}

Chunk(file, symbol, first, last) ==
  [symbol |-> symbol, first |-> first, last |-> last,
   text |-> SubSeq(file.lines, first, last)]

\* _dedupe: of definitions with one span, hence one text, the first stays.
FirstOfItsSpan(file, i) ==
  \A j \in 1..(i - 1) : \/ file.defs[j].first # file.defs[i].first
                        \/ file.defs[j].last # file.defs[i].last

DefinitionChunks(file) ==
  {Chunk(file, file.defs[i].symbol, file.defs[i].first, file.defs[i].last) :
     i \in {j \in DOMAIN file.defs : FirstOfItsSpan(file, j)}}

\* covered_lines: the lines of the top-level definitions.
Covered(file) ==
  UNION {file.defs[i].first..file.defs[i].last :
           i \in {j \in DOMAIN file.defs : file.defs[j].top}}

Least(S) == CHOOSE n \in S : \A m \in S : n <= m
Greatest(S) == CHOOSE n \in S : \A m \in S : m <= n

\* The preamble cut at the first definition, as a shorter version would have it.
PreambleBeforeDefinitions(file) ==
  LET kept == {n \in Written(file) \ Covered(file) :
                 \A m \in Covered(file) : n < m}
  IN IF kept = {} THEN {}
     ELSE {Chunk(file, NoSymbol, Least(kept), Greatest(kept))}

\* _module_preamble: one chunk from the first to the last line that is in no
\* top-level definition, whatever lies between them.
Preamble(file) ==
  LET kept == Written(file) \ Covered(file)
  IN IF kept = {} THEN {}
     ELSE {Chunk(file, NoSymbol, Least(kept), Greatest(kept))}

StructuralChunks(file) == Preamble(file) \cup DefinitionChunks(file)

WindowEnd(file, first) ==
  IF first + WindowLines - 1 <= Len(file.lines)
  THEN first + WindowLines - 1 ELSE Len(file.lines)

\* _line_window_chunks: fixed windows, those without text left out.
WindowChunks(file) ==
  LET starts == {n \in LineNumbers(file) : (n - 1) % WindowLines = 0}
  IN {Chunk(file, NoSymbol, n, WindowEnd(file, n)) :
        n \in {s \in starts : s..WindowEnd(file, s) \cap Written(file) # {}}}

\* chunk_source behind _chunk_file: no chunk of a file that cannot be read,
\* windows where the structure cannot be had or is empty.
Chunks(file) ==
  IF file.status = "unreadable" THEN {}
  ELSE IF file.status = "parses" /\ StructuralChunks(file) # {}
       THEN StructuralChunks(file)
       ELSE WindowChunks(file)
=============================================================================
