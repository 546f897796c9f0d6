----------------------------- MODULE MCWorkTree -----------------------------
EXTENDS WorkTree

(* The imported project: a test, a .gitignore, and a local file it names. *)
MCSource == [p \in Paths |-> "imported"]
MCIgnores == [c \in Contents |-> {"local.py"}]
=============================================================================
