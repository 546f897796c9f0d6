---------------------------- MODULE MCRunManager ----------------------------
(* Instances of RunManager for TLC: the configurations give every constant its
   value. The liveness properties of a run rule symmetry out. *)
EXTENDS RunManager, TLC
=============================================================================
