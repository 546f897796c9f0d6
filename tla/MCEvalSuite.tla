---------------------------- MODULE MCEvalSuite ----------------------------
EXTENDS EvalSuite

(* ALL_TASKS without defect_injection, whose stages are those of rag_required. *)
MCSuite == <<"happy_path", "rag_required", "cross_run_memory", "retrieval">>
=============================================================================
