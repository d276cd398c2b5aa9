----------------------------- MODULE MCRAGJobs -----------------------------
(* Instances of RAGJobs for TLC. *)
EXTENDS RAGJobs, TLC

=============================================================================
