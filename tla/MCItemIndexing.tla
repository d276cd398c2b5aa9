--------------------------- MODULE MCItemIndexing ---------------------------
(* Instances of ItemIndexing for TLC. *)
EXTENDS ItemIndexing, TLC

=============================================================================
