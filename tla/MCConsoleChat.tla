---------------------------- MODULE MCConsoleChat ----------------------------
(* Instances of ConsoleChat for TLC. *)
EXTENDS ConsoleChat, TLC

CONSTANTS p, t, u

MCPast == <<p>>
MCUserSize == (p :> 1) @@ (t :> 1) @@ (u :> 1)
=============================================================================
