---------------------------- MODULE MCChatSession ----------------------------
(* Instances of ChatSession for TLC. *)
EXTENDS ChatSession, TLC

CONSTANTS p, t, u

MCPast == <<p>>
MCUserSize == (p :> 6) @@ (t :> 4) @@ (u :> 4)
=============================================================================
