----------------------------- MODULE MCMCPServer -----------------------------
(* Sessions of up to three messages. *)
EXTENDS MCPServer
=============================================================================
