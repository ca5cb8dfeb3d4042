----------------------------- MODULE MCChannel -----------------------------
(* Instances of Channel for TLC. *)
EXTENDS Channel

CONSTANTS gateway, agent

BothWays == (gateway :> 3) @@ (agent :> 2)
=============================================================================
