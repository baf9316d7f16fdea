------------------------------- MODULE MCAgent ------------------------------
(* Two clients: one unlocks and uses the key, the other locks, stops the    *)
(* agent and uses the key.                                                 *)
EXTENDS Agent, TLC

CONSTANTS c1, c2

MCUses == (c1 :> {"unlock", "get"}) @@ (c2 :> {"get", "lock", "stop"})
=============================================================================
