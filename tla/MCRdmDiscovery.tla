---------------------------- MODULE MCRdmDiscovery ----------------------------
(* Three-bit UIDs, 0 to 6, for TLC. *)
EXTENDS RdmDiscovery

PowersOfTwo == [n \in 0 .. 3 |-> 2 ^ n]

===============================================================================
