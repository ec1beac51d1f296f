---------------------------- MODULE MCE131Bridge ----------------------------
(* Instances of E131Bridge for TLC. *)
EXTENDS E131Bridge, TLC

\* A universe for each port.
OwnUniverse == [p \in Ports |-> p]

Symmetry == Permutations(Senders)
=============================================================================
