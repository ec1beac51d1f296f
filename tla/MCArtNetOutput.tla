--------------------------- MODULE MCArtNetOutput ---------------------------
(* Instances of ArtNetOutput for TLC. *)
EXTENDS ArtNetOutput, TLC

\* One port for each port address, the same one for all.
OwnAddress    == [p \in Ports |-> p]
SharedAddress == [p \in Ports |-> 1]

\* Two controllers, one of which sends from two physical inputs.
ThreeSenders ==
  LET c1 == CHOOSE c \in Controllers : TRUE
  IN  {<<c1, 0>>, <<c1, 1>>} \cup {<<c, 0>> : c \in Controllers}

Symmetry == Permutations(Controllers)
=============================================================================
