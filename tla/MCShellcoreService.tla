------------------------- MODULE MCShellcoreService -------------------------
(* Titles whose sources lie in one container image, box. *)
EXTENDS ShellcoreService, TLC

CONSTANTS A, B, box, p1, p2

ContainerOnly == [t \in Titles |-> {box}]

Symmetry == Permutations(Titles) \cup Permutations(Pids)
=============================================================================
