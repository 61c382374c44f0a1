------------------------- MODULE MCProjectRegistry -------------------------
(* ProjectRegistry with interchangeable projects and tasks.                *)
EXTENDS ProjectRegistry, TLC

Symmetry == Permutations(Projects) \cup Permutations(Tasks)
=============================================================================
