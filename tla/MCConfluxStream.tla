--------------------------- MODULE MCConfluxStream ---------------------------
(* Small instances of ConfluxStream for TLC. *)
EXTENDS ConfluxStream, TLC

\* The client asks once, the exit answers with a few cells.
MCMaxCells == [e \in End |-> IF e = "client" THEN 1 ELSE 3]

\* One direction only, more cells.
MCOneWay == [e \in End |-> IF e = "client" THEN 0 ELSE 3]

Symmetry == Permutations(Legs)
=============================================================================
