--------------------------- MODULE MCConfluxRefill ---------------------------
(* Small instances of ConfluxRefill for TLC. *)
EXTENDS ConfluxRefill, TLC

\* A request and two answers.
MCTwoWay == [e \in End |-> IF e = "client" THEN 1 ELSE 2]

\* The states QuietRefill speaks of are explored with all the cells of
\* MCTwoWay, the others with one.
Explored == rebuilt \/ busy => nsent["client"] + nsent["exit"] <= 1

\* The exit answers: it has no stream to send on until a cell of the client's
\* opens one in its set.
ExitAnswers == nsent'["exit"] > nsent["exit"] => out["exit"] # <<>>

AnsweringSpec == RefillInit /\ [][RefillNext /\ ExitAnswers]_refillVars

Symmetry == Permutations(InitLegs)
=============================================================================
