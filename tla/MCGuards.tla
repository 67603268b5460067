------------------------------- MODULE MCGuards -------------------------------
(***************************************************************************)
(* Small instances of EntryGuards, two circuits over three guards, in one  *)
(* run: part is chosen at first and says which instance it is.  The module *)
(* is itself the one with a change of the consensus or of the filter,      *)
(* pruning, and restarts from an older state file.                         *)
(***************************************************************************)
EXTENDS EntryGuards, TLC

VARIABLE part

\* All three guards are sampled.
Order == INSTANCE EntryGuards WITH
  MinFiltered <- 2, MaxSample <- 3, Restarts <- FALSE, MaxChanges <- 0

\* Circuits exclude no guard, or one.
Excluding == INSTANCE EntryGuards WITH
  MinFiltered <- 2, MaxSample <- 2, Restarts <- FALSE, MaxChanges <- 0,
  Restrictions <- {{}} \cup {{g} : g \in Guards}

ASSUME Order!GuardAssumption /\ Excluding!GuardAssumption
ASSUME GuardAssumption

MCInit ==
  \/ part = "order" /\ Order!Init
  \/ part = "excluding" /\ Excluding!Init
  \/ part = "restarting" /\ Init

MCNext ==
  /\ \/ part = "order" /\ Order!Next
     \/ part = "excluding" /\ Excluding!Next
     \/ part = "restarting" /\ Next
  /\ UNCHANGED part

MCSpec == MCInit /\ [][MCNext]_<<part, vars>>

\* Guards, and circuits, are interchangeable.
Sym == Permutations(Guards) \cup Permutations(Circs)

\* The properties are those of EntryGuards, and SelectionProofs proves them.
=============================================================================
