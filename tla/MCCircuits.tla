------------------------------ MODULE MCCircuits ------------------------------
(***************************************************************************)
(* Conflux sets seen from above: which one a stream gets (ConfluxSelect),  *)
(* how they come and go (ConfluxPool) and which legs the launcher closes   *)
(* (CircuitWatch).  Each part is explored by itself: part is chosen at     *)
(* first and only that part's variables move.  The module is itself a      *)
(* client's ConfluxPool, a ConfluxSelect and a CircuitWatch, with the      *)
(* constants of the configuration.                                         *)
(***************************************************************************)
EXTENDS ConfluxPool, ConfluxSelect, CircuitWatch

VARIABLE part

mcVars == <<part, selectVars, vars, watchVars>>

Options(policies, maxs, pcts) ==
  [policy : policies, rttMax : maxs, rttPct : pcts]

\* Five streams in a row over three sets of one RTT: the configuration's.
ThreeSets == <<"a", "b", "c">>
RoundRobin == Options({"round_robin"}, {0}, {0})

\* Every policy, with each filter on and off (70% of three sets are two), and
\* RTTs of 0 (not measured), 1 and 3.
Select == INSTANCE ConfluxSelect WITH
  LegRtts <- {{0}, {0, 1, 3}, {3}},
  Configs <- Options({"first", "round_robin", "least_streams", "fastest"},
                     {0, 2}, {0, 70}),
  MaxAttached <- 1, MaxLinks <- 1

\* An exit that gets LINK cells of one nonce on five circuits.
ExitPool == INSTANCE ConfluxPool WITH
  Client <- FALSE, Events <- {"shutdown"}

ASSUME Select!SelectAssumption
ASSUME SelectAssumption
ASSUME PoolAssumption /\ ExitPool!PoolAssumption
ASSUME WatchAssumption

MCInit ==
  /\ part \in {"select", "turns", "client", "exit", "watch"}
  /\ IF part = "select" THEN Select!SelectInit ELSE SelectInit
  /\ Init
  /\ WatchInit /\ (part # "watch" => LiveLegs = {})

MCNext ==
  \/ /\ \/ part = "select" /\ Select!SelectNext
        \/ part = "turns" /\ SelectNext
     /\ UNCHANGED <<part, vars, watchVars>>
  \/ /\ \/ part = "client" /\ Next
        \/ part = "exit" /\ ExitPool!Next
     /\ UNCHANGED <<part, selectVars, watchVars>>
  \/ /\ part = "watch" /\ WatchNext
     /\ UNCHANGED <<part, selectVars, vars>>

MCSpec == MCInit /\ [][MCNext]_mcVars

-----------------------------------------------------------------------------
(* Properties: Ownership and PoolInStep of ConfluxPool, of which both ends  *)
(* have the same circuits and objects; FailoverPick and TurnsAreFair of     *)
(* ConfluxSelect, of which both instances have the same sets; ListsFairly   *)
(* of CircuitWatch.                                                         *)
=============================================================================
