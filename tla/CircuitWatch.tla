----------------------------- MODULE CircuitWatch -----------------------------
(***************************************************************************)
(* The circuit health monitor (CircuitWatchLoop in start-tor.cs).  Every   *)
(* pass asks tor for the legs of every conflux set, tops up short sets,    *)
(* ranks the linked legs by RTT, counts strikes and then closes the worst  *)
(* legs one by one, while tor links, measures, switches, loses and         *)
(* replaces legs beside it.  What tor does with a closed leg is            *)
(* linked_circuit_closed (conflux_pool.c): a set whose current leg goes is *)
(* torn down.                                                              *)
(***************************************************************************)
EXTENDS Naturals, FiniteSets, FiniteSetsExt

CONSTANTS
  Legs,                  \* circuit slots; a new circuit has no history
  WatchSets,             \* conflux sets
  MaxRtt,                \* bound: RTTs are 1 .. MaxRtt, 0 is not measured
  WatchRttPct,           \* watchRttPct, 1 .. 100
  WatchStrikes,          \* watchStrikes
  WatchUnlinkedStrikes,  \* watchUnlinkedStrikes
  WatchMaxPerPass,       \* watchMaxPerPass
  ConfluxLegs,           \* confluxLegs
  Fates                  \* what may become of a leg's set when it closes:
                         \* subset of {"replaced", "lost", "teardown"}

WatchAssumption ==
  /\ IsFiniteSet(Legs) /\ MaxRtt \in Nat /\ WatchRttPct \in 1 .. 100
  /\ {WatchStrikes, WatchUnlinkedStrikes, WatchMaxPerPass} \subseteq Nat \ {0}

VARIABLES
  leg,             \* leg[l]: what tor has in slot l
  curr,            \* curr[s]: the current leg of set s, or none
  weakStrikes,     \* weakStrikes
  unlinkedStrikes, \* unlinkedStrikes
  grown,           \* grown[l]: unlinkedFirstSeen is watchUnlinkedGraceS ago
  warmup,          \* circuitWatchWarmup
  cooling,         \* lastClose is less than watchCooldownS ago
  todo,            \* toRemove: the legs still to be closed in this pass
  best,            \* ghost: the pool's lowest RTT leg of this pass, {} if none
                   \* or if tor has lost a leg since
  streak           \* ghost, streak[l]: passes in a row that ranked l weak

counts == <<weakStrikes, unlinkedStrikes, grown>>
watchVars == <<leg, curr, counts, warmup, cooling, todo, best, streak>>

NoLeg == [at |-> "none", set |-> 0, rtt |-> 0]
New(s) == [at |-> "unlinked", set |-> s, rtt |-> 0]

LiveLegs == {l \in Legs : leg[l].at # "none"}
LinkedLegs == {l \in Legs : leg[l].at = "linked"}
OfSet(s) == {l \in LiveLegs : leg[l].set = s}

WatchInit ==
  /\ leg \in [Legs -> {NoLeg} \cup {New(s) : s \in WatchSets}]
  /\ curr = [s \in WatchSets |-> {}]
  /\ weakStrikes = [l \in Legs |-> 0]
  /\ unlinkedStrikes = [l \in Legs |-> 0]
  /\ grown = [l \in Legs |-> FALSE]
  /\ warmup = TRUE /\ cooling = FALSE
  /\ todo = {}
  /\ best = {}
  /\ streak = [l \in Legs |-> 0]

-----------------------------------------------------------------------------
(* One pass.                                                                *)

\* The linked legs with a real RTT.
Pool == {l \in LinkedLegs : leg[l].rtt > 0}

\* How many of n legs are weak: the percentage rounded up, at least one and
\* at most all but one.
Keep(n) == LET k == (n * WatchRttPct + 99) \div 100 IN
           Min({Max({k, 1}), n - 1})

\* The subsets of S with k of its highest RTTs: sorting leaves ties open.
Slowest(S, k) ==
  {W \in kSubset(k, S) :
     \A w \in W, x \in S \ W : leg[w].rtt >= leg[x].rtt}

\* pctWeak
PctWeak == IF Cardinality(Pool) >= 2
           THEN Slowest(Pool, Keep(Cardinality(Pool))) ELSE {{}}

\* Mutant: a leg that is not weak keeps its strikes.
StrikesStay(weak, l) ==
  IF l \in weak THEN weakStrikes[l] + 1 ELSE weakStrikes[l]

\* A leg's weak strikes after the pass.
Strikes(weak, l) ==
  IF l \notin LiveLegs THEN 0
  ELSE IF l \in weak THEN weakStrikes[l] + 1
  ELSE IF l \in Pool THEN 0 ELSE weakStrikes[l]

UnlinkedStrikes(l) == IF leg[l].at = "unlinked" THEN unlinkedStrikes[l] + 1
                      ELSE IF l \in LiveLegs \ Pool THEN unlinkedStrikes[l] ELSE 0

\* Sets that are short of legs get one more, as many as a pass may add; tor
\* may refuse.
TopUp(added) ==
  /\ Cardinality(added) <= WatchMaxPerPass
  /\ \A l \in added :
       /\ leg'[l].at = "unlinked"
       /\ OfSet(leg'[l].set) # {}
       /\ Cardinality(OfSet(leg'[l].set)) < ConfluxLegs
       /\ \A k \in added \ {l} : leg'[k].set # leg'[l].set

Cap(n) == IF n > WatchStrikes + 1 THEN WatchStrikes + 1 ELSE n
UnCap(n) == IF n > WatchUnlinkedStrikes THEN WatchUnlinkedStrikes ELSE n

\* The pass: top up, rank, count strikes, choose what to close.  The counts
\* are capped above the values the code compares them with.
WatchPass ==
  /\ todo = {} /\ (warmup \/ ~cooling)
  /\ \E added \in SUBSET (Legs \ LiveLegs) :
       \E into \in [added -> WatchSets] :
         /\ leg' = [l \in Legs |-> IF l \in added THEN New(into[l]) ELSE leg[l]]
         /\ TopUp(added)
  /\ \E weak \in PctWeak :
       LET struck == {l \in weak : Strikes(weak, l) >= WatchStrikes}
           stuck == {l \in LiveLegs :
                       /\ leg[l].at = "unlinked" /\ ~warmup /\ grown[l]
                       /\ UnlinkedStrikes(l) >= WatchUnlinkedStrikes}
           room(R) == Min({WatchMaxPerPass - Cardinality(R), Cardinality(stuck)})
       IN \E R \in Slowest(struck, Min({WatchMaxPerPass, Cardinality(struck)})) :
          \E S \in kSubset(room(R), stuck) :
            /\ todo' = R \cup S
            /\ weakStrikes' = [l \in Legs |-> Cap(Strikes(weak, l))]
            /\ unlinkedStrikes' = [l \in Legs |-> IF l \in S THEN 0
                                                  ELSE UnCap(UnlinkedStrikes(l))]
            /\ best' = IF Pool \ weak = {} THEN {}
                       ELSE {CHOOSE b \in Pool \ weak :
                               \A x \in Pool : leg[b].rtt <= leg[x].rtt}
            /\ streak' = [l \in Legs |-> IF l \in weak THEN Cap(streak[l] + 1)
                                         ELSE 0]
  /\ grown' = [l \in Legs |-> grown[l] /\ leg[l].at = "unlinked"]
  /\ UNCHANGED <<curr, warmup, cooling>>

\* tor's side of a leg's end.  The set is torn down if the leg was current
\* (or had data in flight), else the leg may be replaced.  Circuit ids are not
\* used twice: what was counted for a circuit, and a CLOSECIRCUIT that comes
\* too late, never concerns the next circuit in its slot.
Closed(l, fate) ==
  LET s == leg[l].set
      gone == IF fate = "teardown" THEN OfSet(s) ELSE {l} IN
  /\ fate \in Fates
  /\ curr[s] = {l} => fate = "teardown"
  /\ \E fresh \in SUBSET ((Legs \ LiveLegs) \cup {l}) :
       /\ Cardinality(fresh) = IF fate = "replaced" THEN 1 ELSE 0
       /\ leg' = [k \in Legs |-> IF k \in fresh THEN New(s)
                                 ELSE IF k \in gone THEN NoLeg ELSE leg[k]]
  /\ curr' = IF fate = "teardown" THEN [curr EXCEPT ![s] = {}] ELSE curr
  /\ todo' = todo \ gone
  /\ weakStrikes' = [k \in Legs |-> IF k \in gone THEN 0 ELSE weakStrikes[k]]
  /\ unlinkedStrikes' = [k \in Legs |-> IF k \in gone THEN 0
                                        ELSE unlinkedStrikes[k]]
  /\ grown' = [k \in Legs |-> grown[k] /\ k \notin gone]
  /\ streak' = [k \in Legs |-> IF k \in gone THEN 0 ELSE streak[k]]

\* CLOSECIRCUIT for one of them.
CloseOne(l, fate) ==
  /\ l \in todo
  /\ Closed(l, fate)
  /\ cooling' = TRUE
  /\ UNCHANGED <<warmup, best>>

-----------------------------------------------------------------------------
(* Beside it: time, and tor.                                                *)

WarmupEnds == /\ warmup /\ warmup' = FALSE
              /\ UNCHANGED <<leg, curr, counts, cooling, todo, best, streak>>

CooldownEnds == /\ cooling /\ cooling' = FALSE
                /\ UNCHANGED <<leg, curr, counts, warmup, todo, best, streak>>

GraceEnds(l) ==
  /\ unlinkedStrikes[l] > 0 /\ leg[l].at = "unlinked" /\ ~grown[l]
  /\ grown' = [grown EXCEPT ![l] = TRUE]
  /\ UNCHANGED <<leg, curr, weakStrikes, unlinkedStrikes, warmup, cooling,
                 todo, best, streak>>

\* A leg is linked, and has its RTT measured again and again.
LegLinks(l, rtt) ==
  /\ l \in LiveLegs
  /\ leg' = [leg EXCEPT ![l].at = "linked", ![l].rtt = rtt]
  /\ UNCHANGED <<curr, counts, warmup, cooling, todo, best, streak>>

\* The scheduler moves the set to another leg.
CurrMoves(l) ==
  /\ l \in Pool /\ curr[leg[l].set] # {l}
  /\ curr' = [curr EXCEPT ![leg[l].set] = {l}]
  /\ UNCHANGED <<leg, counts, warmup, cooling, todo, best, streak>>

\* A leg ends by itself.
LegCloses(l, fate) ==
  /\ l \in LiveLegs
  /\ Closed(l, fate)
  /\ best' = {}
  /\ UNCHANGED <<warmup, cooling>>

Monitor == WatchPass \/ \E l \in Legs, fate \in Fates : CloseOne(l, fate)

WatchNext ==
  \/ Monitor \/ WarmupEnds \/ CooldownEnds
  \/ \E l \in Legs : \/ GraceEnds(l) \/ CurrMoves(l)
                     \/ \E rtt \in 0 .. MaxRtt :
                          (rtt = 0 => leg[l].at = "unlinked") /\ LegLinks(l, rtt)
                     \/ \E fate \in Fates : LegCloses(l, fate)

\* The monitor thread runs and its clocks advance.
WatchFairness ==
  /\ WF_watchVars(Monitor) /\ WF_watchVars(WarmupEnds) /\ WF_watchVars(CooldownEnds)
  /\ \A l \in Legs : WF_watchVars(GraceEnds(l))

WatchSpec == WatchInit /\ [][WatchNext]_watchVars
FairWatchSpec == WatchSpec /\ WatchFairness

-----------------------------------------------------------------------------
(* Properties.                                                              *)

\* Whatever the percentage and the ties, a pass that finds two measured legs
\* or more leaves at least one leg of the lowest RTT out of its list.
SparesBest ==
  todo = {} /\ todo' # {} /\ Cardinality(Pool) >= 2 =>
    \E b \in Pool \ todo' : \A x \in Pool : leg[b].rtt <= leg[x].rtt

\* A leg that is listed for its RTT has been among the slowest in that many
\* passes in a row: recoveries, other legs coming and going and slots changing
\* hands give no leg another's strikes.
ListsTheStruck ==
  todo = {} => \A l \in todo' :
                 leg[l].at = "linked" => streak'[l] >= WatchStrikes

\* A pass of CircuitWatchLoop lists no leg unfairly: one of the lowest RTT is
\* left out (SparesBest), and what is listed for its RTT has earned its strikes
\* (ListsTheStruck).
ListsFairly == [][SparesBest /\ ListsTheStruck]_watchVars

-----------------------------------------------------------------------------
\* What a comment, an assertion or a name in the source says and the code does
\* not keep (README, section "Departures"): TLC refutes each of these.

\* The monitor closes weak legs, never the best one ("the single best leg in
\* the pool is never closed").
BestNeverClosed ==
  [][best' = best =>
       \A b \in best : leg[b].at = "linked" => leg'[b].at = "linked"]_watchVars

\* A leg that stays unlinked is closed in the end ("Legs stuck UNLINKED for
\* --watch-unlinked-strikes passes are closed as dead weight").
StuckIsClosed ==
  \A l \in Legs :
    grown[l] /\ leg[l].at = "unlinked" ~>
      ~grown[l] \/ leg[l].at = "linked" \/ l \in todo
=============================================================================
