------------------------------ MODULE MCTransfer ------------------------------
(***************************************************************************)
(* What must go on for ever or come to an end: data over the legs of a set *)
(* (ConfluxSchedule) and the recursive calls of the conflux pool           *)
(* (ConfluxPool); and, which this module is itself, the congestion window  *)
(* of a circuit (CongestionControl) and the scheduler of two channels      *)
(* (ChannelSched).  Each part is explored by itself: part is chosen at     *)
(* first and only that part's variables move.                              *)
(***************************************************************************)
EXTENDS CongestionControl, ChannelSched

VARIABLES
  part,
  rtt, inflight, legBlocked, curr, parity,
  circ, unl, lpool, obj, stk, mem, down

legVars == <<rtt, inflight, legBlocked, curr, parity>>
poolVars == <<circ, unl, lpool, obj, stk, mem, down>>
mcVars == <<part, vars, legVars, schedVars, poolVars>>

\* The parameters keep the order of their defaults at about a tenth of the
\* size: two increments in the smallest window, gamma and alpha above one,
\* delta above beta.
MCPar ==
  [inc |-> 2, cwndInit |-> 4, cwndMin |-> 4, cwndMax |-> 7, cwndInc |-> 1,
   incRate |-> 1, pctSS |-> 100, ssCap |-> 5, ssMax |-> 6, ewmaSS |-> 2,
   ewmaPct |-> 50, ewmaMax |-> 10, jump |-> 3, alpha |-> 2, beta |-> 3,
   gamma |-> 4, delta |-> 4, fullGap |-> 0, fullMinPct |-> 25,
   resetPct |-> 100, fullPerCwnd |-> TRUE]

\* Three legs under each scheduler.
Lowrtt == INSTANCE ConfluxSchedule WITH
  N <- 3, MaxRtt <- 2, Cwnd <- 2, SendmeInc <- 2, Alg <- "lowrtt",
  Stalls <- FALSE, blocked <- legBlocked

Minrtt == INSTANCE ConfluxSchedule WITH
  N <- 3, MaxRtt <- 2, Cwnd <- 2, SendmeInc <- 2, Alg <- "minrtt",
  Stalls <- FALSE, blocked <- legBlocked

\* A client's set, through four circuits.
Pool == INSTANCE ConfluxPool WITH
  Circs <- 1 .. 4, Objs <- 1 .. 5, Client <- TRUE, NumLegs <- 2,
  MaxLegs <- 3, MaxLaunch <- 4, Events <- {"memory", "add"}

ASSUME CongestionControlAssumption /\ DefaultOrder
ASSUME Lowrtt!ScheduleAssumption /\ Minrtt!ScheduleAssumption
ASSUME SchedAssumption
ASSUME Pool!PoolAssumption

Scheduling == part \in {"lowrtt", "minrtt"}

MCInit ==
  /\ part \in {"window", "lowrtt", "minrtt", "channels", "pool"}
  /\ Init
  /\ Lowrtt!Init /\ (~Scheduling => \A l \in 1 .. 3 : rtt[l] = 0)
  /\ SchedInit /\ (part # "channels" => kist)
  /\ Pool!Init

MCNext ==
  \/ /\ part = "window" /\ Next
     /\ UNCHANGED <<part, legVars, schedVars, poolVars>>
  \/ /\ \/ part = "lowrtt" /\ Lowrtt!Next
        \/ part = "minrtt" /\ Minrtt!Next
     /\ UNCHANGED <<part, vars, schedVars, poolVars>>
  \/ /\ part = "channels" /\ SchedNext
     /\ UNCHANGED <<part, vars, legVars, poolVars>>
  \/ /\ part = "pool" /\ Pool!Next
     /\ UNCHANGED <<part, vars, legVars, schedVars>>

\* The fairness of each part, for the part that runs.
Fairness ==
  /\ SF_legVars(\/ part = "lowrtt" /\ Lowrtt!SendData
                \/ part = "minrtt" /\ Minrtt!SendData)
  /\ \A l \in 1 .. 3 : /\ WF_legVars(Scheduling /\ Lowrtt!Sendme(l))
                       /\ WF_legVars(Scheduling /\ Lowrtt!LinkedAck(l))
                       /\ WF_legVars(Scheduling /\ Lowrtt!Unblock(l))
  /\ WF_schedVars(part = "channels" /\ RunStep)
  /\ SF_schedVars(part = "channels" /\ Socket(1))
  /\ WF_poolVars(part = "pool" /\ Pool!Calls)

MCSpec == MCInit /\ [][MCNext]_mcVars /\ Fairness

-----------------------------------------------------------------------------
(* Properties: SendmesMatch and WindowStaysOpen, which CongestionControl    *)
(* defines and FlowControlProofs proves, HeapIsSound, which ChannelSched    *)
(* defines and EventLoopProofs proves, and those of the parts that run.     *)

\* Cells queued on channel 1 are flushed, unless it closes, also if the socket
\* of the other channel is never served.
CellsLeave == []<>(part = "channels" => ~Waits(1))

\* A close, a launch or a teardown comes back: failures to launch that call
\* right back into conflux_launch_leg run out of launches.
CallsReturn == []<>(part = "pool" => Pool!Idle)

\* Data takes the fastest leg and keeps flowing.  conflux_decide_circ_minrtt
\* returns the fastest measured leg, the first of equals, and nothing when that
\* one cannot send; conflux_decide_circ_lowrtt the fastest of the measured legs
\* that can send; and under both, whichever legs fill up, block or turn slow,
\* data is sent again and again.
DataFlows ==
  /\ [](part = "minrtt" => Minrtt!MinrttIsFastest)
  /\ [](part = "lowrtt" => Lowrtt!LowrttIsFastestReady)
  /\ []<>(Scheduling => parity = 0)
  /\ []<>(Scheduling => parity = 1)
=============================================================================
