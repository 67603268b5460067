--------------------------- MODULE ConfluxSchedule ---------------------------
(***************************************************************************)
(* Which leg of a linked set the next cell goes on (conflux.c): the        *)
(* minimum-RTT and lowest-RTT algorithms as loops over the list of legs,   *)
(* and one end of a set that sends with them while windows fill and drain, *)
(* channels block and RTTs change.  The sequence numbers of a switch are   *)
(* ConfluxStream's.                                                        *)
(***************************************************************************)
EXTENDS Naturals, SequencesExt, FiniteSetsExt

CONSTANTS
  N,          \* legs, in the order of cfx->legs
  MaxRtt,     \* bound: RTTs are 1 .. MaxRtt; 0 is not measured
  Cwnd,       \* congestion window, in cells
  SendmeInc,  \* cells acknowledged by a SENDME
  Alg,        \* conflux_choose_algorithm: "minrtt" or "lowrtt"
  Stalls      \* TRUE: the clock may not move between LINKED and LINKED_ACK

ScheduleAssumption ==
  /\ {N, MaxRtt, Cwnd, SendmeInc} \subseteq Nat \ {0}
  /\ SendmeInc <= Cwnd
  /\ Alg \in {"minrtt", "lowrtt"} /\ Stalls \in BOOLEAN

VARIABLES
  rtt,       \* circ_rtts_usec
  inflight,  \* the leg's cells in flight
  blocked,   \* circuit_blocked_on_n_chan or _p_chan
  curr,      \* curr_leg, or 0
  parity     \* ghost: flips with every DATA cell sent

vars == <<rtt, inflight, blocked, curr, parity>>

Legs == 1 .. N
Infinite == MaxRtt + 1   \* UINT64_MAX

--------------------------------------------------------------------------
(* Pure choices.  A leg number, or 0 for NULL.                             *)

\* Mutant: the last cell of the window is held back.
ReadyShort(l) == inflight[l] + 1 < Cwnd /\ ~blocked[l]

\* circuit_ready_to_send
Ready(l) == inflight[l] < Cwnd /\ ~blocked[l]

\* The test in the loops: measured, and lower than the lowest so far (which
\* starts at UINT64_MAX).
Better(l, best) ==
  /\ rtt[l] # 0
  /\ rtt[l] < IF best = 0 THEN Infinite ELSE rtt[best]

\* The loop over the legs of list s, in order.
Lowest(s) == FoldLeft(LAMBDA best, l : IF Better(l, best) THEN l ELSE best,
                      0, s)

List == [i \in Legs |-> i]
ReadyList == SelectSeq(List, Ready)

\* conflux_decide_circ_minrtt
DecideMinrtt ==
  LET l == Lowest(List) IN IF l # 0 /\ Ready(l) THEN l ELSE 0

\* conflux_decide_circ_lowrtt
DecideLowrtt == Lowest(ReadyList)

\* conflux_decide_next_circ; conflux_can_switch holds, cells_until_switch
\* being never set to anything but 0.
DecideNextCirc == IF Alg = "minrtt" THEN DecideMinrtt ELSE DecideLowrtt

\* conflux_pick_first_leg
PickFirstLeg ==
  LET s == SelectSeq(List, LAMBDA l : rtt[l] # 0)
      best == FoldLeft(LAMBDA b, l : IF b = 0 \/ rtt[l] < rtt[b] THEN l ELSE b,
                       0, s)
  IN IF best = 0 THEN 1 ELSE best

Curr == IF curr = 0 THEN PickFirstLeg ELSE curr

--------------------------------------------------------------------------

Init ==
  /\ rtt \in [Legs -> 0 .. MaxRtt]
  /\ inflight = [l \in Legs |-> 0]
  /\ blocked = [l \in Legs |-> FALSE]
  /\ curr = 0
  /\ parity = 0

\* A DATA cell: conflux_decide_circ_for_send, then the cell is queued on the
\* leg, which may fill the circuit's queue.
SendData ==
  /\ DecideNextCirc # 0
  /\ LET l == DecideNextCirc IN
     /\ curr' = l
     /\ inflight' = [inflight EXCEPT ![l] = @ + 1]
     /\ \E b \in BOOLEAN : blocked' = [blocked EXCEPT ![l] = b]
  /\ parity' = 1 - parity
  /\ UNCHANGED rtt

\* Another multiplexed command: the current leg when no leg is ready.
SendCommand ==
  /\ LET l == IF DecideNextCirc # 0 THEN DecideNextCirc ELSE Curr IN
     /\ curr' = l
     /\ \E b \in BOOLEAN : blocked' = [blocked EXCEPT ![l] = @ \/ b]
  /\ UNCHANGED <<rtt, inflight, parity>>

\* A SENDME: conflux_update_rtt with the new estimate.
Sendme(l) ==
  /\ inflight[l] >= SendmeInc
  /\ inflight' = [inflight EXCEPT ![l] = @ - SendmeInc]
  /\ \E r \in 1 .. MaxRtt : rtt' = [rtt EXCEPT ![l] = r]
  /\ UNCHANGED <<blocked, curr, parity>>

\* LINKED_ACK on an exit's leg: record_rtt_exit.
LinkedAck(l) ==
  /\ rtt[l] = 0
  /\ \E r \in (1 .. MaxRtt) \cup (IF Stalls THEN {Infinite} ELSE {}) :
       rtt' = [rtt EXCEPT ![l] = r]
  /\ UNCHANGED <<inflight, blocked, curr, parity>>

\* The channel flushed the circuit's queue.
Unblock(l) ==
  /\ blocked[l]
  /\ blocked' = [blocked EXCEPT ![l] = FALSE]
  /\ UNCHANGED <<rtt, inflight, curr, parity>>

Next ==
  \/ SendData \/ SendCommand
  \/ \E l \in Legs : Sendme(l) \/ LinkedAck(l) \/ Unblock(l)

\* Streams always have data, and one that is unblocked again and again gets to
\* read (commands may block its leg again first); what is in flight is
\* acknowledged, channels drain and LINKED_ACKs arrive.
Spec ==
  /\ Init /\ [][Next]_vars
  /\ SF_vars(SendData)
  /\ \A l \in Legs : /\ WF_vars(Sendme(l)) /\ WF_vars(LinkedAck(l))
                     /\ WF_vars(Unblock(l))

--------------------------------------------------------------------------
(* Properties.                                                             *)

Measured == {l \in Legs : rtt[l] \in 1 .. MaxRtt}
Fastest(S) == IF S = {} THEN 0
              ELSE LET r == Min({rtt[l] : l \in S})
                   IN Min({l \in S : rtt[l] = r})

\* "Return the circuit with the minimum RTT. Do not use any other circuit":
\* the loop of minrtt returns the fastest measured leg, the first of equals,
\* and nothing when that one cannot send.
MinrttIsFastest ==
  LET l == Fastest(Measured) IN
  DecideMinrtt = IF Measured # {} /\ Ready(l) THEN l ELSE 0

\* lowrtt returns the fastest of the measured legs that can send, and so uses
\* any of them before it holds data back.
LowrttIsFastestReady ==
  DecideLowrtt = Fastest({l \in Measured : Ready(l)})

\* Data keeps flowing, whichever legs fill up, block or turn slow.
DataFlows == []<>(parity = 0) /\ []<>(parity = 1)
=============================================================================
