------------------------ MODULE CongestionControl ------------------------
(* Congestion control of one circuit, end to end: the sender's window as TOR *)
(* VEGAS moves it, the timestamps and digests it keeps for the SENDMEs it     *)
(* expects, and the receiver that acknowledges every sendme_inc cells         *)
(* (congestion_control_common.c, congestion_control_vegas.c, sendme.c).       *)
(*                                                                            *)
(* Cells are named by their number modulo Ids, which is more than can be in   *)
(* flight. Round trip times are small numbers chosen when a SENDME arrives;   *)
(* 0 is a clock that has not moved. Par holds the consensus parameters, scaled*)
(* down. Unsigned counters wrap at Wrap, which stands for 2^64.               *)
EXTENDS Naturals, Integers, Sequences, SequencesExt

CONSTANTS
  Par,      \* the consensus parameters, see the assumption
  Rtts,     \* round trip times
  Queues,   \* cells that may wait in the queue of the channel
  Ids,
  Wrap

\* The ranges of the parameters in congestion_control_new_consensus_params,
\* congestion_control_init_params and congestion_control_vegas_set_params.
CongestionControlAssumption ==
  /\ Ids \in Nat \ {0} /\ Wrap \in Nat \ {0}
  /\ Rtts \subseteq Nat /\ Queues \subseteq Nat
  /\ \A f \in {"inc", "cwndInit", "cwndMin", "cwndMax", "cwndInc", "incRate",
               "pctSS", "ssCap", "ssMax", "ewmaSS", "ewmaPct", "ewmaMax",
               "jump"} : Par[f] \in Nat \ {0}
  /\ \A f \in {"alpha", "beta", "gamma", "delta", "fullGap", "fullMinPct",
               "resetPct"} : Par[f] \in Nat
  /\ Par.fullPerCwnd \in BOOLEAN

\* The order of the defaults: 31 cells in an increment, windows of 124 cells or
\* more, gamma of 124 cells or more.  The ranges of the parameters enforce a
\* part of it: a percentage is one, and the windows hold 31 cells.  Numbers of
\* cells are told apart, and counters do not overflow, in the largest window.
DefaultOrder ==
  /\ Par.inc >= 2
  /\ Par.inc <= Par.cwndMin /\ Par.inc <= Par.gamma /\ Par.inc <= Par.ssMax
  /\ Par.inc <= Par.cwndInit /\ Par.cwndInit <= Par.cwndMax
  /\ Par.resetPct <= 100
  /\ Par.cwndMax < Ids /\ Par.cwndMax < Wrap

VARIABLES
  cc,       \* congestion_control_t
  stamps,   \* length of sendme_pending_timestamps
  digests,  \* sendme_last_digests
  sent,     \* number of the last cell sent
  got,      \* number of the last cell received by the peer
  owed,     \* cells the peer has received since its last SENDME
  acks,     \* SENDMEs on their way, each with the cell it answers
  broken,   \* is_monotime_clock_broken
  blocked,  \* the channel does not take cells of this circuit
  closed    \* the circuit is closed for a protocol violation

vars == <<cc, stamps, digests, sent, got, owed, acks, broken, blocked, closed>>

larger(a, b) == IF a > b THEN a ELSE b
smaller(a, b) == IF a < b THEN a ELSE b
Minus(a, b) == (a - b) % Wrap

Init ==
  /\ cc = [cwnd |-> Par.cwndInit, inflight |-> 0, ss |-> TRUE, full |-> FALSE,
           chan |-> FALSE, nextCc |-> 1, nextCwnd |-> 0, ewma |-> 0,
           min |-> 0, bdp |-> 0]
  /\ stamps = 0 /\ digests = <<>>
  /\ sent = 0 /\ got = 0 /\ owed = 0 /\ acks = <<>>
  /\ broken = FALSE /\ blocked = FALSE /\ closed = FALSE

----------------------------------------------------------------------------
(* The peers.                                                                 *)

\* congestion_control_get_package_window.
PackageWindow == IF cc.inflight > cc.cwnd THEN 0 ELSE cc.cwnd - cc.inflight

\* Mutant: the cell is counted before the question is asked.
AnsweredLate == cc.inflight # 0 /\ cc.inflight % Par.inc = 0

\* circuit_sent_cell_for_sendme: will the next cell be answered?
Answered == cc.inflight # 0 /\ (cc.inflight + 1) % Par.inc = 0

\* A DATA cell is packaged: sendme_record_cell_digest_on_circ, then
\* congestion_control_note_cell_sent.
Send ==
  /\ PackageWindow > 0
  /\ sent' = (sent + 1) % Ids
  /\ cc' = [cc EXCEPT !.inflight = @ + 1]
  /\ IF Answered
     THEN digests' = Append(digests, sent') /\ stamps' = stamps + 1
     ELSE UNCHANGED <<digests, stamps>>
  /\ UNCHANGED <<got, owed, acks, broken, blocked, closed>>

\* The peer gets a DATA cell: sendme_circuit_data_received, then
\* sendme_circuit_consider_sending.
Receive ==
  /\ got # sent
  /\ got' = (got + 1) % Ids
  /\ IF owed + 1 >= Par.inc
     THEN owed' = owed + 1 - Par.inc /\ acks' = Append(acks, got')
     ELSE owed' = owed + 1 /\ UNCHANGED acks
  /\ UNCHANGED <<cc, stamps, digests, sent, broken, blocked, closed>>

----------------------------------------------------------------------------
(* Estimates. Every operator takes the state c of the congestion control.     *)

SendmePerCwnd(c) == (c.cwnd + Par.inc \div 2) \div Par.inc

UpdateRate(c) ==
  IF c.ss THEN 1
  ELSE (c.cwnd + (Par.incRate * Par.inc) \div 2) \div (Par.incRate * Par.inc)

\* n_ewma_count.
EwmaCount(c) ==
  larger(IF c.ss THEN Par.ewmaSS
         ELSE smaller((UpdateRate(c) * Par.ewmaPct) \div 100, Par.ewmaMax), 2)

\* n_count_ewma.
Ewma(curr, prev, n) ==
  IF prev = 0 THEN curr ELSE (2 * curr + (n - 1) * prev) \div (n + 1)

\* percent_max_mix.
Mix(a, b) == (Par.resetPct * larger(a, b)) \div 100
               + ((100 - Par.resetPct) * smaller(a, b)) \div 100

\* time_delta_stalled_or_jumped: whether the sample is thrown away.
Fishy(c, rtt) ==
  \/ rtt = 0
  \/ /\ ~c.ss /\ c.ewma # 0
     /\ IF c.ewma > rtt * Par.jump THEN broken ELSE rtt > c.ewma * Par.jump

\* The flag is kept while a sample is in doubt.
Broken(c, rtt) ==
  \/ rtt = 0
  \/ broken /\ ~c.ss /\ c.ewma # 0
            /\ (c.ewma > rtt * Par.jump \/ rtt > c.ewma * Par.jump)
  \/ broken /\ (c.ss \/ c.ewma = 0)

\* congestion_control_update_circuit_rtt.
WithRtt(c, rtt) ==
  IF Fishy(c, rtt) THEN c
  ELSE LET e == Ewma(rtt, c.ewma, EwmaCount(c))
       IN  [c EXCEPT !.ewma = e,
                     !.min = IF @ = 0 THEN e
                             ELSE IF c.cwnd = Par.cwndMin /\ ~c.ss
                             THEN Mix(e, @)
                             ELSE smaller(e, @)]

\* congestion_control_update_circuit_bdp. Without any measurement the window
\* itself is the estimate, less what waits in a blocked channel.
WithBdp(c, queue) ==
  IF c.ewma = 0
  THEN [c EXCEPT !.chan = blocked,
                 !.bdp = IF ~blocked THEN c.cwnd
                         ELSE IF queue >= c.cwnd THEN Par.cwndMin
                         ELSE larger(c.cwnd - queue, Par.cwndMin)]
  ELSE [c EXCEPT !.bdp = (c.cwnd * c.min) \div c.ewma,
                 !.chan = blocked,
                 !.nextCc = IF c.chan # blocked THEN 0 ELSE @]

\* Did this round update the estimates?
Updated(c, rtt) == blocked \/ ~Fishy(c, rtt)

----------------------------------------------------------------------------
(* congestion_control_vegas_process_sendme.                                   *)

QueueUse(c) == IF c.bdp > c.cwnd THEN 0 ELSE c.cwnd - c.bdp

\* cwnd_became_full, cwnd_became_nonfull.
Filled(c) ==
  [c EXCEPT !.full =
     \/ c.inflight + Par.fullGap * Par.inc >= c.cwnd
     \/ @ /\ 100 * c.inflight >= Par.fullMinPct * c.cwnd]

\* rfc3742_ss_inc.
SsInc(c) ==
  IF c.cwnd <= Par.ssCap THEN (Par.pctSS * Par.inc + 50) \div 100
  ELSE larger((Par.inc * Par.ssCap + c.cwnd) \div (2 * c.cwnd), 1)

Grown(c) == [c EXCEPT !.cwnd = @ + SsInc(c)]

\* Slow start: grow while the queue is short and the window is used; leave it
\* when the growth is slow, on a signal, or at ss_cwnd_max.
SlowStart(c) ==
  LET d == IF QueueUse(c) < Par.gamma /\ ~c.chan
           THEN IF ~c.full THEN c
                ELSE [Grown(c) EXCEPT !.ss =
                        SsInc(c) * SendmePerCwnd(Grown(c))
                          > Par.cwndInc * Par.incRate]
           ELSE [c EXCEPT !.cwnd = c.bdp + Par.gamma, !.ss = FALSE]
  IN  IF d.cwnd >= Par.ssMax THEN [d EXCEPT !.cwnd = Par.ssMax, !.ss = FALSE]
      ELSE d

\* Mutant: a step down that stops short of the floor it is given later.
SteadyUnfloored(c) ==
  LET q == QueueUse(c)
  IN  [c EXCEPT !.cwnd =
         IF q > Par.delta THEN Minus(c.bdp + Par.delta, Par.cwndInc)
         ELSE IF q > Par.beta \/ c.chan THEN Minus(@, Par.cwndInc)
         ELSE IF c.full /\ q < Par.alpha THEN @ + Par.cwndInc
         ELSE @]

\* Steady state, once per update of the window.
Steady(c) ==
  LET q == QueueUse(c)
      w == IF q > Par.delta THEN Minus(c.bdp + Par.delta, Par.cwndInc)
           ELSE IF q > Par.beta \/ c.chan THEN Minus(c.cwnd, Par.cwndInc)
           ELSE IF c.full /\ q < Par.alpha THEN c.cwnd + Par.cwndInc
           ELSE c.cwnd
  IN  [c EXCEPT !.cwnd = larger(w, Par.cwndMin)]

Moved(c) ==
  IF c.ss THEN SlowStart(c) ELSE IF c.nextCc = 0 THEN Steady(c) ELSE c

\* The counters start again, and with them the use of the window.
Reset(c) ==
  LET d == [c EXCEPT !.nextCwnd = IF @ = 0 THEN SendmePerCwnd(c) ELSE @,
                     !.nextCc = IF @ = 0 THEN UpdateRate(c) ELSE @]
  IN  [d EXCEPT !.full = @ /\ IF Par.fullPerCwnd
                              THEN d.nextCwnd # SendmePerCwnd(d)
                              ELSE d.nextCc # UpdateRate(d)]

Counted(c) == [c EXCEPT !.nextCc = IF @ > 0 THEN @ - 1 ELSE 0,
                        !.nextCwnd = IF @ > 0 THEN @ - 1 ELSE 0]

Acked(c) == [c EXCEPT !.inflight = Minus(@, Par.inc)]

\* congestion_control_dispatch_cc_alg.
Clamped(c) == [c EXCEPT !.cwnd = smaller(@, Par.cwndMax)]

AfterSendme(rtt, queue) ==
  LET c == Counted(cc)
      e == WithBdp(WithRtt(c, rtt), queue)
  IN  Clamped(Acked(IF Updated(c, rtt) THEN Reset(Moved(Filled(e))) ELSE e))

\* sendme_process_circuit_level: the SENDME must name the first cell that is
\* expected to be answered.
Sendme ==
  /\ acks # <<>>
  /\ acks' = Tail(acks)
  /\ IF digests # <<>> /\ Head(digests) = Head(acks)
     THEN /\ digests' = Tail(digests)
          /\ stamps' = IF stamps > 0 THEN stamps - 1 ELSE 0
          /\ \E rtt \in Rtts, queue \in Queues :
               /\ cc' = AfterSendme(rtt, queue)
               /\ broken' = Broken(Counted(cc), rtt)
          /\ UNCHANGED closed
     ELSE closed' = TRUE /\ UNCHANGED <<cc, stamps, digests, broken>>
  /\ UNCHANGED <<sent, got, owed, blocked>>

\* The channel stops, or starts again, to take cells of the circuit.
Channel ==
  /\ blocked' = ~blocked
  /\ UNCHANGED <<cc, stamps, digests, sent, got, owed, acks, broken, closed>>

Next == ~closed /\ (Send \/ Receive \/ Sendme \/ Channel)

Spec == Init /\ [][Next]_vars

----------------------------------------------------------------------------
(* Properties.                                                                *)

\* The digests the sender keeps are those the SENDMEs on their way will name, in
\* this order, with one timestamp each: no SENDME of an honest peer closes the
\* circuit or finds the list of timestamps empty.
Expected ==
  /\ ~closed
  /\ IsPrefix(acks, digests)
  /\ stamps = Len(digests)

\* inflight is what is on its way, received but not acknowledged, or
\* acknowledged by a SENDME that has not arrived.
InflightIsRight ==
  cc.inflight = ((sent - got) % Ids) + owed + Par.inc * Len(acks)

\* The window never falls below one increment, whatever is measured, and the
\* subtraction in front of the test does not wrap.
CwndFloor == cc.cwnd >= Par.inc /\ cc.cwnd <= Par.cwndMax

\* The window does not close for good: when it is full, cells that the peer will
\* count or a SENDME that will open it are on their way.
WindowReopens == cc.inflight >= cc.cwnd => sent # got \/ acks # <<>>

\* SENDMEs are what the sender expects.  The digests it keeps are those the
\* SENDMEs on their way will name, in this order, with one timestamp each, so
\* that no SENDME of an honest peer closes the circuit (sendme_is_valid); and
\* inflight is what is on its way, received but not acknowledged, or
\* acknowledged by a SENDME that has not arrived.
SendmesMatch == Expected /\ InflightIsRight

\* The window stays open.  Whatever congestion_control_vegas_process_sendme
\* measures, it is at least one increment; and when it is full, cells that the
\* peer will count or a SENDME that will open it are on their way.
WindowStaysOpen == CwndFloor /\ WindowReopens

-----------------------------------------------------------------------------
\* What a comment, an assertion or a name in the source says and the code does
\* not keep (README, section "Departures"): TLC refutes each of these.

\* A window update in which the channel is blocked does not widen the window,
\* but to its minimum.
BlockedShrinks ==
  [][cc'.chan /\ cc'.inflight # cc.inflight
       => cc'.cwnd <= larger(cc.cwnd, Par.cwndMin)]_vars
=============================================================================
