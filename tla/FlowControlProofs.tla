------------------------- MODULE FlowControlProofs --------------------------
(***************************************************************************)
(* Proofs about CongestionControl, for any increment, window limits, width *)
(* of the counters and round trip times, and about StreamFlow, for any     *)
(* window, marks, limits, rates and amount of data, that the assumptions   *)
(* allow.                                                                  *)
(***************************************************************************)
EXTENDS CongestionControl, StreamFlow, TLAPS, WellFoundedInduction,
        SequenceTheorems, FiniteSetTheorems, FunctionTheorems

\* Division with remainder.
LEMMA DivisionFacts ==
  ASSUME NEW x \in Int, NEW m \in Int, m > 0
  PROVE  /\ x \div m \in Int
         /\ x % m \in 0 .. m - 1
         /\ x = m * (x \div m) + (x % m)
<1>1. x \div m \in Int /\ x % m \in 0 .. m - 1
  BY SMT
<1>2. x = m * (x \div m) + (x % m)
  BY SMT
<1> QED
  BY <1>1, <1>2

\* A quotient of natural numbers is one.
LEMMA QuotientNat ==
  ASSUME NEW x \in Nat, NEW m \in Nat, m # 0
  PROVE  x \div m \in Nat
OBVIOUS

\* One more factor.
LEMMA OneMore ==
  ASSUME NEW x \in Int, NEW y \in Int
  PROVE  x * (y + 1) = x * y + x
OBVIOUS

\* A remainder is known by what it leaves.
LEMMA RemainderIs ==
  ASSUME NEW x \in Int, NEW m \in Int, m > 0, NEW q \in Int,
         NEW r \in 0 .. m - 1, x = m * q + r
  PROVE  x % m = r
OBVIOUS

\* The successor of a number and of its remainder leave the same remainder.
LEMMA NextRemainder ==
  ASSUME NEW x \in Int, NEW m \in Int, m > 0
  PROVE  ((x % m) + 1) % m = (x + 1) % m
<1> DEFINE q == x \div m
           r == x % m
<1>1. q \in Int /\ r \in 0 .. m - 1 /\ x = m * q + r
  BY DivisionFacts
<1> HIDE DEF q, r
<1>2. CASE r = m - 1
  <2>1. x + 1 = m * (q + 1) + 0
    BY <1>1, <1>2
  <2>2. (x + 1) % m = 0
    BY <1>1, <2>1, RemainderIs
  <2>3. r + 1 = m * 1 + 0
    BY <1>1, <1>2
  <2>4. (r + 1) % m = 0
    BY <1>1, <2>3, RemainderIs
  <2> QED
    BY <2>2, <2>4 DEF r
<1>3. CASE r < m - 1
  <2>1. x + 1 = m * q + (r + 1)
    BY <1>1
  <2>2. (x + 1) % m = r + 1
    BY <1>1, <1>3, <2>1, RemainderIs
  <2>3. r + 1 = m * 0 + (r + 1)
    BY <1>1
  <2>4. (r + 1) % m = r + 1
    BY <1>1, <1>3, <2>3, RemainderIs
  <2> QED
    BY <2>2, <2>4 DEF r
<1> QED
  BY <1>1, <1>2, <1>3

\* The distance of two numbers that are less than m apart is that of their
\* remainders.
LEMMA Distance ==
  ASSUME NEW x \in Int, NEW k \in Int, NEW m \in Int, 0 <= k, k < m
  PROVE  (((x + k) % m) - (x % m)) % m = k
<1> DEFINE p == (x + k) \div m
           s == (x + k) % m
           q == x \div m
           r == x % m
<1>1. /\ p \in Int /\ s \in 0 .. m - 1 /\ x + k = m * p + s
      /\ q \in Int /\ r \in 0 .. m - 1 /\ x = m * q + r
  BY DivisionFacts
<1>a. (x + k) % m = s /\ x % m = r
  OBVIOUS
<1> HIDE DEF p, q, r, s
<1>2. s - r = m * (q - p) + k
  <2>1. m * (q - p) = m * q - m * p
    BY <1>1
  <2> QED
    BY <1>1, <2>1
<1>3. (s - r) % m = k
  BY <1>1, <1>2, RemainderIs
<1> QED
  BY <1>a, <1>3, Zenon

-----------------------------------------------------------------------------
(* What the operators of the algorithm return.                              *)

CC == [cwnd : Nat, inflight : Nat, ss : BOOLEAN, full : BOOLEAN,
       chan : BOOLEAN, nextCc : Nat, nextCwnd : Nat, ewma : Nat, min : Nat,
       bdp : Nat]

\* The parameters one by one.
LEMMA Parameters ==
  ASSUME CongestionControlAssumption
  PROVE  /\ Ids \in Nat /\ Wrap \in Nat /\ Ids > 0 /\ Wrap > 0
         /\ Rtts \subseteq Nat /\ Queues \subseteq Nat
         /\ Par.inc \in Nat /\ Par.inc > 0
         /\ Par.cwndInit \in Nat /\ Par.cwndMin \in Nat /\ Par.cwndMax \in Nat
         /\ Par.cwndInc \in Nat /\ Par.incRate \in Nat /\ Par.incRate > 0
         /\ Par.pctSS \in Nat /\ Par.ssCap \in Nat /\ Par.ssMax \in Nat
         /\ Par.ewmaSS \in Nat /\ Par.ewmaPct \in Nat /\ Par.ewmaMax \in Nat
         /\ Par.jump \in Nat /\ Par.alpha \in Nat /\ Par.beta \in Nat
         /\ Par.gamma \in Nat /\ Par.delta \in Nat /\ Par.fullGap \in Nat
         /\ Par.fullMinPct \in Nat /\ Par.resetPct \in Nat
         /\ Par.fullPerCwnd \in BOOLEAN
<1>1. \A f \in {"inc", "cwndInit", "cwndMin", "cwndMax", "cwndInc", "incRate",
               "pctSS", "ssCap", "ssMax", "ewmaSS", "ewmaPct", "ewmaMax",
               "jump"} : Par[f] \in Nat /\ Par[f] > 0
  BY DEF CongestionControlAssumption
<1>2. \A f \in {"alpha", "beta", "gamma", "delta", "fullGap", "fullMinPct",
               "resetPct"} : Par[f] \in Nat
  BY DEF CongestionControlAssumption
<1>3. /\ Ids \in Nat /\ Wrap \in Nat /\ Ids > 0 /\ Wrap > 0
      /\ Rtts \subseteq Nat /\ Queues \subseteq Nat
      /\ Par.fullPerCwnd \in BOOLEAN
  BY DEF CongestionControlAssumption
<1> QED
  BY <1>1, <1>2, <1>3

\* The rates at which the window is looked at are numbers.
LEMMA RatesAreNumbers ==
  ASSUME CongestionControlAssumption, NEW c \in CC
  PROVE  SendmePerCwnd(c) \in Nat /\ UpdateRate(c) \in Nat
<1>1. c.cwnd \in Nat /\ c.ss \in BOOLEAN
  BY DEF CC
<1>2. Par.inc \in Nat /\ Par.inc > 0 /\ Par.incRate \in Nat /\ Par.incRate > 0
  BY Parameters
<1>3. SendmePerCwnd(c) \in Nat
  <2>1. Par.inc \div 2 \in Nat
    BY <1>2, QuotientNat
  <2>2. c.cwnd + (Par.inc \div 2) \in Nat
    BY <1>1, <2>1
  <2> QED
    BY <1>2, <2>2, QuotientNat DEF SendmePerCwnd
<1>4. UpdateRate(c) \in Nat
  <2> DEFINE p == Par.incRate * Par.inc
  <2>1. p \in Nat /\ p # 0
    BY <1>2
  <2> HIDE DEF p
  <2>2. p \div 2 \in Nat
    BY <2>1, QuotientNat
  <2>3. c.cwnd + (p \div 2) \in Nat
    BY <1>1, <2>2
  <2>4. (c.cwnd + (p \div 2)) \div p \in Nat
    BY <2>1, <2>3, QuotientNat
  <2> QED
    BY <2>4 DEF UpdateRate, p
<1> QED
  BY <1>3, <1>4

\* So is the number of samples, which is at least two.
LEMMA SamplesAreNumbers ==
  ASSUME CongestionControlAssumption, NEW c \in CC
  PROVE  EwmaCount(c) \in Nat /\ EwmaCount(c) >= 2
<1> DEFINE u == UpdateRate(c)
           p == (u * Par.ewmaPct) \div 100
<1>1. u \in Nat
  BY RatesAreNumbers
<1>2. Par.ewmaPct \in Nat /\ Par.ewmaMax \in Nat /\ Par.ewmaSS \in Nat
  BY Parameters
<1> HIDE DEF u
<1>3. u * Par.ewmaPct \in Nat
  BY <1>1, <1>2
<1>4. p \in Nat
  BY <1>3, QuotientNat
<1> HIDE DEF p
<1>5. EwmaCount(c) = larger(IF c.ss THEN Par.ewmaSS
                            ELSE smaller(p, Par.ewmaMax), 2)
  BY DEF EwmaCount, p, u
<1> QED
  BY <1>2, <1>4, <1>5 DEF larger, smaller

\* A moving average of numbers is one.
LEMMA EwmaIsNumber ==
  ASSUME NEW a \in Nat, NEW b \in Nat, NEW k \in Nat, k >= 2
  PROVE  Ewma(a, b, k) \in Nat
<1>1. 2 * a + (k - 1) * b \in Nat
  <2>1. k - 1 \in Nat
    OBVIOUS
  <2>2. (k - 1) * b \in Nat
    BY <2>1
  <2> QED
    BY <2>2
<1>2. k + 1 \in Nat /\ k + 1 # 0
  OBVIOUS
<1>3. (2 * a + (k - 1) * b) \div (k + 1) \in Nat
  BY <1>1, <1>2, QuotientNat
<1> QED
  BY <1>3 DEF Ewma

\* So is the mix that replaces a minimum.
LEMMA MixIsNumber ==
  ASSUME CongestionControlAssumption, DefaultOrder, NEW a \in Nat, NEW b \in Nat
  PROVE  Mix(a, b) \in Nat
<1> DEFINE x == larger(a, b)
           y == smaller(a, b)
<1>1. x \in Nat /\ y \in Nat
  BY DEF larger, smaller
<1> HIDE DEF x, y
<1>2. Par.resetPct \in Nat /\ 100 - Par.resetPct \in Nat
  BY Parameters DEF DefaultOrder
<1>3. Par.resetPct * x \in Nat /\ (100 - Par.resetPct) * y \in Nat
  BY <1>1, <1>2
<1>4. (Par.resetPct * x) \div 100 \in Nat
  BY <1>3, QuotientNat
<1>5. ((100 - Par.resetPct) * y) \div 100 \in Nat
  BY <1>3, QuotientNat
<1> QED
  BY <1>4, <1>5 DEF Mix, x, y

\* d has the window of c and as many cells in flight.
SameWindow(c, d) == d.cwnd = c.cwnd /\ d.inflight = c.inflight

\* A new estimate of the round trip time leaves the window alone.
LEMMA RttKeepsWindow ==
  ASSUME CongestionControlAssumption, DefaultOrder,
         NEW c \in CC, NEW rtt \in Nat
  PROVE  WithRtt(c, rtt) \in CC /\ SameWindow(c, WithRtt(c, rtt))
<1> DEFINE e == Ewma(rtt, c.ewma, EwmaCount(c))
           l == IF c.min = 0 THEN e
                ELSE IF c.cwnd = Par.cwndMin /\ ~c.ss THEN Mix(e, c.min)
                ELSE smaller(e, c.min)
<1>1. c.ewma \in Nat /\ c.min \in Nat
  BY DEF CC
<1>2. e \in Nat
  BY <1>1, SamplesAreNumbers, EwmaIsNumber
<1> HIDE DEF e
<1>3. Mix(e, c.min) \in Nat
  BY <1>1, <1>2, MixIsNumber
<1>4. l \in Nat
  BY <1>1, <1>2, <1>3 DEF smaller
<1> HIDE DEF l
<1>5. WithRtt(c, rtt) = IF Fishy(c, rtt) THEN c
                        ELSE [c EXCEPT !.ewma = e, !.min = l]
  BY DEF WithRtt, e, l
<1> QED
  BY <1>2, <1>4, <1>5 DEF CC, SameWindow

\* So does a new estimate of the bandwidth-delay product.
LEMMA BdpKeepsWindow ==
  ASSUME CongestionControlAssumption, blocked \in BOOLEAN,
         NEW c \in CC, NEW queue \in Nat
  PROVE  WithBdp(c, queue) \in CC /\ SameWindow(c, WithBdp(c, queue))
<1>1. c.ewma \in Nat /\ c.min \in Nat /\ c.cwnd \in Nat /\ c.nextCc \in Nat
  BY DEF CC
<1>2. Par.cwndMin \in Nat
  BY Parameters
<1>3. CASE c.ewma = 0
  <2> DEFINE b == IF ~blocked THEN c.cwnd
                  ELSE IF queue >= c.cwnd THEN Par.cwndMin
                  ELSE larger(c.cwnd - queue, Par.cwndMin)
  <2>1. b \in Nat
    BY <1>1, <1>2 DEF larger
  <2> HIDE DEF b
  <2>2. WithBdp(c, queue) = [c EXCEPT !.chan = blocked, !.bdp = b]
    BY <1>3 DEF WithBdp, b
  <2> QED
    BY <2>1, <2>2 DEF CC, SameWindow
<1>4. CASE c.ewma # 0
  <2> DEFINE b == (c.cwnd * c.min) \div c.ewma
             k == IF c.chan # blocked THEN 0 ELSE c.nextCc
  <2>1. c.cwnd * c.min \in Nat
    BY <1>1
  <2>2. b \in Nat
    BY <1>1, <1>4, <2>1, QuotientNat
  <2>3. k \in Nat
    BY <1>1
  <2> HIDE DEF b, k
  <2>4. WithBdp(c, queue) =
          [c EXCEPT !.bdp = b, !.chan = blocked, !.nextCc = k]
    BY <1>4 DEF WithBdp, b, k
  <2> QED
    BY <2>2, <2>3, <2>4 DEF CC, SameWindow
<1> QED
  BY <1>3, <1>4

\* So does the note whether the window is full,
LEMMA FullKeepsWindow ==
  ASSUME CongestionControlAssumption, NEW c \in CC
  PROVE  Filled(c) \in CC /\ SameWindow(c, Filled(c))
<1> DEFINE b == \/ c.inflight + Par.fullGap * Par.inc >= c.cwnd
                \/ c.full /\ 100 * c.inflight >= Par.fullMinPct * c.cwnd
<1>1. b \in BOOLEAN
  BY Zenon
<1> HIDE DEF b
<1>2. Filled(c) = [c EXCEPT !.full = b]
  BY DEF Filled, b
<1> QED
  BY <1>1, <1>2 DEF CC, SameWindow

\* and starting the counters again.
LEMMA ResetKeepsWindow ==
  ASSUME CongestionControlAssumption, NEW c \in CC
  PROVE  Reset(c) \in CC /\ SameWindow(c, Reset(c))
<1> DEFINE k == IF c.nextCwnd = 0 THEN SendmePerCwnd(c) ELSE c.nextCwnd
           l == IF c.nextCc = 0 THEN UpdateRate(c) ELSE c.nextCc
           d == [c EXCEPT !.nextCwnd = k, !.nextCc = l]
           b == d.full /\ IF Par.fullPerCwnd
                          THEN d.nextCwnd # SendmePerCwnd(d)
                          ELSE d.nextCc # UpdateRate(d)
<1>1. SendmePerCwnd(c) \in Nat /\ UpdateRate(c) \in Nat
  BY RatesAreNumbers
<1>2. c.nextCwnd \in Nat /\ c.nextCc \in Nat
  BY DEF CC
<1>3. k \in Nat /\ l \in Nat
  BY <1>1, <1>2
<1>4. Reset(c) = [d EXCEPT !.full = b]
  BY DEF Reset
<1> HIDE DEF k, l
<1>5. d \in CC /\ SameWindow(c, d)
  BY <1>3 DEF CC, SameWindow
<1>6. b \in BOOLEAN
  BY Zenon
<1> HIDE DEF d, b
<1> QED
  BY <1>4, <1>5, <1>6 DEF CC, SameWindow

\* A subtraction that wraps returns a number; one that does not is exact.
LEMMA Subtraction ==
  ASSUME CongestionControlAssumption, NEW a \in Nat, NEW b \in Nat
  PROVE  /\ Minus(a, b) \in Nat
         /\ b <= a /\ a < Wrap => Minus(a, b) = a - b
<1>1. Wrap \in Int /\ Wrap > 0
  BY Parameters
<1>2. a - b \in Int
  OBVIOUS
<1>3. Minus(a, b) \in Nat
  BY <1>1, <1>2, DivisionFacts DEF Minus
<1>4. ASSUME b <= a, a < Wrap
      PROVE  Minus(a, b) = a - b
  <2>1. a - b \in 0 .. Wrap - 1 /\ a - b = Wrap * 0 + (a - b)
    BY <1>1, <1>4
  <2>2. (a - b) % Wrap = a - b
    BY <1>1, <1>2, <2>1, RemainderIs
  <2> QED
    BY <2>2 DEF Minus
<1> QED
  BY <1>3, <1>4

\* What slow start adds is a number.
LEMMA SsIncIsNumber ==
  ASSUME CongestionControlAssumption, NEW c \in CC
  PROVE  SsInc(c) \in Nat
<1>1. c.cwnd \in Nat
  BY DEF CC
<1>2. Par.pctSS \in Nat /\ Par.inc \in Nat /\ Par.ssCap \in Nat
  BY Parameters
<1>3. (Par.pctSS * Par.inc + 50) \div 100 \in Nat
  <2>1. Par.pctSS * Par.inc \in Nat
    BY <1>2
  <2>2. Par.pctSS * Par.inc + 50 \in Nat
    BY <2>1
  <2> QED
    BY <2>2, QuotientNat
<1>4. ASSUME c.cwnd > Par.ssCap
      PROVE  (Par.inc * Par.ssCap + c.cwnd) \div (2 * c.cwnd) \in Nat
  <2>1. Par.inc * Par.ssCap \in Nat
    BY <1>2
  <2>2. Par.inc * Par.ssCap + c.cwnd \in Nat
    BY <1>1, <2>1
  <2>3. 2 * c.cwnd \in Nat /\ 2 * c.cwnd # 0
    BY <1>1, <1>2, <1>4
  <2> QED
    BY <2>2, <2>3, QuotientNat
<1>5. CASE c.cwnd <= Par.ssCap
  BY <1>3, <1>5 DEF SsInc
<1>6. CASE c.cwnd > Par.ssCap
  <2> DEFINE w == (Par.inc * Par.ssCap + c.cwnd) \div (2 * c.cwnd)
  <2>1. w \in Nat
    BY <1>4, <1>6
  <2>2. SsInc(c) = larger(w, 1)
    BY <1>1, <1>2, <1>6 DEF SsInc
  <2> HIDE DEF w
  <2> QED
    BY <2>1, <2>2 DEF larger
<1> QED
  BY <1>1, <1>2, <1>5, <1>6

\* The window that c has is at least one increment.
Floor(c) == c.cwnd >= Par.inc

\* Slow start keeps the floor, also when it gives the window the estimate it
\* has, because gamma and ss_cwnd_max are not below one increment.
LEMMA SlowStartKeepsFloor ==
  ASSUME CongestionControlAssumption, DefaultOrder, NEW c \in CC, Floor(c)
  PROVE  /\ SlowStart(c) \in CC /\ Floor(SlowStart(c))
         /\ SlowStart(c).inflight = c.inflight
<1> DEFINE n == SsInc(c)
           u == c.cwnd + n
           v == c.bdp + Par.gamma
           g == [c EXCEPT !.cwnd = u]
           z == n * SendmePerCwnd(g) > Par.cwndInc * Par.incRate
           h == [g EXCEPT !.ss = z]
           s == [c EXCEPT !.cwnd = v, !.ss = FALSE]
           d == IF QueueUse(c) < Par.gamma /\ ~c.chan
                THEN IF ~c.full THEN c ELSE h
                ELSE s
<1>1. /\ Par.inc \in Nat /\ Par.gamma \in Nat /\ Par.ssMax \in Nat
      /\ Par.inc <= Par.gamma /\ Par.inc <= Par.ssMax
  BY Parameters DEF DefaultOrder
<1>2. c.cwnd \in Nat /\ c.bdp \in Nat /\ c.cwnd >= Par.inc
  BY DEF CC, Floor
<1>3. n \in Nat
  BY SsIncIsNumber
<1>4. Grown(c) = g
  BY DEF Grown
<1>5. u \in Nat /\ v \in Nat /\ u >= Par.inc /\ v >= Par.inc
  BY <1>1, <1>2, <1>3
<1>6. SlowStart(c) = IF d.cwnd >= Par.ssMax
                     THEN [d EXCEPT !.cwnd = Par.ssMax, !.ss = FALSE]
                     ELSE d
  BY <1>4 DEF SlowStart
<1> HIDE DEF u, v
<1>7. h \in CC /\ Floor(h) /\ h.inflight = c.inflight
  <2>1. g \in CC /\ Floor(g) /\ g.inflight = c.inflight
    BY <1>5 DEF CC, Floor
  <2>2. z \in BOOLEAN
    <3>1. SendmePerCwnd(g) \in Nat
      BY <2>1, RatesAreNumbers
    <3>2. Par.cwndInc \in Nat /\ Par.incRate \in Nat
      BY Parameters
    <3> HIDE DEF n, g
    <3> QED
      BY <1>3, <3>1, <3>2
  <2> HIDE DEF g, z
  <2> QED
    BY <2>1, <2>2 DEF CC, Floor
<1>8. s \in CC /\ Floor(s) /\ s.inflight = c.inflight
  BY <1>5 DEF CC, Floor
<1> HIDE DEF h, s
<1>9. d \in CC /\ Floor(d) /\ d.inflight = c.inflight
  BY <1>7, <1>8
<1> HIDE DEF d
<1> QED
  BY <1>1, <1>6, <1>9 DEF CC, Floor

\* The steady state keeps it because cwnd_min is not below one increment.
LEMMA SteadyKeepsFloor ==
  ASSUME CongestionControlAssumption, DefaultOrder, NEW c \in CC
  PROVE  /\ Steady(c) \in CC /\ Floor(Steady(c))
         /\ Steady(c).inflight = c.inflight
<1> DEFINE q == QueueUse(c)
           w == IF q > Par.delta THEN Minus(c.bdp + Par.delta, Par.cwndInc)
                ELSE IF q > Par.beta \/ c.chan THEN Minus(c.cwnd, Par.cwndInc)
                ELSE IF c.full /\ q < Par.alpha THEN c.cwnd + Par.cwndInc
                ELSE c.cwnd
           v == larger(w, Par.cwndMin)
<1>1. /\ Par.inc \in Nat /\ Par.delta \in Nat /\ Par.cwndInc \in Nat
      /\ Par.cwndMin \in Nat /\ Par.inc <= Par.cwndMin
  BY Parameters DEF DefaultOrder
<1>2. c.cwnd \in Nat /\ c.bdp \in Nat
  BY DEF CC
<1>3. Minus(c.bdp + Par.delta, Par.cwndInc) \in Nat
  <2>1. c.bdp + Par.delta \in Nat
    BY <1>1, <1>2
  <2> QED
    BY <1>1, <2>1, Subtraction
<1>4. Minus(c.cwnd, Par.cwndInc) \in Nat
  BY <1>1, <1>2, Subtraction
<1>5. Steady(c) = [c EXCEPT !.cwnd = v]
  BY DEF Steady
<1>6. w \in Nat
  BY <1>1, <1>2, <1>3, <1>4
<1> HIDE DEF w
<1>7. v \in Nat /\ v >= Par.inc
  BY <1>1, <1>6 DEF larger
<1> HIDE DEF v
<1> QED
  BY <1>5, <1>7 DEF CC, Floor

\* A SENDME that is accepted takes one increment from what is in flight, and
\* leaves a window between one increment and the largest one.
LEMMA SendmeKeepsFloor ==
  ASSUME CongestionControlAssumption, DefaultOrder, blocked \in BOOLEAN,
         cc \in CC, Floor(cc), cc.inflight < Wrap, Par.inc <= cc.inflight,
         NEW rtt \in Nat, NEW queue \in Nat
  PROVE  LET d == AfterSendme(rtt, queue) IN
         /\ d \in CC /\ Floor(d) /\ d.cwnd <= Par.cwndMax
         /\ d.inflight = cc.inflight - Par.inc
<1> DEFINE c == Counted(cc)
           e == WithRtt(c, rtt)
           f == WithBdp(e, queue)
           g == Filled(f)
           h == Moved(g)
           i == IF Updated(c, rtt) THEN Reset(h) ELSE f
<1>1. AfterSendme(rtt, queue) = Clamped(Acked(i))
  BY DEF AfterSendme
<1>2. c \in CC /\ SameWindow(cc, c)
  <2> DEFINE k == IF cc.nextCc > 0 THEN cc.nextCc - 1 ELSE 0
             l == IF cc.nextCwnd > 0 THEN cc.nextCwnd - 1 ELSE 0
  <2>1. k \in Nat /\ l \in Nat
    BY DEF CC
  <2>2. c = [cc EXCEPT !.nextCc = k, !.nextCwnd = l]
    BY DEF Counted
  <2> HIDE DEF k, l, c
  <2> QED
    BY <2>1, <2>2 DEF CC, SameWindow
<1> HIDE DEF c
<1>3. e \in CC /\ SameWindow(c, e)
  BY <1>2, RttKeepsWindow
<1> HIDE DEF e
<1>4. f \in CC /\ SameWindow(e, f)
  BY <1>3, BdpKeepsWindow
<1> HIDE DEF f
<1>5. g \in CC /\ SameWindow(f, g)
  BY <1>4, FullKeepsWindow
<1> HIDE DEF g
<1>6. Floor(g) /\ g.inflight = cc.inflight
  BY <1>2, <1>3, <1>4, <1>5 DEF Floor, SameWindow
<1>7. h \in CC /\ Floor(h) /\ h.inflight = cc.inflight
  BY <1>5, <1>6, SlowStartKeepsFloor, SteadyKeepsFloor DEF Moved
<1> HIDE DEF h
<1>8. Reset(h) \in CC /\ SameWindow(h, Reset(h))
  BY <1>7, ResetKeepsWindow
<1>9. i \in CC /\ Floor(i) /\ i.inflight = cc.inflight
  BY <1>2, <1>3, <1>4, <1>7, <1>8 DEF Floor, SameWindow
<1> HIDE DEF i
<1>10. Minus(i.inflight, Par.inc) = cc.inflight - Par.inc
       /\ cc.inflight - Par.inc \in Nat
  <2>1. cc.inflight \in Nat /\ Par.inc \in Nat
    BY Parameters DEF CC
  <2> QED
    BY <1>9, <2>1, Subtraction
<1>11. Acked(i) = [i EXCEPT !.inflight = cc.inflight - Par.inc]
  BY <1>10 DEF Acked
<1>12. /\ Acked(i) \in CC /\ Floor(Acked(i))
       /\ Acked(i).inflight = cc.inflight - Par.inc
  BY <1>9, <1>10, <1>11 DEF CC, Floor
<1>13. /\ Par.inc \in Nat /\ Par.cwndMax \in Nat /\ Par.inc <= Par.cwndMax
  BY Parameters DEF DefaultOrder
<1>14. \A d \in CC : Floor(d) => /\ Clamped(d) \in CC /\ Floor(Clamped(d))
                                /\ Clamped(d).cwnd <= Par.cwndMax
                                /\ Clamped(d).inflight = d.inflight
  BY <1>13 DEF Clamped, CC, Floor, smaller
<1> QED
  BY <1>1, <1>12, <1>14

-----------------------------------------------------------------------------
(* The inductive invariant.                                                 *)

TypeOK ==
  /\ cc \in CC
  /\ stamps \in Nat /\ owed \in Nat
  /\ sent \in Nat /\ got \in Nat
  /\ digests \in Seq(Nat) /\ acks \in Seq(Nat)
  /\ broken \in BOOLEAN /\ blocked \in BOOLEAN /\ closed \in BOOLEAN

\* The sender keeps a digest for every whole increment in flight.
Kept ==
  /\ Par.inc * Len(digests) <= cc.inflight
  /\ cc.inflight < Par.inc * Len(digests) + Par.inc
  /\ stamps = Len(digests)

\* What the peer has received is in flight until its SENDMEs arrive.
Received ==
  /\ Par.inc * Len(acks) + owed <= cc.inflight
  /\ owed < Par.inc

\* Numbers without the modulus, counted from the last cell b that a SENDME the
\* sender has accepted answers.
Numbered(b) ==
  /\ sent = (b + cc.inflight) % Ids
  /\ got = (b + (Par.inc * Len(acks) + owed)) % Ids
  /\ \A i \in DOMAIN digests : digests[i] = (b + Par.inc * i) % Ids
  /\ \A i \in DOMAIN acks : acks[i] = (b + Par.inc * i) % Ids

Inv ==
  /\ TypeOK /\ ~closed
  /\ CwndFloor /\ cc.inflight <= Par.cwndMax
  /\ Kept /\ Received
  /\ \E b \in Nat : Numbered(b)

\* What the invariant says of the parameters and the state, in the form the
\* steps below use.
LEMMA Facts ==
  ASSUME CongestionControlAssumption, DefaultOrder, TypeOK
  PROVE  /\ Par.inc \in Nat /\ Par.inc >= 2 /\ Par.cwndMax \in Nat
         /\ Ids \in Nat /\ Ids > 0 /\ Wrap \in Nat
         /\ Par.cwndMax < Ids /\ Par.cwndMax < Wrap
         /\ cc.inflight \in Nat /\ cc.cwnd \in Nat
         /\ Len(digests) \in Nat /\ Len(acks) \in Nat
         /\ Par.inc * Len(digests) \in Nat /\ Par.inc * Len(acks) \in Nat
<1>1. /\ Par.inc \in Nat /\ Par.cwndMax \in Nat
      /\ Ids \in Nat /\ Ids > 0 /\ Wrap \in Nat
  BY Parameters
<1>2. cc.inflight \in Nat /\ cc.cwnd \in Nat
  BY DEF TypeOK, CC
<1>3. Len(digests) \in Nat /\ Len(acks) \in Nat
  BY DEF TypeOK
<1>4. Par.inc * Len(digests) \in Nat /\ Par.inc * Len(acks) \in Nat
  BY <1>1, <1>3
<1>5. /\ Par.inc >= 2 /\ Par.cwndMax < Ids /\ Par.cwndMax < Wrap
  BY DEF DefaultOrder
<1> QED
  BY <1>1, <1>2, <1>3, <1>4, <1>5

\* congestion_control_init_params: the invariant holds at the start.
LEMMA InitInv ==
  ASSUME CongestionControlAssumption, DefaultOrder, Init
  PROVE  Inv
<1>1. /\ Par.inc \in Nat /\ Par.cwndInit \in Nat /\ Par.cwndMax \in Nat
      /\ Par.inc >= 2
      /\ Par.inc <= Par.cwndInit /\ Par.cwndInit <= Par.cwndMax
  BY Parameters DEF DefaultOrder
<1>2. cc.cwnd = Par.cwndInit /\ cc.inflight = 0
  BY DEF Init
<1>3. digests = <<>> /\ acks = <<>> /\ Len(digests) = 0 /\ Len(acks) = 0
  BY DEF Init
<1>4. TypeOK
  <2>1. cc \in CC
    BY <1>1 DEF Init, CC
  <2>2. digests \in Seq(Nat) /\ acks \in Seq(Nat)
    BY <1>3
  <2> QED
    BY <2>1, <2>2 DEF Init, TypeOK
<1>5. ~closed /\ CwndFloor /\ cc.inflight <= Par.cwndMax
  BY <1>1, <1>2 DEF Init, CwndFloor
<1>6. Par.inc * 0 = 0
  BY <1>1
<1>7. Kept /\ Received
  BY <1>1, <1>2, <1>3, <1>6 DEF Init, Kept, Received
<1>8. Numbered(0)
  <2>1. 0 % Ids = 0
    BY Parameters, RemainderIs, Ids * 0 = 0
  <2>2. 0 + 0 = 0
    OBVIOUS
  <2> QED
    BY <1>2, <1>3, <1>6, <2>1, <2>2 DEF Init, Numbered
<1> QED
  BY <1>4, <1>5, <1>7, <1>8 DEF Inv

\* A cell is answered exactly when it completes an increment.
LEMMA AnsweredCompletes ==
  ASSUME CongestionControlAssumption, DefaultOrder, TypeOK, Kept
  PROVE  Answered <=> cc.inflight + 1 = Par.inc * Len(digests) + Par.inc
<1> DEFINE k == Par.inc * Len(digests)
           n == cc.inflight
           d == Len(digests)
<1>1. /\ Par.inc \in Nat /\ Par.inc >= 2 /\ n \in Nat /\ k \in Nat /\ d \in Nat
  BY Facts
<1>2. k <= n /\ n < k + Par.inc
  BY DEF Kept
<1>3. n = 0 => k = 0
  BY <1>1, <1>2
<1>4. CASE n + 1 = k + Par.inc
  <2>a. k = Par.inc * d
    OBVIOUS
  <2> HIDE DEF k, n, d
  <2>b. n + 1 \in Int /\ Par.inc \in Int /\ Par.inc > 0 /\ d \in Int
    BY <1>1
  <2>1. Par.inc * (d + 1) = Par.inc * d + Par.inc
    BY <2>b, OneMore
  <2>2. n + 1 = Par.inc * (d + 1) + 0
    BY <1>1, <1>4, <2>a, <2>1
  <2> DEFINE e == d + 1
  <2>c. e \in Int /\ 0 \in 0 .. Par.inc - 1 /\ n + 1 = Par.inc * e + 0
    BY <2>b, <2>2
  <2> HIDE DEF e
  <2>3. (n + 1) % Par.inc = 0
    BY <2>b, <2>c, RemainderIs
  <2>4. n # 0
    BY <1>1, <1>3, <1>4
  <2> QED
    BY <1>4, <2>3, <2>4 DEF Answered, n, k
<1>5. CASE n + 1 < k + Par.inc
  <2> DEFINE r == (n + 1) - k
  <2>a. k = Par.inc * d
    OBVIOUS
  <2> HIDE DEF k, n, d
  <2>1. r \in 0 .. Par.inc - 1 /\ r # 0
    BY <1>1, <1>2, <1>5
  <2>2. n + 1 = Par.inc * d + r
    BY <1>1, <2>a
  <2> HIDE DEF r
  <2>b. n + 1 \in Int /\ Par.inc \in Int /\ Par.inc > 0 /\ d \in Int
    BY <1>1
  <2>3. (n + 1) % Par.inc = r
    BY <2>b, <2>1, <2>2, RemainderIs
  <2> QED
    BY <1>1, <1>5, <2>1, <2>3 DEF Answered, n, k
<1> QED
  BY <1>1, <1>2, <1>4, <1>5

\* A cell is sent.
LEMMA SendKeepsInv ==
  ASSUME CongestionControlAssumption, DefaultOrder, Inv, Send
  PROVE  Inv'
<1> DEFINE n == cc.inflight
           k == Par.inc * Len(digests)
           a == Par.inc * Len(acks)
<1>1. TypeOK /\ ~closed /\ CwndFloor /\ Kept /\ Received
  BY DEF Inv
<1>2. PICK b \in Nat : Numbered(b)
  BY DEF Inv
<1>3. /\ Par.inc \in Nat /\ Par.inc >= 2 /\ Par.cwndMax \in Nat
      /\ Ids \in Nat /\ Ids > 0 /\ n \in Nat /\ cc.cwnd \in Nat
      /\ Len(digests) \in Nat /\ k \in Nat /\ a \in Nat /\ owed \in Nat
      /\ sent \in Nat /\ stamps \in Nat
  BY <1>1, Facts DEF TypeOK
<1>4. n + 1 <= cc.cwnd /\ cc.cwnd <= Par.cwndMax
  <2>1. PackageWindow > 0
    BY DEF Send
  <2>2. ~(n > cc.cwnd) /\ cc.cwnd - n > 0
    BY <1>3, <2>1 DEF PackageWindow
  <2>3. cc.cwnd <= Par.cwndMax
    BY <1>1 DEF CwndFloor
  <2> HIDE DEF n
  <2> QED
    BY <1>3, <2>2, <2>3
<1>5. cc' = [cc EXCEPT !.inflight = n + 1] /\ sent' = (sent + 1) % Ids
  BY DEF Send
<1>6. cc' \in CC /\ cc'.inflight = n + 1 /\ cc'.cwnd = cc.cwnd
  <2> DEFINE z == n + 1
  <2>1. z \in Nat
    BY <1>3
  <2> HIDE DEF z
  <2> QED
    BY <1>1, <1>5, <2>1 DEF TypeOK, CC, z
<1>7. UNCHANGED <<got, owed, acks, broken, blocked, closed>>
  BY DEF Send
<1>8. sent' \in Nat
  <2>1. sent + 1 \in Int
    BY <1>3
  <2> QED
    BY <1>3, <1>5, <2>1, DivisionFacts
<1>9. sent' = (b + (n + 1)) % Ids
  <2> DEFINE x == b + n
  <2>1. sent = x % Ids
    BY <1>2 DEF Numbered
  <2>2. x \in Int /\ b + (n + 1) = x + 1 /\ Ids \in Int
    BY <1>3
  <2> HIDE DEF x, n
  <2>3. ((x % Ids) + 1) % Ids = (x + 1) % Ids
    BY <1>3, <2>2, NextRemainder
  <2> QED
    BY <1>5, <2>1, <2>2, <2>3
<1>10. ~closed' /\ CwndFloor' /\ (cc.inflight <= Par.cwndMax)'
  BY <1>1, <1>3, <1>4, <1>6, <1>7 DEF CwndFloor
<1>11. Received'
  BY <1>1, <1>3, <1>6, <1>7, SMTT(30) DEF Received
<1>12. (\A i \in DOMAIN acks : acks[i] = (b + Par.inc * i) % Ids)'
  BY <1>2, <1>7 DEF Numbered
<1>13. (got = (b + (Par.inc * Len(acks) + owed)) % Ids)'
  BY <1>2, <1>7 DEF Numbered
<1>14. digests' \in Seq(Nat) /\ stamps' \in Nat /\ Kept'
       /\ \A i \in DOMAIN digests' : digests'[i] = (b + Par.inc * i) % Ids
  <2>1. CASE Answered
    <3>1. digests' = Append(digests, sent') /\ stamps' = stamps + 1
      BY <2>1 DEF Send
    <3>2. n + 1 = k + Par.inc
      BY <1>1, <2>1, AnsweredCompletes
    <3>3. digests \in Seq(Nat)
      BY <1>1 DEF TypeOK
    <3>4. digests' \in Seq(Nat) /\ stamps' \in Nat
      BY <1>3, <1>8, <3>1, <3>3
    <3>5. /\ Len(digests') = Len(digests) + 1
          /\ DOMAIN digests' = 1 .. Len(digests) + 1
          /\ \A i \in 1 .. Len(digests) : digests'[i] = digests[i]
          /\ digests'[Len(digests) + 1] = sent'
      BY <1>8, <3>1, <3>3
    <3>6. Par.inc * (Len(digests) + 1) = k + Par.inc
      <4> DEFINE d == Len(digests)
      <4>1. d \in Int /\ Par.inc \in Int /\ k = Par.inc * d
        BY <1>3
      <4> HIDE DEF d, k
      <4>2. Par.inc * (d + 1) = k + Par.inc
        BY <4>1, OneMore
      <4> QED
        BY <4>2 DEF d
    <3>7. Kept'
      <4>1. stamps = Len(digests)
        BY <1>1 DEF Kept
      <4>2. Par.inc * Len(digests') = n + 1
        BY <3>2, <3>5, <3>6
      <4> HIDE DEF n
      <4> QED
        BY <1>3, <1>6, <3>1, <3>5, <4>1, <4>2 DEF Kept
    <3>8. \A i \in 1 .. Len(digests) : digests[i] = (b + Par.inc * i) % Ids
      BY <1>2, <3>3 DEF Numbered
    <3>9. digests'[Len(digests) + 1] = (b + Par.inc * (Len(digests) + 1)) % Ids
      BY <1>9, <3>2, <3>5, <3>6
    <3>10. \A i \in 1 .. Len(digests) + 1 :
             i \in 1 .. Len(digests) \/ i = Len(digests) + 1
      BY <1>3
    <3> QED
      BY <3>4, <3>5, <3>7, <3>8, <3>9, <3>10
  <2>2. CASE ~Answered
    <3>1. digests' = digests /\ stamps' = stamps
      BY <2>2 DEF Send
    <3>2. n + 1 # k + Par.inc
      BY <1>1, <2>2, AnsweredCompletes
    <3>3. Kept'
      <4>1. k <= n /\ n < k + Par.inc /\ stamps = Len(digests)
        BY <1>1 DEF Kept
      <4>2. Par.inc * Len(digests') = k
        BY <3>1
      <4> HIDE DEF k, n
      <4> QED
        <5>1. k <= n + 1 /\ n + 1 < k + Par.inc
          BY <1>3, <3>2, <4>1, SMTT(30)
        <5>2. stamps' = Len(digests')
          BY <3>1, <4>1
        <5> QED
          BY <1>6, <4>2, <5>1, <5>2, Zenon DEF Kept
    <3> QED
      BY <1>1, <1>2, <1>3, <3>1, <3>3 DEF TypeOK, Numbered
  <2> QED
    BY <2>1, <2>2
<1>15. TypeOK'
  BY <1>1, <1>6, <1>7, <1>8, <1>14 DEF TypeOK
<1>16. Numbered(b)'
  BY <1>6, <1>9, <1>12, <1>13, <1>14 DEF Numbered
<1> QED
  BY <1>10, <1>11, <1>14, <1>15, <1>16 DEF Inv

\* The peer gets a cell.
LEMMA ReceiveKeepsInv ==
  ASSUME CongestionControlAssumption, DefaultOrder, Inv, Receive
  PROVE  Inv'
<1> DEFINE n == cc.inflight
           a == Par.inc * Len(acks)
           g == a + owed
<1>1. /\ TypeOK /\ ~closed /\ CwndFloor /\ Kept /\ Received
      /\ cc.inflight <= Par.cwndMax
  BY DEF Inv
<1>2. PICK b \in Nat : Numbered(b)
  BY DEF Inv
<1>3. /\ Par.inc \in Nat /\ Par.inc >= 2 /\ Ids \in Nat /\ Ids > 0 /\ n \in Nat
      /\ Len(acks) \in Nat /\ a \in Nat /\ owed \in Nat /\ g \in Nat
      /\ got \in Nat
  BY <1>1, Facts, SMTT(30) DEF TypeOK
<1>4. g <= n /\ owed < Par.inc
  BY <1>1 DEF Received
<1>5. sent = (b + n) % Ids /\ got = (b + g) % Ids
  BY <1>2 DEF Numbered
<1>6. g # n
  BY <1>5 DEF Receive
<1>7. UNCHANGED <<cc, stamps, digests, sent, broken, blocked, closed>>
  BY DEF Receive
<1>8. got' = (b + (g + 1)) % Ids /\ got' \in Nat
  <2> DEFINE x == b + g
  <2>1. x \in Int /\ b + (g + 1) = x + 1 /\ Ids \in Int
    BY <1>3
  <2>2. got' = (got + 1) % Ids /\ got = x % Ids
    BY <1>5 DEF Receive
  <2> HIDE DEF x, g
  <2>3. ((x % Ids) + 1) % Ids = (x + 1) % Ids
    BY <1>3, <2>1, NextRemainder
  <2>4. got + 1 \in Int
    BY <1>3
  <2>5. (got + 1) % Ids \in Nat
    BY <1>3, <2>1, <2>4, DivisionFacts
  <2> QED
    BY <2>1, <2>2, <2>3, <2>5
<1>9. acks \in Seq(Nat)
  BY <1>1 DEF TypeOK
<1>10. /\ acks' \in Seq(Nat) /\ owed' \in Nat /\ owed' < Par.inc
       /\ Par.inc * Len(acks') + owed' = g + 1
       /\ \A i \in DOMAIN acks' : acks'[i] = (b + Par.inc * i) % Ids
  <2>1. CASE owed + 1 >= Par.inc
    <3>1. owed' = owed + 1 - Par.inc /\ acks' = Append(acks, got')
      BY <2>1 DEF Receive
    <3>2. owed + 1 = Par.inc /\ owed' = 0
      BY <1>3, <1>4, <2>1, <3>1, SMTT(30)
    <3>3. /\ acks' \in Seq(Nat)
          /\ Len(acks') = Len(acks) + 1
          /\ DOMAIN acks' = 1 .. Len(acks) + 1
          /\ \A i \in 1 .. Len(acks) : acks'[i] = acks[i]
          /\ acks'[Len(acks) + 1] = got'
      BY <1>8, <1>9, <3>1
    <3>4. Par.inc * (Len(acks) + 1) = g + 1
      <4> DEFINE d == Len(acks)
      <4>1. d \in Int /\ Par.inc \in Int /\ a = Par.inc * d
        BY <1>3
      <4> HIDE DEF d, a
      <4>2. Par.inc * (d + 1) = a + Par.inc
        BY <4>1, OneMore
      <4>3. a + Par.inc = g + 1
        BY <1>3, <3>2
      <4> QED
        BY <4>2, <4>3 DEF d
    <3>5. Par.inc * Len(acks') + owed' = g + 1
      <4>1. Par.inc * Len(acks') = g + 1
        BY <3>3, <3>4
      <4> HIDE DEF g
      <4> QED
        BY <1>3, <3>2, <4>1
    <3>6. \A i \in 1 .. Len(acks) : acks[i] = (b + Par.inc * i) % Ids
      BY <1>2, <1>9 DEF Numbered
    <3>7. acks'[Len(acks) + 1] = (b + Par.inc * (Len(acks) + 1)) % Ids
      BY <1>8, <3>3, <3>4
    <3>8. \A i \in 1 .. Len(acks) + 1 :
             i \in 1 .. Len(acks) \/ i = Len(acks) + 1
      BY <1>3
    <3>9. owed' \in Nat /\ owed' < Par.inc
      BY <1>3, <3>2
    <3> QED
      BY <3>3, <3>5, <3>6, <3>7, <3>8, <3>9
  <2>2. CASE ~(owed + 1 >= Par.inc)
    <3>1. owed' = owed + 1 /\ acks' = acks
      BY <2>2 DEF Receive
    <3>2. owed' \in Nat /\ owed' < Par.inc
      BY <1>3, <2>2, <3>1
    <3>3. Par.inc * Len(acks') + owed' = g + 1
      <4>1. Par.inc * Len(acks') = a
        BY <3>1
      <4> HIDE DEF a
      <4> QED
        BY <1>3, <3>1, <4>1
    <3> QED
      BY <1>2, <1>9, <3>1, <3>2, <3>3 DEF Numbered
  <2> QED
    BY <2>1, <2>2
<1>11. TypeOK'
  BY <1>1, <1>7, <1>8, <1>10 DEF TypeOK
<1>12. Received'
  <2>1. g + 1 <= n
    BY <1>3, <1>4, <1>6
  <2> QED
    BY <1>7, <1>10, <2>1, Zenon DEF Received
<1>13. Numbered(b)'
  <2>1. sent' = sent /\ cc' = cc /\ digests' = digests
    BY <1>7
  <2>2. (b + (Par.inc * Len(acks') + owed')) % Ids = (b + (g + 1)) % Ids
    BY <1>10
  <2> QED
    BY <1>2, <1>8, <1>10, <2>1, <2>2 DEF Numbered
<1>14. ~closed' /\ CwndFloor' /\ (cc.inflight <= Par.cwndMax)' /\ Kept'
  BY <1>1, <1>7 DEF CwndFloor, Kept
<1> QED
  BY <1>11, <1>12, <1>13, <1>14 DEF Inv

\* A SENDME arrives: it names the first digest, and the rest moves up by one
\* increment.
LEMMA SendmeKeepsInv ==
  ASSUME CongestionControlAssumption, DefaultOrder, Inv, Sendme
  PROVE  Inv'
<1> DEFINE n == cc.inflight
           k == Par.inc * Len(digests)
           a == Par.inc * Len(acks)
<1>1. /\ TypeOK /\ ~closed /\ CwndFloor /\ Kept /\ Received
      /\ cc.inflight <= Par.cwndMax
  BY DEF Inv
<1>2. PICK b \in Nat : Numbered(b)
  BY DEF Inv
<1>3. /\ Par.inc \in Nat /\ Par.inc >= 2 /\ Ids \in Nat /\ Ids > 0 /\ n \in Nat
      /\ Len(acks) \in Nat /\ Len(digests) \in Nat /\ a \in Nat /\ k \in Nat
      /\ owed \in Nat /\ stamps \in Nat
      /\ Par.cwndMax \in Nat /\ Wrap \in Nat /\ Par.cwndMax < Wrap
  BY <1>1, Facts DEF TypeOK
<1>i. Par.inc \in Nat /\ Par.inc \in Int
  BY <1>3
<1>t. a \in Nat /\ k \in Nat /\ n \in Nat /\ owed \in Nat
  BY <1>3
<1>w. Par.cwndMax \in Nat /\ Wrap \in Nat /\ Par.cwndMax < Wrap
  BY <1>3
<1>4. /\ k <= n /\ n < k + Par.inc /\ stamps = Len(digests)
      /\ a + owed <= n /\ owed < Par.inc
  BY <1>1 DEF Kept, Received
<1>5. acks \in Seq(Nat) /\ digests \in Seq(Nat)
  BY <1>1 DEF TypeOK
<1>6. Len(acks) >= 1
  BY <1>5 DEF Sendme
<1>7. PICK l \in Nat : Len(acks) = l + 1 /\ a = Par.inc * l + Par.inc
  <2> DEFINE l == Len(acks) - 1
  <2>1. l \in Nat /\ Len(acks) = l + 1
    BY <1>3, <1>6
  <2> HIDE DEF l
  <2>2. Par.inc * (l + 1) = Par.inc * l + Par.inc
    BY <1>i, <2>1, OneMore
  <2> QED
    BY <2>1, <2>2
<1>8. Par.inc * l \in Nat
  BY <1>3, <1>7
<1>9. k # 0
  <2> DEFINE p == Par.inc * l
  <2>1. p \in Nat /\ a = p + Par.inc
    BY <1>7, <1>8
  <2> HIDE DEF p, a, k, n
  <2> QED
    BY <1>3, <1>4, <2>1
<1>10. Len(digests) >= 1
  <2>1. Par.inc * 0 = 0
    BY <1>3
  <2> QED
    BY <1>3, <1>9, <2>1
<1>11. PICK m \in Nat : Len(digests) = m + 1 /\ k = Par.inc * m + Par.inc
  <2> DEFINE m == Len(digests) - 1
  <2>1. m \in Nat /\ Len(digests) = m + 1
    BY <1>3, <1>10
  <2> HIDE DEF m
  <2>2. Par.inc * (m + 1) = Par.inc * m + Par.inc
    BY <1>i, <2>1, OneMore
  <2> QED
    BY <2>1, <2>2
<1>12. Par.inc * m \in Nat
  BY <1>3, <1>11
<1>13. /\ 1 \in DOMAIN digests /\ Head(digests) = digests[1] /\ digests # <<>>
       /\ 1 \in DOMAIN acks /\ Head(acks) = acks[1]
  BY <1>5, <1>6, <1>10
<1>14. Head(digests) = Head(acks)
  BY <1>2, <1>13 DEF Numbered
<1>15. /\ digests' = Tail(digests) /\ acks' = Tail(acks)
       /\ stamps' = IF stamps > 0 THEN stamps - 1 ELSE 0
       /\ UNCHANGED <<sent, got, owed, blocked, closed>>
  BY <1>13, <1>14 DEF Sendme
<1>16. PICK rtt \in Rtts, queue \in Queues :
         cc' = AfterSendme(rtt, queue) /\ broken' = Broken(Counted(cc), rtt)
  BY <1>13, <1>14 DEF Sendme
<1>17. broken' \in BOOLEAN
  BY <1>16, Zenon DEF Broken
<1>18. /\ cc' \in CC /\ cc'.cwnd >= Par.inc /\ cc'.cwnd <= Par.cwndMax
       /\ cc'.inflight = n - Par.inc
  <2>1. rtt \in Nat /\ queue \in Nat
    BY <1>16, Parameters
  <2>2. Floor(cc) /\ blocked \in BOOLEAN /\ cc \in CC
    BY <1>1 DEF TypeOK, CwndFloor, Floor
  <2>3. n < Wrap /\ Par.inc <= n
    <3> DEFINE p == Par.inc * m
    <3>1. p \in Nat /\ k = p + Par.inc
      BY <1>11, <1>12
    <3>2. n <= Par.cwndMax
      BY <1>1
    <3> HIDE DEF p, k, a, n
    <3> QED
      BY <1>i, <1>t, <1>w, <1>4, <3>1, <3>2
  <2> DEFINE d == AfterSendme(rtt, queue)
  <2>4. d \in CC /\ Floor(d) /\ d.cwnd <= Par.cwndMax /\ d.inflight = n - Par.inc
    BY <2>1, <2>2, <2>3, SendmeKeepsFloor
  <2> HIDE DEF d
  <2>5. cc' = d
    BY <1>16 DEF d
  <2> QED
    BY <2>4, <2>5 DEF Floor
<1>19. /\ digests' \in Seq(Nat) /\ Len(digests') = m
       /\ DOMAIN digests' = 1 .. m
       /\ \A i \in 1 .. m : digests'[i] = digests[i + 1] /\ i + 1 \in DOMAIN digests
  BY <1>5, <1>11, <1>13, <1>15
<1>20. /\ acks' \in Seq(Nat) /\ Len(acks') = l
       /\ DOMAIN acks' = 1 .. l
       /\ \A i \in 1 .. l : acks'[i] = acks[i + 1] /\ i + 1 \in DOMAIN acks
  BY <1>5, <1>7, <1>13, <1>15 DEF Sendme
<1>21. stamps' = m
  BY <1>4, <1>11, <1>15
<1>22. TypeOK'
  BY <1>1, <1>15, <1>17, <1>18, <1>19, <1>20, <1>21 DEF TypeOK
<1> DEFINE c == b + Par.inc
<1>23. c \in Nat
  BY <1>3
<1>24. \A i \in Nat : b + Par.inc * (i + 1) = c + Par.inc * i
  <2> SUFFICES ASSUME NEW i \in Nat
               PROVE  b + Par.inc * (i + 1) = c + Par.inc * i
    OBVIOUS
  <2>0. i \in Int
    OBVIOUS
  <2>1. Par.inc * (i + 1) = Par.inc * i + Par.inc
    BY <1>i, <2>0, OneMore
  <2>2. Par.inc * i \in Nat
    BY <1>3
  <2> QED
    BY <1>3, <2>1, <2>2
<1>25. Kept' /\ Received' /\ (cc.inflight <= Par.cwndMax)'
  <2> DEFINE p == Par.inc * m
             q == Par.inc * l
  <2>0. Par.inc * Len(digests') = p /\ Par.inc * Len(acks') = q
    BY <1>19, <1>20
  <2>1. p \in Nat /\ q \in Nat /\ k = p + Par.inc /\ a = q + Par.inc
    BY <1>7, <1>8, <1>11, <1>12
  <2>2. n <= Par.cwndMax
    BY <1>1
  <2> HIDE DEF p, q, k, a, n
  <2>3. /\ p <= n - Par.inc /\ n - Par.inc < p + Par.inc
        /\ q + owed <= n - Par.inc /\ n - Par.inc <= Par.cwndMax
    <3>1. p <= n - Par.inc /\ n - Par.inc < p + Par.inc
      BY <1>i, <1>t, <1>4, <2>1, SMTT(30)
    <3>2. q + owed <= n - Par.inc
      <4>1. a + owed <= n /\ a = q + Par.inc /\ q \in Nat
        BY <1>4, <2>1
      <4>2. (q + Par.inc) + owed <= n
        BY <4>1
      <4> QED
        BY <1>i, <1>t, <4>1, <4>2
    <3>3. n - Par.inc <= Par.cwndMax
      BY <1>i, <1>t, <1>w, <2>2
    <3> QED
      BY <3>1, <3>2, <3>3
  <2>4. owed' = owed /\ stamps' = Len(digests')
    BY <1>15, <1>19, <1>21
  <2> QED
    BY <1>4, <1>18, <2>0, <2>3, <2>4, Zenon DEF Kept, Received
<1>26. Numbered(c)'
  <2>1. b + n = c + (n - Par.inc)
    BY <1>3
  <2>2. sent' = (c + cc'.inflight) % Ids
    BY <1>2, <1>15, <1>18, <2>1 DEF Numbered
  <2>3. b + (a + owed) = c + (Par.inc * Len(acks') + owed')
    <3> DEFINE q == Par.inc * l
    <3>1. q \in Nat /\ a = q + Par.inc
      BY <1>7, <1>8
    <3>2. Par.inc * Len(acks') = q /\ owed' = owed
      BY <1>15, <1>20
    <3> HIDE DEF q, a, k, n
    <3>3. b + (a + owed) = c + (q + owed)
      BY <1>i, <1>t, <3>1
    <3> QED
      BY <3>2, <3>3
  <2>4. got' = (c + (Par.inc * Len(acks') + owed')) % Ids
    BY <1>2, <1>15, <2>3 DEF Numbered
  <2>5. \A i \in 1 .. m : digests'[i] = (b + Par.inc * (i + 1)) % Ids
    BY <1>2, <1>19 DEF Numbered
  <2>6. \A i \in 1 .. l : acks'[i] = (b + Par.inc * (i + 1)) % Ids
    BY <1>2, <1>20 DEF Numbered
  <2> HIDE DEF c
  <2>7. \A i \in 1 .. m : digests'[i] = (c + Par.inc * i) % Ids
    BY <1>24, <2>5
  <2>8. \A i \in 1 .. l : acks'[i] = (c + Par.inc * i) % Ids
    BY <1>24, <2>6
  <2> QED
    BY <1>19, <1>20, <2>2, <2>4, <2>7, <2>8 DEF Numbered
<1>27. ~closed' /\ CwndFloor'
  BY <1>1, <1>15, <1>18 DEF CwndFloor
<1> QED
  BY <1>22, <1>23, <1>25, <1>26, <1>27 DEF Inv

\* Every step preserves the invariant.
LEMMA NextInv ==
  ASSUME CongestionControlAssumption, DefaultOrder, Inv, [Next]_vars
  PROVE  Inv'
<1>1. CASE Send
  BY <1>1, SendKeepsInv
<1>2. CASE Receive
  BY <1>2, ReceiveKeepsInv
<1>3. CASE Sendme
  BY <1>3, SendmeKeepsInv
<1>4. CASE Channel
  <2>1. UNCHANGED <<cc, stamps, digests, sent, got, owed, acks, broken, closed>>
        /\ blocked' = ~blocked
    BY <1>4 DEF Channel
  <2>2. TypeOK /\ blocked' \in BOOLEAN
    BY <2>1 DEF Inv, TypeOK
  <2>3. TypeOK'
    BY <2>1, <2>2 DEF TypeOK
  <2> QED
    BY <2>1, <2>3 DEF Inv, CwndFloor, Kept, Received, Numbered
<1>5. CASE UNCHANGED vars
  BY <1>5 DEF vars, Inv, TypeOK, CwndFloor, Kept, Received, Numbered
<1> QED
  BY <1>1, <1>2, <1>3, <1>4, <1>5 DEF Next

\* The digests are those of the SENDMEs on their way, and more.
LEMMA InvMatches ==
  ASSUME CongestionControlAssumption, DefaultOrder, Inv
  PROVE  SendmesMatch
<1> DEFINE n == cc.inflight
           k == Par.inc * Len(digests)
           a == Par.inc * Len(acks)
           g == a + owed
<1>1. TypeOK /\ ~closed /\ Kept /\ Received /\ cc.inflight <= Par.cwndMax
  BY DEF Inv
<1>2. PICK b \in Nat : Numbered(b)
  BY DEF Inv
<1>3. /\ Par.inc \in Nat /\ Par.inc >= 2 /\ Par.cwndMax \in Nat
      /\ Ids \in Nat /\ Par.cwndMax < Ids
  BY <1>1, Facts
<1>4. n \in Nat /\ a \in Nat /\ k \in Nat /\ owed \in Nat /\ g \in Nat
  BY <1>1, Facts, SMTT(30) DEF TypeOK
<1>5. Len(acks) \in Nat /\ Len(digests) \in Nat
  BY <1>1, Facts
<1>6. g <= n /\ n < k + Par.inc /\ n <= Par.cwndMax
  BY <1>1 DEF Kept, Received
<1>7. Len(acks) <= Len(digests)
  <2> SUFFICES ASSUME Len(acks) >= Len(digests) + 1 PROVE FALSE
    BY <1>5
  <2> DEFINE d == Len(digests)
             e == Len(acks)
  <2>1. d \in Int /\ e \in Int /\ Par.inc \in Int /\ e >= d + 1
    BY <1>3, <1>5
  <2>2. k = Par.inc * d /\ a = Par.inc * e
    OBVIOUS
  <2> HIDE DEF d, e, k, a, n
  <2>3. Par.inc * (d + 1) = k + Par.inc
    BY <2>1, <2>2, OneMore
  <2>4. Par.inc * e >= Par.inc * (d + 1)
    BY <1>3, <2>1
  <2> QED
    BY <1>3, <1>4, <1>6, <2>2, <2>3, <2>4
<1>8. acks \in Seq(Nat) /\ digests \in Seq(Nat)
  BY <1>1 DEF TypeOK
<1>9. \A i \in 1 .. Len(acks) : acks[i] = digests[i]
  BY <1>2, <1>5, <1>7, <1>8 DEF Numbered
<1>10. IsPrefix(acks, digests)
  <2>1. SubSeq(acks, 1, Len(acks)) = SubSeq(digests, 1, Len(acks))
    <3> DEFINE e == Len(acks)
               p == SubSeq(acks, 1, e)
               q == SubSeq(digests, 1, e)
    <3>1. e \in Nat /\ e <= Len(acks) /\ e <= Len(digests)
      BY <1>5, <1>7
    <3>2. \A i \in 1 .. e : acks[i] = digests[i]
      BY <1>9
    <3> HIDE DEF e
    <3>3. p \in Seq(Nat) /\ Len(p) = e /\ \A i \in 1 .. e : p[i] = acks[i]
      BY <1>8, <3>1
    <3>4. q \in Seq(Nat) /\ Len(q) = e /\ \A i \in 1 .. e : q[i] = digests[i]
      BY <1>8, <3>1
    <3> HIDE DEF p, q
    <3>5. p = q
      BY <3>1, <3>2, <3>3, <3>4
    <3> QED
      BY <3>5 DEF e, p, q
  <2> QED
    BY <1>7, <2>1 DEF IsPrefix
<1>11. Expected
  BY <1>1, <1>10 DEF Kept, Expected
<1>12. InflightIsRight
  <2> DEFINE x == b + g
             j == n - g
  <2>1. x \in Int /\ j \in Int /\ 0 <= j /\ j < Ids /\ Ids \in Int
        /\ x + j = b + n
    <3> HIDE DEF g, n
    <3> QED
      BY <1>3, <1>4, <1>6
  <2>2. sent = (x + j) % Ids /\ got = x % Ids
    BY <1>2, <2>1 DEF Numbered
  <2> HIDE DEF x, j
  <2>3. (((x + j) % Ids) - (x % Ids)) % Ids = j
    BY <2>1, Distance
  <2>4. (sent - got) % Ids = j
    BY <2>2, <2>3
  <2>5. j = n - g
    BY DEF j
  <2>6. n = (j + owed) + a
    <3> HIDE DEF n, a
    <3> QED
      BY <1>4, <2>5
  <2> QED
    BY <2>4, <2>6 DEF InflightIsRight
<1> QED
  BY <1>11, <1>12 DEF SendmesMatch

\* A window without cells or SENDMEs on their way is less than an increment.
LEMMA InvOpen ==
  ASSUME CongestionControlAssumption, DefaultOrder, Inv
  PROVE  WindowStaysOpen
<1>1. TypeOK /\ CwndFloor /\ Received
  BY DEF Inv
<1>2. InflightIsRight
  BY InvMatches DEF SendmesMatch
<1>3. /\ Par.inc \in Nat /\ Ids \in Nat /\ Ids > 0
      /\ cc.inflight \in Nat /\ cc.cwnd \in Nat /\ owed \in Nat /\ sent \in Nat
  BY <1>1, Facts DEF TypeOK
<1>4. ASSUME sent = got, acks = <<>>
      PROVE  cc.inflight < cc.cwnd
  <2>1. Par.inc * Len(acks) = 0
    BY <1>3, <1>4
  <2>2. sent - got = 0
    BY <1>3, <1>4
  <2>3. 0 % Ids = 0
    BY <1>3, RemainderIs, Ids * 0 = 0
  <2>4. cc.inflight = owed
    BY <1>2, <1>3, <2>1, <2>2, <2>3 DEF InflightIsRight
  <2>5. owed < Par.inc /\ Par.inc <= cc.cwnd
    BY <1>1, <1>3 DEF Received, CwndFloor
  <2> QED
    BY <1>3, <2>4, <2>5
<1>5. WindowReopens
  BY <1>3, <1>4 DEF WindowReopens
<1> QED
  BY <1>1, <1>5 DEF WindowStaysOpen

-----------------------------------------------------------------------------
(* The theorems.                                                            *)

\* The inductive invariant holds throughout, for any increment, window and
\* number of cells.
THEOREM InvHolds ==
  ASSUME CongestionControlAssumption, DefaultOrder
  PROVE  Spec => []Inv
<1>1. Init => Inv
  BY InitInv
<1>2. Inv /\ [Next]_vars => Inv'
  BY NextInv
<1> QED
  BY <1>1, <1>2, PTL DEF Spec

\* The SENDMEs that are on their way are those whose digests the sender has kept,
\* in that order, and it counts in flight exactly what it has sent and they do not
\* answer (sendme_record_cell_digest_on_circ, sendme_process_circuit_level,
\* congestion_control_note_cell_sent), so that no circuit is closed for a SENDME
\* that was not expected.
THEOREM SendmesAreExpected ==
  ASSUME CongestionControlAssumption, DefaultOrder
  PROVE  Spec => []SendmesMatch
<1>1. Inv => SendmesMatch
  BY InvMatches
<1> QED
  BY <1>1, InvHolds, PTL

\* The window never shuts for good: cwnd stays within its bounds whatever
\* congestion_control_vegas_process_sendme computes, and when nothing is on its
\* way there is room for a cell.
THEOREM WindowNeverShuts ==
  ASSUME CongestionControlAssumption, DefaultOrder
  PROVE  Spec => []WindowStaysOpen
<1>1. Inv => WindowStaysOpen
  BY InvOpen
<1> QED
  BY <1>1, InvHolds, PTL

-----------------------------------------------------------------------------
-----------------------------------------------------------------------------
(* The sender.                                                              *)

\* The counters an edge keeps of what it sent and got may be anything here.
IsSender(s) ==
  s \in [inbuf : Nat, reading : BOOLEAN, xoff : BOOLEAN, bw : BOOLEAN,
         window : Nat, queue : Nat, blocked : BOOLEAN,
         xmit : {s.xmit}, xoffs : {s.xoffs}, xons : {s.xons}]

\* What holds of the sending edge: data waits in the inbuf, and reading is
\* stopped, for a cause only.
SenderInv(s) ==
  /\ IsSender(s)
  /\ s.reading => s.inbuf = 0
  /\ s.xoff => ~s.reading
  /\ s.inbuf > 0 => s.window = 0 \/ s.xoff \/ s.blocked
  /\ s.reading \/ s.window = 0 \/ s.xoff \/ s.blocked \/ s.bw
  /\ s.blocked => s.queue > Low

\* t has packaged some of what s has to send.
Carried(s, t) ==
  /\ t.window + t.queue = s.window + s.queue
  /\ t.inbuf <= s.inbuf
  /\ t.xoff = s.xoff /\ t.bw = s.bw

\* n cells leave an inbuf of a by a window of b when m are wanted: all that fit,
\* unless E says that one is enough.
Fits(a, b, m, E, n) ==
  /\ n \in Nat /\ n <= a /\ n <= b
  /\ E = {} /\ m >= a => n = a \/ n = b

\* How many cells connection_edge_package_raw_inbuf packages.
LEMMA AmountIs ==
  ASSUME NEW a \in Nat, NEW b \in Nat, NEW m \in Int, NEW E \in {{}, {1}}, NEW n,
         n = Max({0, Min({a, b, m} \cup E)})
  PROVE  Fits(a, b, m, E, n)
<1> DEFINE S == {a, b, m} \cup E
           k == Min(S)
<1>0. n = Max({0, k})
  OBVIOUS
<1>1. \E y \in S : \A z \in S : y <= z
  <2>1. PICK y \in {a, b, m} : y <= a /\ y <= b /\ y <= m
    OBVIOUS
  <2>2. CASE E = {1} /\ y > 1
    <3>1. 1 \in S /\ \A z \in S : 1 <= z
      BY <2>1, <2>2
    <3> QED BY <3>1
  <2>3. CASE ~(E = {1} /\ y > 1)
    <3>1. y \in S /\ \A z \in S : y <= z
      BY <2>1, <2>3
    <3> QED BY <3>1
  <2> QED BY <2>2, <2>3
<1>2. k \in S /\ \A z \in S : k <= z
  <2> HIDE DEF S
  <2> QED BY <1>1 DEF Min
<1>3. k \in Int /\ k <= a /\ k <= b /\ k <= m /\ (E = {} => k \in {a, b, m})
  BY <1>2
<1> HIDE DEF k, S
<1>4. n \in {0, k} /\ n >= 0 /\ n >= k
  <2>1. \E y \in {0, k} : \A z \in {0, k} : y >= z
    BY <1>3
  <2>2. n \in {0, k} /\ \A z \in {0, k} : n >= z
    BY <1>0, <2>1 DEF Max
  <2> QED BY <2>2
<1>5. n \in Nat /\ n <= a /\ n <= b /\ (E = {} /\ m >= a => n = a \/ n = b)
  BY <1>3, <1>4
<1> QED BY <1>5 DEF Fits

\* What packaging n cells does.
LEMMA PackagedIs ==
  ASSUME NEW s, IsSender(s), NEW n \in Nat, n <= s.inbuf, n <= s.window, High \in Nat
  PROVE  LET p == Packaged(s, n)
         IN  /\ IsSender(p) /\ Carried(s, p)
             /\ p.inbuf = s.inbuf - n /\ p.window = s.window - n
             /\ p.queue = s.queue + n
             /\ p.blocked = (s.blocked \/ (n > 0 /\ s.queue + n >= High))
             /\ p.reading = (s.reading /\ (n = 0 \/ s.xoff \/ ~p.blocked))
<1> DEFINE c == Noted(s, n)
           ib == s.inbuf - n
           wi == s.window - n
           qu == s.queue + n
           xm == c.xmit
           xf == c.xoffs
           xn == c.xons
           u == [s EXCEPT !.inbuf = ib, !.window = wi, !.xmit = xm,
                          !.xoffs = xf, !.xons = xn]
           w == s.blocked \/ (n > 0 /\ s.queue + n >= High)
           g == s.reading /\ (n = 0 \/ s.xoff \/ ~w)
           p == [u EXCEPT !.queue = qu, !.blocked = w, !.reading = g]
<1>1. /\ ib \in Nat /\ wi \in Nat /\ qu \in Nat /\ w \in BOOLEAN /\ g \in BOOLEAN
      /\ s.inbuf \in Nat /\ s.window \in Nat /\ s.queue \in Nat
  BY DEF IsSender
<1>2. /\ u.queue = s.queue /\ u.blocked = s.blocked /\ u.reading = s.reading
      /\ u.xoff = s.xoff
  <2> HIDE DEF ib, wi, xm, xf, xn
  <2> QED BY DEF IsSender
<1>3. p = Packaged(s, n)
  <2>1. Packaged(s, n) = Appended(u, n)
    BY DEF Packaged
  <2>2. Appended(u, n) = [u EXCEPT !.queue = u.queue + n,
                            !.blocked = (u.blocked \/ (n > 0 /\ u.queue + n >= High)),
                            !.reading = (u.reading /\ (n = 0 \/ u.xoff
                                  \/ ~(u.blocked \/ (n > 0 /\ u.queue + n >= High))))]
    BY DEF Appended
  <2> HIDE DEF u
  <2>3. /\ (u.blocked \/ (n > 0 /\ u.queue + n >= High)) = w
        /\ (u.reading /\ (n = 0 \/ u.xoff
               \/ ~(u.blocked \/ (n > 0 /\ u.queue + n >= High)))) = g
        /\ u.queue + n = qu
    BY <1>2
  <2> HIDE DEF w, g, qu
  <2> QED BY <2>1, <2>2, <2>3
<1>4. /\ p \in [inbuf : Nat, reading : BOOLEAN, xoff : BOOLEAN, bw : BOOLEAN,
                window : Nat, queue : Nat, blocked : BOOLEAN,
                xmit : {xm}, xoffs : {xf}, xons : {xn}]
      /\ p.xmit = xm /\ p.xoffs = xf /\ p.xons = xn
      /\ p.inbuf = ib /\ p.window = wi /\ p.queue = qu
      /\ p.blocked = w /\ p.xoff = s.xoff /\ p.bw = s.bw
      /\ p.reading = g
  <2> HIDE DEF ib, wi, qu, xm, xf, xn, w, g
  <2> QED BY <1>1 DEF IsSender
<1> HIDE DEF p
<1>5. IsSender(p)
  BY <1>4 DEF IsSender
<1>6. Carried(s, p)
  BY <1>1, <1>4 DEF Carried
<1>7. /\ p.blocked = (s.blocked \/ (n > 0 /\ s.queue + n >= High))
      /\ p.reading = (s.reading /\ (n = 0 \/ s.xoff \/ ~p.blocked))
  <2>1. g = (s.reading /\ (n = 0 \/ s.xoff \/ ~w))
    OBVIOUS
  <2> HIDE DEF w, g
  <2> QED BY <1>4, <2>1 DEF w
<1> QED BY <1>3, <1>4, <1>5, <1>6, <1>7

\* p is what is left of s when up to m cells have been packaged.
PackagesUpTo(s, m, p) ==
  /\ IsSender(p) /\ Carried(s, p)
  /\ p.blocked => p.queue > Low
  /\ p.reading => s.reading
  /\ s.reading => p.reading \/ p.window = 0 \/ p.xoff \/ p.blocked
  /\ ~s.xoff /\ m >= s.inbuf => p.inbuf = 0 \/ p.window = 0
  /\ m > 0 /\ p.window = 0 => ~p.reading

\* connection_edge_package_raw_inbuf
LEMMA PackageIs ==
  ASSUME NEW s, IsSender(s), NEW m \in Int, FlowAssumption,
         s.blocked => s.queue > Low
  PROVE  PackagesUpTo(s, m, Package(s, m))
<1> DEFINE n == Max({0, Min({s.inbuf, s.window, m} \cup (IF s.xoff THEN {1} ELSE {}))})
           t == Packaged(s, n)
           p == IF m > 0 /\ (t.window <= 0 \/ (s.xoff /\ n > 0)) THEN Stopped(t) ELSE t
<1>1. /\ s.inbuf \in Nat /\ s.window \in Nat /\ s.xoff \in BOOLEAN /\ s.queue \in Nat
      /\ s.reading \in BOOLEAN /\ s.blocked \in BOOLEAN
      /\ High \in Nat /\ Low \in Nat /\ Low < High
  BY DEF IsSender, FlowAssumption
<1>2. /\ n \in Nat /\ n <= s.inbuf /\ n <= s.window
      /\ ~s.xoff /\ m >= s.inbuf => n = s.inbuf \/ n = s.window
  <2> DEFINE E == IF s.xoff THEN {1} ELSE {}
  <2>1. n = Max({0, Min({s.inbuf, s.window, m} \cup E)})
    OBVIOUS
  <2>2. E \in {{}, {1}} /\ (~s.xoff => E = {})
    OBVIOUS
  <2> HIDE DEF n, E
  <2>3. Fits(s.inbuf, s.window, m, E, n)
    BY <1>1, <2>1, <2>2, AmountIs
  <2> QED BY <2>2, <2>3 DEF Fits
<1> HIDE DEF n
<1>3. /\ IsSender(t) /\ Carried(s, t)
      /\ t.inbuf = s.inbuf - n /\ t.window = s.window - n
      /\ t.queue = s.queue + n
      /\ t.blocked = (s.blocked \/ (n > 0 /\ s.queue + n >= High))
      /\ t.reading = (s.reading /\ (n = 0 \/ s.xoff \/ ~t.blocked))
  BY <1>1, <1>2, PackagedIs
<1> HIDE DEF t
<1>4. /\ IsSender(Stopped(t)) /\ Carried(s, Stopped(t)) /\ ~Stopped(t).reading
      /\ Stopped(t).inbuf = t.inbuf /\ Stopped(t).window = t.window
      /\ Stopped(t).queue = t.queue /\ Stopped(t).blocked = t.blocked
      /\ Stopped(t).xoff = t.xoff
  BY <1>3 DEF IsSender, Carried, Stopped
<1>5. t.xoff = s.xoff
  BY <1>3 DEF Carried
<1>6. p \in {t, Stopped(t)} /\ (m > 0 /\ t.window = 0 => p = Stopped(t))
      /\ (p = t \/ t.window = 0 \/ s.xoff)
  BY <1>1, <1>2, <1>3 DEF IsSender
<1> HIDE DEF p
<1>7. p = Package(s, m)
  BY DEF p, t, n, Package
<1>8. CASE p = t
  BY <1>1, <1>2, <1>3, <1>4, <1>5, <1>6, <1>7, <1>8 DEF PackagesUpTo, IsSender
<1>9. CASE p = Stopped(t)
  BY <1>1, <1>2, <1>3, <1>4, <1>5, <1>6, <1>7, <1>9 DEF PackagesUpTo
<1> QED BY <1>6, <1>8, <1>9

\* connection_start_reading
LEMMA StartReadingIs ==
  ASSUME FlowAssumption, NEW s, IsSender(s), s.inbuf <= Total, ~s.xoff,
         s.blocked => s.queue > Low
  PROVE  LET t == StartReading(s)
         IN  /\ SenderInv(t) /\ Carried(s, t)
             /\ t.inbuf > 0 => t.window = 0
             /\ t.reading \/ t.window = 0 \/ t.blocked
<1> DEFINE r == [s EXCEPT !.reading = TRUE]
<1>1. /\ IsSender(r) /\ r.reading /\ r.inbuf = s.inbuf /\ r.window = s.window
      /\ r.queue = s.queue /\ r.blocked = s.blocked /\ r.xoff = s.xoff /\ r.bw = s.bw
      /\ s.inbuf \in Nat /\ s.window \in Nat /\ s.queue \in Nat
  BY DEF IsSender
<1>2. Total \in Int
  BY DEF FlowAssumption
<1> HIDE DEF r
<1>3. CASE s.inbuf = 0
  <2>1. StartReading(s) = r
    BY <1>3 DEF StartReading, r
  <2>2. Carried(s, r)
    BY <1>1 DEF Carried
  <2> QED BY <1>1, <1>3, <2>1, <2>2 DEF SenderInv
<1>4. CASE s.inbuf > 0
  <2> DEFINE t == Package(r, Total)
  <2>1. StartReading(s) = t
    BY <1>1, <1>4 DEF StartReading, r
  <2>2. /\ IsSender(t) /\ Carried(r, t) /\ (t.blocked => t.queue > Low)
        /\ r.reading => t.reading \/ t.window = 0 \/ t.xoff \/ t.blocked
        /\ ~r.xoff /\ Total >= r.inbuf => t.inbuf = 0 \/ t.window = 0
        /\ Total > 0 /\ t.window = 0 => ~t.reading
    <3>1. r.blocked => r.queue > Low
      BY <1>1
    <3>2. PackagesUpTo(r, Total, t)
      BY <1>1, <1>2, <3>1, PackageIs
    <3> QED BY <3>2 DEF PackagesUpTo
  <2> HIDE DEF t
  <2>3. Carried(s, t) /\ ~t.xoff /\ Total > 0 /\ t.inbuf \in Nat
    BY <1>1, <1>2, <1>4, <2>2 DEF Carried, IsSender
  <2> QED BY <1>1, <1>2, <2>1, <2>2, <2>3 DEF SenderInv
<1> QED BY <1>1, <1>3, <1>4

\* circuit_resume_edge_reading, after a SENDME
LEMMA ResumedIs ==
  ASSUME FlowAssumption, NEW s, SenderInv(s), s.inbuf <= Total
  PROVE  LET v == [s EXCEPT !.window = @ + SendmeInc]
         IN  SenderInv(Resumed(v)) /\ Carried(v, Resumed(v))
<1> DEFINE v == [s EXCEPT !.window = @ + SendmeInc]
           t == StartReading(v)
           m == Min({t.window, High - t.queue})
           u == Package(t, m)
<1>1. /\ IsSender(v) /\ v.reading = s.reading /\ v.inbuf = s.inbuf
      /\ v.window = s.window + SendmeInc /\ v.queue = s.queue /\ v.blocked = s.blocked
      /\ v.xoff = s.xoff /\ v.bw = s.bw /\ SendmeInc \in Nat /\ High \in Nat
      /\ s.inbuf \in Nat /\ s.window \in Nat /\ s.queue \in Nat
      /\ v.inbuf \in Nat /\ v.window \in Nat /\ v.queue \in Nat
  BY DEF SenderInv, IsSender, FlowAssumption
<1> HIDE DEF v
<1>2. Carried(v, v)
  BY <1>1 DEF Carried
<1>3. CASE s.blocked
  <2>1. Resumed(v) = v
    BY <1>1, <1>3 DEF Resumed
  <2> QED BY <1>1, <1>2, <1>3, <2>1 DEF SenderInv, v
<1>4. CASE ~s.blocked
  <2>1. /\ IsSender(t) /\ Carried(v, t) /\ (t.blocked => t.queue > Low)
        /\ t.reading => t.inbuf = 0
        /\ t.xoff => ~t.reading
        /\ t.inbuf > 0 => t.window = 0 \/ t.xoff
        /\ t.reading \/ t.window = 0 \/ t.blocked \/ t.xoff
    <3>1. CASE s.xoff
      <4>1. t = v
        BY <1>1, <3>1 DEF StartReading
      <4> QED BY <1>1, <1>2, <3>1, <4>1 DEF SenderInv
    <3>2. CASE ~s.xoff
      BY <1>1, <1>4, <3>2, StartReadingIs DEF SenderInv
    <3> QED BY <3>1, <3>2
  <2>2. Resumed(v) = IF t.inbuf = 0 THEN t ELSE IF u.window <= 0 THEN Stopped(u) ELSE u
    BY <1>1, <1>4 DEF Resumed
  <2> HIDE DEF t
  <2>3. t.window \in Nat /\ t.queue \in Nat /\ t.inbuf \in Nat /\ t.reading \in BOOLEAN
        /\ t.xoff \in BOOLEAN
    BY <2>1 DEF IsSender
  <2>4. CASE t.inbuf = 0
    BY <2>1, <2>2, <2>4 DEF SenderInv, v
  <2>5. CASE t.inbuf > 0
    <3>1. m \in Int
      <4>1. \E y \in {t.window, High - t.queue} : \A z \in {t.window, High - t.queue} : y =< z
        BY <1>1, <2>3
      <4>2. m \in {t.window, High - t.queue}
        BY <4>1 DEF Min
      <4> QED BY <1>1, <2>3, <4>2
    <3> HIDE DEF m
    <3>2. /\ IsSender(u) /\ Carried(t, u) /\ (u.blocked => u.queue > Low)
          /\ u.reading => t.reading
      BY <2>1, <3>1, PackageIs DEF PackagesUpTo
    <3> HIDE DEF u
    <3>3. /\ Carried(v, u) /\ ~u.reading /\ (u.window = 0 \/ u.xoff)
          /\ u.window \in Nat /\ u.queue \in Nat
      <4>1. u.window \in Nat /\ u.queue \in Nat /\ u.inbuf \in Nat /\ v.inbuf \in Nat
            /\ u.xoff = t.xoff
        BY <1>1, <3>2 DEF IsSender, Carried
      <4>2. Carried(v, u)
        BY <1>1, <2>1, <2>3, <3>2, <4>1 DEF Carried
      <4>3. ~u.reading /\ (t.window = 0 \/ u.xoff)
        BY <2>1, <2>3, <2>5, <3>2, <4>1
      <4>4. t.window = 0 => u.window = 0
        <5> SUFFICES ASSUME t.window = 0 PROVE u.window = 0
          OBVIOUS
        <5>1. Max({0, Min({t.inbuf, t.window, m} \cup (IF t.xoff THEN {1} ELSE {}))}) = 0
          <6> DEFINE E == IF t.xoff THEN {1} ELSE {}
                     n == Max({0, Min({t.inbuf, t.window, m} \cup E)})
          <6>1. E \in {{}, {1}}
            OBVIOUS
          <6>2. n = Max({0, Min({t.inbuf, t.window, m} \cup E)})
            OBVIOUS
          <6> HIDE DEF E, n
          <6>3. Fits(t.inbuf, t.window, m, E, n)
            BY <2>3, <3>1, <6>1, <6>2, AmountIs
          <6>4. n = 0
            BY <2>3, <6>3 DEF Fits
          <6> QED BY <6>4 DEF n, E
        <5>2. /\ IsSender(Packaged(t, 0)) /\ Packaged(t, 0).window = t.window - 0
          BY <1>1, <2>1, <2>3, PackagedIs
        <5>3. u \in {Packaged(t, 0), Stopped(Packaged(t, 0))}
          BY <5>1 DEF u, Package
        <5>4. Stopped(Packaged(t, 0)).window = Packaged(t, 0).window
          BY <5>2 DEF Stopped, IsSender
        <5> QED BY <2>3, <5>2, <5>3, <5>4
      <4> QED BY <4>1, <4>2, <4>3, <4>4
    <3>4. SenderInv(u)
      BY <3>2, <3>3 DEF SenderInv
    <3>5. SenderInv(Stopped(u)) /\ Carried(v, Stopped(u))
      BY <3>3, <3>4 DEF SenderInv, IsSender, Carried, Stopped
    <3> QED BY <2>2, <2>5, <3>3, <3>4, <3>5 DEF v
  <2> QED BY <2>3, <2>4, <2>5
<1> QED BY <1>3, <1>4
-----------------------------------------------------------------------------
(* The receiver.                                                            *)

\* The drain counters may be anything but the rate.
IsReceiver(r) ==
  r \in [outbuf : Nat, xoffSent : BOOLEAN, grace : BOOLEAN, start : BOOLEAN,
         drained : {r.drained}, ewma : Nat, last : {r.last}, unacked : Nat]

\* v is r but for the measurement of its drain rate.
SameBuffer(r, v) ==
  /\ IsReceiver(v)
  /\ v.outbuf = r.outbuf /\ v.xoffSent = r.xoffSent
  /\ v.grace = r.grace /\ v.unacked = r.unacked

\* The rate is a number.
LEMMA DrainEwmaIs ==
  ASSUME NEW a \in Nat, NEW b \in Nat
  PROVE  DrainEwma(a, b) \in Nat
<1>1. (2 * a + b) \div 3 \in Nat
  OBVIOUS
<1> QED BY <1>1 DEF DrainEwma

\* flow_control_decide_xon measures the drain rate and leaves the buffer
\* alone,
LEMMA DrainedIs ==
  ASSUME NEW r, IsReceiver(r), NEW n, NEW rate \in Nat
  PROVE  SameBuffer(r, Drained(r, n, rate))
<1> DEFINE begins == ~r.start /\ r.outbuf > 0
           st == r.start \/ begins
           dr == IF begins THEN 0 ELSE r.drained + n
           s == [r EXCEPT !.start = st, !.drained = dr]
           e == DrainEwma(rate, s.ewma)
           t == [s EXCEPT !.ewma = e, !.drained = 0, !.start = FALSE]
<1>1. st \in BOOLEAN
  BY DEF IsReceiver
<1>2. SameBuffer(r, s) /\ s.ewma \in Nat
  <2> HIDE DEF st, dr
  <2> QED BY <1>1 DEF IsReceiver, SameBuffer
<1>3. Drained(r, n, rate) = IF s.start /\ s.drained > XonRate THEN t ELSE s
  BY DEF Drained
<1>4. e \in Nat
  <2> HIDE DEF s
  <2> QED BY <1>2, DrainEwmaIs
<1> HIDE DEF s, e
<1>5. SameBuffer(r, t)
  BY <1>2, <1>4 DEF IsReceiver, SameBuffer
<1> QED BY <1>2, <1>3, <1>5

\* and so does what follows once the queue is empty.
LEMMA SettledIs ==
  ASSUME FlowAssumption, NEW r, IsReceiver(r)
  PROVE  SameBuffer(r, Settled(r))
<1> DEFINE e == Min({MaxRate, 2 * r.ewma})
           d == [r EXCEPT !.ewma = e, !.drained = 0]
           f == IF r.drained >= XonRate /\ r.last # 0 THEN d ELSE r
           g == [f EXCEPT !.start = FALSE]
<1>1. Settled(r) = IF r.outbuf = 0 THEN g ELSE r
  BY DEF Settled
<1>2. e \in Nat
  <2>1. MaxRate \in Nat /\ 2 * r.ewma \in Nat
    BY DEF FlowAssumption, IsReceiver
  <2>2. \E y \in {MaxRate, 2 * r.ewma} : \A z \in {MaxRate, 2 * r.ewma} : y =< z
    BY <2>1
  <2> QED BY <2>1, <2>2 DEF Min
<1> HIDE DEF e
<1>3. SameBuffer(r, r) /\ SameBuffer(r, d)
  BY <1>2 DEF IsReceiver, SameBuffer
<1>4. SameBuffer(r, f)
  BY <1>3
<1> HIDE DEF f
<1>5. SameBuffer(r, g)
  BY <1>4 DEF IsReceiver, SameBuffer
<1> QED BY <1>1, <1>3, <1>5

Cells == [cmd : {"sendme", "xoff", "xon"}, rate : Nat]

\* x is a receiver and the cells it sends, after r: nothing; an XON, when none
\* was owed or the buffer is empty.
MaySendXon(r, x) ==
  /\ IsReceiver(x.rcv) /\ x.rcv.outbuf = r.outbuf
  /\ x.rcv.grace = r.grace /\ x.rcv.unacked = r.unacked
  /\ \/ x.sent = <<>> /\ x.rcv.xoffSent = r.xoffSent
        /\ (r.xoffSent => r.outbuf # 0)
     \/ /\ \E c \in Cells : c.cmd = "xon" /\ x.sent = <<c>>
        /\ ~x.rcv.xoffSent /\ (r.xoffSent => r.outbuf = 0)

\* flow_control_decide_xon
LEMMA DecideXonIs ==
  ASSUME FlowAssumption, NEW r, IsReceiver(r), NEW n, NEW rate \in Nat
  PROVE  MaySendXon(r, DecideXon(r, n, rate))
<1> DEFINE d == Drained(r, n, rate)
           x == DecideXon(r, n, rate)
           c == [cmd |-> "xon", rate |-> d.ewma]
<1>1. SameBuffer(r, d)
  BY DrainedIs
<1>2. x = IF WantsXon(d) THEN [rcv |-> Settled(SentXon(d)), sent |-> <<c>>]
                         ELSE [rcv |-> Settled(d), sent |-> <<>>]
  BY DEF DecideXon
<1> HIDE DEF d, x
<1>3. c \in Cells /\ c.cmd = "xon"
  BY <1>1 DEF SameBuffer, IsReceiver, Cells
<1> HIDE DEF c
<1>4. CASE WantsXon(d)
  <2>1. /\ IsReceiver(SentXon(d)) /\ ~SentXon(d).xoffSent
        /\ SentXon(d).outbuf = d.outbuf /\ SentXon(d).grace = d.grace
        /\ SentXon(d).unacked = d.unacked
    BY <1>1 DEF SentXon, SameBuffer, IsReceiver
  <2>2. SameBuffer(SentXon(d), Settled(SentXon(d)))
    BY <2>1, SettledIs
  <2>3. d.xoffSent => d.outbuf = 0
    BY <1>4 DEF WantsXon
  <2>4. x.rcv = Settled(SentXon(d)) /\ x.sent = <<c>>
    BY <1>2, <1>4
  <2> HIDE DEF x
  <2>5. MaySendXon(r, x)
    BY <1>1, <1>3, <2>1, <2>2, <2>3, <2>4 DEF SameBuffer, MaySendXon
  <2> QED BY <2>5 DEF x
<1>5. CASE ~WantsXon(d)
  <2>2. SameBuffer(d, Settled(d))
    BY <1>1, SettledIs DEF SameBuffer
  <2>3. d.xoffSent => d.outbuf # 0
    BY <1>5 DEF WantsXon
  <2>4. x.rcv = Settled(d) /\ x.sent = <<>>
    BY <1>2, <1>5
  <2>5. MaySendXon(r, x)
    BY <1>1, <2>2, <2>3, <2>4 DEF SameBuffer, MaySendXon
  <2> QED BY <2>5 DEF x
<1> QED BY <1>4, <1>5

\* x is a receiver and the cells it sends, before a cell joins the buffer of r:
\* nothing; an XOFF, after the grace period; an XON when none is owed.
MaySendXoff(r, x) ==
  /\ IsReceiver(x.rcv) /\ x.rcv.outbuf = r.outbuf /\ x.rcv.unacked = r.unacked
  /\ x.rcv.grace => r.outbuf > Limit
  /\ \/ x.sent = <<>> /\ x.rcv.xoffSent = r.xoffSent
     \/ /\ x.sent = <<Xoff>> /\ x.rcv.xoffSent /\ r.grace /\ r.outbuf > Limit
     \/ /\ \E c \in Cells : c.cmd = "xon" /\ x.sent = <<c>>
        /\ ~x.rcv.xoffSent /\ ~r.xoffSent

\* flow_control_decide_xoff
LEMMA DecideXoffIs ==
  ASSUME FlowAssumption, NEW r, IsReceiver(r), NEW elapsed \in BOOLEAN, NEW rate \in Nat
  PROVE  MaySendXoff(r, DecideXoff(r, elapsed, rate))
<1> DEFINE xoff == SendsXoff(r, elapsed)
           gr == Grace(r, elapsed)
           xs == r.xoffSent \/ xoff
           ew == IF xoff THEN 0 ELSE r.ewma
           t == [r EXCEPT !.grace = gr, !.xoffSent = xs, !.ewma = ew]
           y == IF r.outbuf > Burst THEN DecideXon(t, 0, rate)
                                    ELSE [rcv |-> t, sent |-> <<>>]
           x == DecideXoff(r, elapsed, rate)
<1>1. /\ r.outbuf \in Nat /\ r.grace \in BOOLEAN /\ r.xoffSent \in BOOLEAN
      /\ r.ewma \in Nat /\ Limit \in Nat /\ Limit > 0 /\ Burst \in Nat
  BY DEF IsReceiver, FlowAssumption
<1>2. /\ gr \in BOOLEAN /\ (gr => r.outbuf > Limit)
      /\ xoff \in BOOLEAN /\ (xoff => r.outbuf > Limit /\ r.grace /\ ~r.xoffSent)
      /\ xs \in BOOLEAN /\ ew \in Nat
  <2>1. xoff \in BOOLEAN /\ (xoff => r.outbuf > Limit /\ r.grace /\ ~r.xoffSent)
    BY DEF SendsXoff
  <2>2. gr \in BOOLEAN /\ (gr => r.outbuf > Limit)
    <3>1. CASE r.outbuf <= Limit
      BY <1>1, <3>1 DEF Grace
    <3>2. CASE ~(r.outbuf <= Limit) /\ r.xoffSent
      BY <1>1, <3>2 DEF Grace
    <3>3. CASE ~(r.outbuf <= Limit) /\ ~r.xoffSent
      BY <1>1, <3>3 DEF Grace
    <3> QED BY <3>1, <3>2, <3>3
  <2> HIDE DEF xoff
  <2> QED BY <1>1, <2>1, <2>2
<1>3. x = [y EXCEPT !.sent = (IF xoff THEN <<Xoff>> ELSE <<>>) \o y.sent]
  BY DEF DecideXoff
<1>4. /\ IsReceiver(t) /\ t.outbuf = r.outbuf /\ t.unacked = r.unacked
      /\ t.grace = gr /\ t.xoffSent = xs
  <2> HIDE DEF gr, xs, ew, xoff
  <2> QED BY <1>2 DEF IsReceiver
<1> HIDE DEF gr, xoff, t, x
<1>5. /\ IsReceiver(y.rcv) /\ y.rcv.outbuf = r.outbuf /\ y.rcv.unacked = r.unacked
      /\ y.rcv.grace = gr
      /\ \/ y.sent = <<>> /\ y.rcv.xoffSent = xs
         \/ /\ \E c \in Cells : c.cmd = "xon" /\ y.sent = <<c>>
            /\ ~y.rcv.xoffSent /\ ~xs
      /\ y = [rcv |-> y.rcv, sent |-> y.sent]
  <2>1. CASE r.outbuf > Burst
    <3>1. MaySendXon(t, y)
      BY <1>4, <2>1, DecideXonIs
    <3>2. r.outbuf # 0
      BY <1>1, <2>1
    <3>3. y = [rcv |-> y.rcv, sent |-> y.sent]
      BY <2>1 DEF DecideXon
    <3> QED BY <1>4, <3>1, <3>2, <3>3 DEF MaySendXon
  <2>2. CASE ~(r.outbuf > Burst)
    <3>1. y = [rcv |-> t, sent |-> <<>>]
      BY <2>2
    <3> HIDE DEF y
    <3> QED BY <1>4, <3>1
  <2> QED BY <2>1, <2>2
<1> HIDE DEF y
<1>6. x.rcv = y.rcv /\ x.sent = (IF xoff THEN <<Xoff>> ELSE <<>>) \o y.sent
  <2> DEFINE z == (IF xoff THEN <<Xoff>> ELSE <<>>) \o y.sent
             a == y.rcv
             b == y.sent
  <2>1. y = [rcv |-> a, sent |-> b] /\ x = [y EXCEPT !.sent = z]
    BY <1>3, <1>5
  <2> HIDE DEF z, a, b
  <2>2. x.rcv = a /\ x.sent = z
    BY <2>1
  <2> QED BY <2>2 DEF z, a
<1>7. CASE xoff
  <2>1. y.sent = <<>> /\ y.rcv.xoffSent
    BY <1>2, <1>5, <1>7
  <2>2. x.sent = <<Xoff>>
    BY <1>6, <1>7, <2>1
  <2> QED BY <1>2, <1>5, <1>6, <1>7, <2>1, <2>2 DEF MaySendXoff, x
<1>8. CASE ~xoff
  <2>1. x.sent = y.sent /\ xs = r.xoffSent
    BY <1>1, <1>5, <1>6, <1>8
  <2> QED BY <1>2, <1>5, <1>6, <2>1 DEF MaySendXoff, x
<1> QED BY <1>2, <1>7, <1>8
-----------------------------------------------------------------------------
(* The cells on their way back.                                             *)

Acks(w) == Cardinality({i \in 1 .. Len(w) : w[i].cmd = "sendme"})

\* What the last XOFF or XON on its way says is what the receiver means; when
\* there is none, the sender knows.
Agree(w, told, means) ==
  /\ (\A i \in 1 .. Len(w) : w[i].cmd = "sendme") => told = means
  /\ \A i \in 1 .. Len(w) :
       /\ w[i].cmd # "sendme"
       /\ \A j \in 1 .. Len(w) : j > i => w[j].cmd = "sendme"
       => means = (w[i].cmd = "xoff")

\* There are finitely many SENDMEs on their way.
LEMMA AcksType ==
  ASSUME NEW w \in Seq(Cells)
  PROVE  /\ IsFiniteSet({i \in 1 .. Len(w) : w[i].cmd = "sendme"})
         /\ Acks(w) \in Nat
<1>1. IsFiniteSet(1 .. Len(w))
  BY FS_Interval
<1>2. {i \in 1 .. Len(w) : w[i].cmd = "sendme"} \in SUBSET (1 .. Len(w))
  OBVIOUS
<1> QED BY <1>1, <1>2, FS_Subset, FS_CardinalityType DEF Acks

\* A cell is sent back.
LEMMA OneMoreBack ==
  ASSUME NEW w \in Seq(Cells), NEW c \in Cells
  PROVE  /\ w \o <<c>> \in Seq(Cells) /\ Len(w \o <<c>>) = Len(w) + 1
         /\ \A i \in 1 .. Len(w) : (w \o <<c>>)[i] = w[i]
         /\ (w \o <<c>>)[Len(w) + 1] = c
OBVIOUS

\* A SENDME that is sent is one more, anything else none.
LEMMA AcksAppend ==
  ASSUME NEW w \in Seq(Cells), NEW c \in Cells
  PROVE  Acks(w \o <<c>>) = Acks(w) + (IF c.cmd = "sendme" THEN 1 ELSE 0)
<1> DEFINE v == w \o <<c>>
           S == {i \in 1 .. Len(w) : w[i].cmd = "sendme"}
           T == {i \in 1 .. Len(v) : v[i].cmd = "sendme"}
<1>1. /\ Len(v) = Len(w) + 1 /\ v[Len(w) + 1] = c /\ Len(w) \in Nat
      /\ \A i \in 1 .. Len(w) : v[i] = w[i]
  BY OneMoreBack
<1>2. IsFiniteSet(S) /\ Acks(w) \in Nat /\ Acks(w) = Cardinality(S)
  BY AcksType DEF Acks
<1>3. Acks(v) = Cardinality(T)
  BY DEF Acks
<1> HIDE DEF v
<1>4. CASE c.cmd = "sendme"
  <2> DEFINE z == Len(w) + 1
  <2>1. T = S \cup {z} /\ z \notin S
    BY <1>1, <1>4
  <2> HIDE DEF S, T, z
  <2>2. Cardinality(T) = Cardinality(S) + 1
    BY <1>2, <2>1, FS_AddElement
  <2> QED BY <1>2, <1>3, <1>4, <2>2 DEF v
<1>5. CASE c.cmd # "sendme"
  <2>1. T = S
    BY <1>1, <1>5
  <2> HIDE DEF S, T
  <2> QED BY <1>2, <1>3, <1>5, <2>1 DEF v
<1> QED BY <1>4, <1>5

\* A SENDME that is received is one less.
LEMMA AcksTail ==
  ASSUME NEW w \in Seq(Cells), w # <<>>
  PROVE  Acks(w) = Acks(Tail(w)) + (IF Head(w).cmd = "sendme" THEN 1 ELSE 0)
<1> DEFINE v == Tail(w)
           S == {i \in 1 .. Len(w) : w[i].cmd = "sendme"}
           T == {i \in 1 .. Len(v) : v[i].cmd = "sendme"}
           f == [i \in T |-> i + 1]
<1>1. /\ v \in Seq(Cells) /\ Len(w) \in Nat /\ Len(w) # 0 /\ Len(v) = Len(w) - 1
      /\ Head(w) = w[1]
      /\ \A i \in 1 .. Len(w) - 1 : v[i] = w[i + 1]
  OBVIOUS
<1>2. /\ IsFiniteSet(S) /\ Acks(w) = Cardinality(S)
      /\ IsFiniteSet(T) /\ Acks(v) = Cardinality(T)
      /\ Acks(w) \in Nat /\ Acks(v) \in Nat
  BY <1>1, AcksType DEF Acks
<1> HIDE DEF v
<1>3. \A j \in S \ {1} : j - 1 \in T /\ (j - 1) + 1 = j
  <2> SUFFICES ASSUME NEW j \in 1 .. Len(w), w[j].cmd = "sendme", j # 1
               PROVE  j - 1 \in T /\ (j - 1) + 1 = j
    OBVIOUS
  <2>1. j - 1 \in 1 .. Len(w) - 1 /\ (j - 1) + 1 = j
    BY <1>1
  <2>2. v[j - 1] = w[(j - 1) + 1]
    BY <1>1, <2>1
  <2> QED BY <1>1, <2>1, <2>2
<1>4. \A i \in T : i + 1 \in S \ {1} /\ i \in Nat
  BY <1>1
<1> HIDE DEF S, T
<1>5. f \in Bijection(T, S \ {1})
  <2>1. f \in [T -> S \ {1}]
    BY <1>4
  <2>2. \A a, b \in T : f[a] = f[b] => a = b
    BY <1>4
  <2>3. \A j \in S \ {1} : \E i \in T : f[i] = j
    BY <1>3
  <2> HIDE DEF f
  <2> QED BY <2>1, <2>2, <2>3, Fun_IsBij
<1>6. Cardinality(S \ {1}) = Cardinality(T)
  BY <1>2, <1>5, FS_Bijection, Fun_ExistsBij
<1>7. Cardinality(S \ {1}) = IF 1 \in S THEN Cardinality(S) - 1 ELSE Cardinality(S)
  BY <1>2, FS_RemoveElement
<1>8. 1 \in S <=> Head(w).cmd = "sendme"
  BY <1>1 DEF S
<1> QED BY <1>2, <1>6, <1>7, <1>8 DEF v

\* Agreement and a cell that is sent.
LEMMA AgreeAppend ==
  ASSUME NEW w \in Seq(Cells), NEW c \in Cells, NEW told \in BOOLEAN,
         NEW means \in BOOLEAN, Agree(w, told, means)
  PROVE  /\ c.cmd = "sendme" => Agree(w \o <<c>>, told, means)
         /\ c.cmd = "xoff" => Agree(w \o <<c>>, told, TRUE)
         /\ c.cmd = "xon" => Agree(w \o <<c>>, told, FALSE)
<1> DEFINE v == w \o <<c>>
<1>1. /\ Len(v) = Len(w) + 1 /\ v[Len(w) + 1] = c /\ Len(w) \in Nat
      /\ \A i \in 1 .. Len(w) : v[i] = w[i]
  BY OneMoreBack
<1> HIDE DEF v
<1>2. \A i \in 1 .. Len(v) : i \in 1 .. Len(w) \/ i = Len(w) + 1
  BY <1>1
<1>3. CASE c.cmd = "sendme"
  <2>1. (\A i \in 1 .. Len(v) : v[i].cmd = "sendme") => told = means
    BY <1>1 DEF Agree
  <2>2. ASSUME NEW i \in 1 .. Len(v), v[i].cmd # "sendme",
               \A j \in 1 .. Len(v) : j > i => v[j].cmd = "sendme"
        PROVE  means = (v[i].cmd = "xoff")
    <3>1. i \in 1 .. Len(w) /\ v[i] = w[i]
      BY <1>1, <1>2, <1>3, <2>2
    <3>2. \A j \in 1 .. Len(w) : j > i => w[j].cmd = "sendme"
      BY <1>1, <2>2
    <3> QED BY <2>2, <3>1, <3>2 DEF Agree
  <2>3. Agree(v, told, means)
    BY <2>1, <2>2 DEF Agree
  <2> QED BY <1>3, <2>3 DEF v
<1>4. ASSUME c.cmd # "sendme", NEW x \in BOOLEAN, x = (c.cmd = "xoff")
      PROVE  Agree(v, told, x)
  <2>1. Len(v) \in 1 .. Len(v) /\ v[Len(v)] = c
    BY <1>1
  <2>2. ASSUME NEW i \in 1 .. Len(v), v[i].cmd # "sendme",
               \A j \in 1 .. Len(v) : j > i => v[j].cmd = "sendme"
        PROVE  x = (v[i].cmd = "xoff")
    <3>1. i = Len(v)
      BY <1>1, <1>4, <2>1, <2>2
    <3> QED BY <1>4, <2>1, <3>1
  <2> QED BY <1>4, <2>1, <2>2 DEF Agree
<1>5. c.cmd = "xoff" => Agree(v, told, TRUE)
  BY <1>4
<1>6. c.cmd = "xon" => Agree(v, told, FALSE)
  BY <1>4
<1> QED BY <1>3, <1>5, <1>6 DEF v

\* Agreement and a cell that is received.
LEMMA AgreeTail ==
  ASSUME NEW w \in Seq(Cells), w # <<>>, NEW told \in BOOLEAN,
         NEW means \in BOOLEAN, Agree(w, told, means)
  PROVE  /\ Head(w).cmd = "sendme" => Agree(Tail(w), told, means)
         /\ Head(w).cmd = "xoff" => Agree(Tail(w), TRUE, means)
         /\ Head(w).cmd = "xon" => Agree(Tail(w), FALSE, means)
<1> DEFINE v == Tail(w)
<1>1. /\ v \in Seq(Cells) /\ Len(w) \in Nat /\ Len(w) # 0 /\ Len(v) = Len(w) - 1
      /\ Head(w) = w[1] /\ Head(w) \in Cells
      /\ \A i \in 1 .. Len(w) - 1 : v[i] = w[i + 1]
  OBVIOUS
<1> HIDE DEF v
<1>2. ASSUME NEW j \in 2 .. Len(w)
      PROVE  j - 1 \in 1 .. Len(v) /\ v[j - 1] = w[j]
  <2>1. j - 1 \in 1 .. Len(w) - 1 /\ (j - 1) + 1 = j
    BY <1>1
  <2>2. v[j - 1] = w[(j - 1) + 1]
    BY <1>1, <2>1
  <2> QED BY <1>1, <2>1, <2>2
<1>3. ASSUME NEW i \in 1 .. Len(v), v[i].cmd # "sendme",
             \A j \in 1 .. Len(v) : j > i => v[j].cmd = "sendme"
      PROVE  means = (v[i].cmd = "xoff")
  <2>1. i + 1 \in 1 .. Len(w) /\ w[i + 1] = v[i]
    BY <1>1
  <2>2. ASSUME NEW j \in 1 .. Len(w), j > i + 1
        PROVE  w[j].cmd = "sendme"
    <3>1. j \in 2 .. Len(w) /\ j - 1 > i
      BY <1>1, <2>2
    <3> QED BY <1>2, <1>3, <3>1
  <2> QED BY <1>3, <2>1, <2>2 DEF Agree
<1>4. ASSUME \A i \in 1 .. Len(v) : v[i].cmd = "sendme"
      PROVE  /\ \A j \in 2 .. Len(w) : w[j].cmd = "sendme"
             /\ Head(w).cmd = "sendme" => told = means
             /\ Head(w).cmd # "sendme" => means = (Head(w).cmd = "xoff")
  <2>1. \A j \in 2 .. Len(w) : w[j].cmd = "sendme"
    BY <1>2, <1>4
  <2>2. \A j \in 1 .. Len(w) : j = 1 \/ j \in 2 .. Len(w)
    BY <1>1
  <2>3. 1 \in 1 .. Len(w) /\ \A j \in 1 .. Len(w) : j > 1 => j \in 2 .. Len(w)
    BY <1>1
  <2> QED BY <1>1, <2>1, <2>2, <2>3 DEF Agree
<1>5. CASE Head(w).cmd = "sendme"
  BY <1>3, <1>4, <1>5 DEF Agree, v
<1>6. CASE Head(w).cmd = "xoff"
  BY <1>3, <1>4, <1>6 DEF Agree, v
<1>7. CASE Head(w).cmd = "xon"
  BY <1>3, <1>4, <1>7 DEF Agree, v
<1> QED BY <1>5, <1>6, <1>7
-----------------------------------------------------------------------------
(* The stream.                                                              *)

FlowTypes ==
  /\ app \in Nat /\ net \in Nat /\ calm \in BOOLEAN
  /\ SenderInv(snd) /\ IsReceiver(rcv) /\ back \in Seq(Cells)

\* No more is read than was written.
Bounded == app + snd.inbuf <= Total

\* Every cell of the window is in it, in the queue, under way or acknowledged.
Balance ==
  /\ snd.window + snd.queue + net + rcv.unacked + SendmeInc * Acks(back) = Window
  /\ rcv.unacked < SendmeInc

\* An XOFF stands while there is something to drain, and the last word is known.
Owed == rcv.xoffSent => rcv.outbuf > 0
LastWord == Agree(back, snd.xoff, rcv.xoffSent)

\* A grace period that runs on since a calm began has a buffer within the limit.
GraceIsStale == rcv.grace /\ calm => rcv.outbuf <= Limit

FlowInv == FlowTypes /\ Bounded /\ Balance /\ Owed /\ LastWord /\ GraceIsStale

\* The numbers and flags of the two ends.
LEMMA FlowFacts ==
  ASSUME FlowAssumption, FlowInv
  PROVE  /\ snd.inbuf \in Nat /\ snd.window \in Nat /\ snd.queue \in Nat
         /\ snd.xoff \in BOOLEAN /\ snd.reading \in BOOLEAN /\ snd.blocked \in BOOLEAN
         /\ IsSender(snd) /\ (snd.blocked => snd.queue > Low)
         /\ rcv.outbuf \in Nat /\ rcv.unacked \in Nat /\ rcv.xoffSent \in BOOLEAN
         /\ rcv.grace \in BOOLEAN
         /\ Acks(back) \in Nat /\ SendmeInc \in Nat /\ SendmeInc > 0
         /\ Window \in Nat /\ SendmeInc <= Window /\ Total \in Nat
         /\ Low \in Nat /\ Limit \in Nat /\ app + snd.inbuf <= Total
         /\ app \in Nat /\ net \in Nat
BY AcksType DEF FlowAssumption, FlowInv, FlowTypes, SenderInv, IsSender, IsReceiver, Bounded

\* Steps of the sender alone, which keep the balance.
LEMMA SenderKeeps ==
  ASSUME FlowAssumption, FlowInv, SenderInv(snd'), app' \in Nat,
         snd'.window + snd'.queue = snd.window + snd.queue,
         app' + snd'.inbuf <= Total, snd'.xoff = snd.xoff,
         net' = net, rcv' = rcv, back' = back, calm' = calm
  PROVE  FlowInv'
<1>1. FlowTypes' /\ Bounded' /\ Owed' /\ GraceIsStale'
  BY DEF FlowInv, FlowTypes, Bounded, Owed, GraceIsStale
<1>2. LastWord'
  BY DEF FlowInv, LastWord
<1>3. Balance'
  <2>1. snd'.window \in Nat /\ snd'.queue \in Nat
    BY DEF SenderInv, IsSender
  <2>2. snd.window \in Nat /\ snd.queue \in Nat
    BY FlowFacts
  <2>3. /\ snd.window + snd.queue + net + rcv.unacked + SendmeInc * Acks(back) = Window
        /\ rcv.unacked < SendmeInc
    BY DEF FlowInv, Balance
  <2>4. snd'.window + snd'.queue + net' + rcv'.unacked + SendmeInc * Acks(back') = Window
    BY <2>3
  <2> QED BY <2>3, <2>4 DEF Balance
<1> QED BY <1>1, <1>2, <1>3 DEF FlowInv

\* connection_handle_read_impl
LEMMA ReadKeeps ==
  ASSUME FlowAssumption, FlowInv, NEW n \in ReadSizes, NEW b \in BOOLEAN, Read(n, b)
  PROVE  FlowInv'
<1> DEFINE ib == snd.inbuf + n
           w == snd.bw \/ b
           s == [snd EXCEPT !.inbuf = ib, !.bw = w, !.reading = ~b]
           p == Package(s, Total)
<1>1. /\ snd.reading /\ n <= app /\ app' = app - n /\ snd' = p /\ n \in Nat /\ n > 0
      /\ UNCHANGED <<net, rcv, back, calm>>
  BY DEF Read, FlowAssumption
<1>2. /\ snd.inbuf = 0 /\ ~snd.xoff /\ ib \in Nat /\ w \in BOOLEAN /\ (~b) \in BOOLEAN
      /\ (b => w)
  <2>1. snd.inbuf = 0 /\ ~snd.xoff
    BY <1>1 DEF FlowInv, FlowTypes, SenderInv
  <2>2. snd.bw \in BOOLEAN
    BY DEF FlowInv, FlowTypes, SenderInv, IsSender
  <2> QED BY <1>1, <2>1, <2>2
<1>3. /\ IsSender(s) /\ s.inbuf = n /\ s.xoff = snd.xoff /\ s.window = snd.window
      /\ s.queue = snd.queue /\ s.blocked = snd.blocked /\ s.bw = w /\ s.reading = ~b
  <2>1. ib = n
    BY <1>1, <1>2
  <2>2. IsSender(snd)
    BY FlowFacts
  <2> HIDE DEF ib, w
  <2> QED BY <1>2, <2>1, <2>2 DEF IsSender
<1>4. PackagesUpTo(s, Total, p)
  <2> HIDE DEF s
  <2> QED BY <1>3, FlowFacts, PackageIs
<1>5. Total >= s.inbuf /\ Total > 0
  BY <1>1, <1>2, <1>3, FlowFacts
<1> HIDE DEF s, p, w
<1>6. /\ p.inbuf \in Nat /\ p.inbuf <= n /\ p.window + p.queue = snd.window + snd.queue
      /\ p.xoff = snd.xoff /\ p.bw = w /\ IsSender(p) /\ p.window \in Nat
  BY <1>3, <1>4 DEF PackagesUpTo, Carried, IsSender
<1>7. SenderInv(p)
  <2>1. /\ p.blocked => p.queue > Low
        /\ p.reading => s.reading
        /\ s.reading => p.reading \/ p.window = 0 \/ p.xoff \/ p.blocked
        /\ ~s.xoff /\ Total >= s.inbuf => p.inbuf = 0 \/ p.window = 0
        /\ Total > 0 /\ p.window = 0 => ~p.reading
    BY <1>4 DEF PackagesUpTo
  <2>2. p.inbuf = 0 \/ p.window = 0
    BY <1>2, <1>3, <1>5, <2>1
  <2>3. p.reading => p.inbuf = 0
    BY <1>5, <2>1, <2>2
  <2>4. p.reading \/ p.window = 0 \/ p.xoff \/ p.blocked \/ p.bw
    <3>1. CASE b
      BY <1>2, <1>6, <3>1
    <3>2. CASE ~b
      BY <1>3, <2>1, <3>2
    <3> QED BY <3>1, <3>2
  <2>5. ~p.xoff
    BY <1>2, <1>6
  <2> QED BY <1>6, <2>1, <2>2, <2>3, <2>4, <2>5 DEF SenderInv
<1>8. app' \in Nat /\ app' + p.inbuf <= Total
  BY <1>1, <1>2, <1>6, FlowFacts
<1> QED BY <1>1, <1>6, <1>7, <1>8, SenderKeeps

\* reenable_blocked_connections_cb
LEMMA ReenableKeeps ==
  ASSUME FlowAssumption, FlowInv, Reenable
  PROVE  FlowInv'
<1> DEFINE t == IF snd.xoff THEN snd ELSE StartReading(snd)
<1>1. /\ snd' = [t EXCEPT !.bw = FALSE] /\ UNCHANGED <<app, net, rcv, back, calm>>
  BY DEF Reenable
<1>2. /\ SenderInv(t) /\ Carried(snd, t)
      /\ t.reading \/ t.window = 0 \/ t.blocked \/ t.xoff
  <2>1. CASE snd.xoff
    <3>1. t = snd
      BY <2>1
    <3>2. Carried(snd, snd)
      BY FlowFacts DEF Carried
    <3>3. SenderInv(snd)
      BY DEF FlowInv, FlowTypes
    <3> HIDE DEF t
    <3> QED BY <2>1, <3>1, <3>2, <3>3
  <2>2. CASE ~snd.xoff
    <3>1. snd.inbuf <= Total
      BY FlowFacts
    <3> QED BY <2>2, <3>1, FlowFacts, StartReadingIs
  <2> QED BY <2>1, <2>2
<1> HIDE DEF t
<1>3. /\ SenderInv(snd') /\ snd'.inbuf = t.inbuf /\ snd'.window = t.window
      /\ snd'.queue = t.queue /\ snd'.xoff = t.xoff
  BY <1>1, <1>2 DEF SenderInv, IsSender
<1>4. /\ snd'.window + snd'.queue = snd.window + snd.queue
      /\ snd'.inbuf <= snd.inbuf /\ snd'.xoff = snd.xoff /\ snd'.inbuf \in Nat
  BY <1>2, <1>3 DEF Carried, SenderInv, IsSender
<1>5. app' \in Nat /\ app' + snd'.inbuf <= Total
  BY <1>1, <1>4, FlowFacts
<1> QED BY <1>1, <1>3, <1>4, <1>5, SenderKeeps

\* channel_flush_from_first_active_circuit
LEMMA FlushKeeps ==
  ASSUME FlowAssumption, FlowInv, Flush
  PROVE  FlowInv'
<1> DEFINE qu == snd.queue - 1
           s == [snd EXCEPT !.queue = qu]
           t == [s EXCEPT !.blocked = FALSE]
<1>1. /\ snd.queue > 0 /\ net' = net + 1 /\ UNCHANGED <<app, rcv, back, calm>>
      /\ snd' = IF s.blocked /\ s.queue <= Low THEN Unblocked(s) ELSE s
  BY DEF Flush
<1>2. qu \in Nat /\ SenderInv(snd)
  <2>1. snd.queue \in Nat
    BY FlowFacts
  <2>2. qu \in Nat
    BY <1>1, <2>1
  <2>3. SenderInv(snd)
    BY DEF FlowInv, FlowTypes
  <2> QED BY <2>2, <2>3
<1>3. /\ IsSender(s) /\ s.queue = qu /\ s.inbuf = snd.inbuf /\ s.reading = snd.reading
      /\ s.xoff = snd.xoff /\ s.bw = snd.bw /\ s.window = snd.window
      /\ s.blocked = snd.blocked
  <2> HIDE DEF qu
  <2> QED BY <1>2 DEF SenderInv, IsSender
<1> HIDE DEF s
<1>4. /\ IsSender(t) /\ t.queue = qu /\ t.inbuf = snd.inbuf /\ t.reading = snd.reading
      /\ t.xoff = snd.xoff /\ t.bw = snd.bw /\ t.window = snd.window
      /\ ~t.blocked
  <2> HIDE DEF qu
  <2> QED BY <1>3 DEF IsSender
<1> HIDE DEF t
<1>5. /\ SenderInv(snd') /\ snd'.window + snd'.queue = snd.window + qu
      /\ snd'.inbuf <= snd.inbuf /\ snd'.xoff = snd.xoff
  <2>0. snd.inbuf \in Nat /\ snd.window \in Nat /\ Low \in Nat
    BY FlowFacts
  <2>1. CASE ~(s.blocked /\ s.queue <= Low)
    <3>1. snd' = s
      BY <1>1, <2>1
    <3>2. SenderInv(s)
      BY <1>2, <1>3, <2>0, <2>1 DEF SenderInv
    <3> QED BY <1>3, <2>0, <3>1, <3>2
  <2>2. CASE s.blocked /\ s.queue <= Low /\ (s.xoff \/ s.reading)
    <3>1. snd' = t
      BY <1>1, <2>2 DEF Unblocked, t
    <3>2. SenderInv(t)
      BY <1>2, <1>3, <1>4, <2>0, <2>2 DEF SenderInv
    <3> QED BY <1>4, <2>0, <3>1, <3>2
  <2>3. CASE s.blocked /\ s.queue <= Low /\ ~(s.xoff \/ s.reading)
    <3>1. snd' = StartReading(t)
      BY <1>1, <2>3 DEF Unblocked, t
    <3>2. t.inbuf <= Total /\ ~t.xoff
      BY <1>3, <1>4, <2>3, FlowFacts
    <3>3. SenderInv(StartReading(t)) /\ Carried(t, StartReading(t))
      BY <1>4, <3>2, StartReadingIs
    <3> QED BY <1>4, <2>0, <3>1, <3>3 DEF Carried
  <2> QED BY <2>1, <2>2, <2>3
<1>6. FlowTypes' /\ Bounded' /\ Owed' /\ GraceIsStale'
  <2>1. snd'.inbuf \in Nat /\ app + snd'.inbuf <= Total
    BY <1>5, FlowFacts DEF SenderInv, IsSender
  <2> QED BY <1>1, <1>5, <2>1 DEF FlowInv, FlowTypes, Bounded, Owed, GraceIsStale
<1>7. LastWord'
  BY <1>1, <1>5 DEF FlowInv, LastWord
<1>8. Balance'
  <2>1. snd'.window \in Nat /\ snd'.queue \in Nat
    BY <1>5 DEF SenderInv, IsSender
  <2>2. snd.window \in Nat /\ snd.queue \in Nat /\ net \in Nat
    BY FlowFacts
  <2>3. /\ snd.window + snd.queue + net + rcv.unacked + SendmeInc * Acks(back) = Window
        /\ rcv.unacked < SendmeInc
    BY DEF FlowInv, Balance
  <2>4. snd'.window + snd'.queue + net' = snd.window + snd.queue + net
    BY <1>1, <1>5, <2>1, <2>2
  <2>5. snd'.window + snd'.queue + net' + rcv'.unacked + SendmeInc * Acks(back') = Window
    BY <1>1, <2>3, <2>4
  <2> QED BY <1>1, <2>3, <2>5 DEF Balance
<1> QED BY <1>6, <1>7, <1>8 DEF FlowInv

\* A non-empty set of numbers below a bound has a largest element.
LEMMA LastIndex ==
  ASSUME NEW S \in SUBSET Nat, S # {}, NEW b \in Nat, \A n \in S : n <= b
  PROVE  \E n \in S : \A m \in S : m <= n
<1> DEFINE T == {y \in Nat : b - y \in S}
<1>1. T \subseteq Nat /\ T # {}
  <2>1. PICK n \in S : TRUE
    OBVIOUS
  <2>2. b - n \in T
    BY <2>1
  <2> QED BY <2>2
<1>2. PICK x \in T : \A y \in T : ~(<<y, x>> \in OpToRel(<, Nat))
  <2> HIDE DEF T
  <2> QED BY <1>1, NatLessThanWellFounded, WFMin
<1>3. \A y \in T : ~(y < x)
  BY <1>1, <1>2 DEF OpToRel
<1>4. b - x \in S
  OBVIOUS
<1>5. \A m \in S : b - m \in T
  OBVIOUS
<1>6. \A m \in S : m <= b - x
  BY <1>3, <1>5
<1> QED BY <1>4, <1>6

\* A product with one more factor.
LEMMA OneMoreAck ==
  ASSUME NEW a \in Nat, NEW k \in Nat
  PROVE  a * (k + 1) = a * k + a /\ a * k \in Nat
OBVIOUS

\* The receiver answers a cell or a write with at most one XOFF or XON.
LEMMA AnswerKeeps ==
  ASSUME FlowAssumption, FlowInv, NEW w \in Seq(Cells), NEW ans,
         NEW now \in BOOLEAN, Agree(w, snd.xoff, rcv.xoffSent),
         \/ ans = <<>> /\ now = rcv.xoffSent
         \/ ans = <<Xoff>> /\ now
         \/ ~now /\ \E c \in Cells : c.cmd = "xon" /\ ans = <<c>>
  PROVE  /\ w \o ans \in Seq(Cells) /\ Agree(w \o ans, snd.xoff, now)
         /\ Acks(w \o ans) = Acks(w)
<1>0. snd.xoff \in BOOLEAN /\ rcv.xoffSent \in BOOLEAN
  BY FlowFacts
<1>1. Acks(w) \in Nat
  BY AcksType
<1>2. CASE ans = <<>> /\ now = rcv.xoffSent
  <2>1. w \o ans = w
    BY <1>2
  <2> QED BY <1>2, <2>1
<1>3. CASE ans = <<Xoff>> /\ now
  <2>1. Xoff \in Cells /\ Xoff.cmd = "xoff" /\ now = TRUE
    BY <1>3 DEF Xoff, Cells
  <2>2. Agree(w \o <<Xoff>>, snd.xoff, TRUE)
    BY <1>0, <2>1, AgreeAppend
  <2>3. Acks(w \o <<Xoff>>) = Acks(w) + (IF Xoff.cmd = "sendme" THEN 1 ELSE 0)
    BY <2>1, AcksAppend
  <2>4. Acks(w \o <<Xoff>>) = Acks(w)
    BY <1>1, <2>1, <2>3
  <2>5. w \o <<Xoff>> \in Seq(Cells)
    BY <2>1, OneMoreBack
  <2> QED BY <1>3, <2>1, <2>2, <2>4, <2>5
<1>4. CASE ~now /\ \E c \in Cells : c.cmd = "xon" /\ ans = <<c>>
  <2>1. PICK c \in Cells : c.cmd = "xon" /\ ans = <<c>>
    BY <1>4
  <2>2. Agree(w \o <<c>>, snd.xoff, FALSE)
    BY <1>0, <2>1, AgreeAppend
  <2>3. Acks(w \o <<c>>) = Acks(w) + (IF c.cmd = "sendme" THEN 1 ELSE 0)
    BY AcksAppend
  <2>4. Acks(w \o <<c>>) = Acks(w)
    BY <1>1, <2>1, <2>3
  <2>5. w \o <<c>> \in Seq(Cells)
    BY OneMoreBack
  <2>6. now = FALSE
    BY <1>4
  <2> QED BY <2>1, <2>2, <2>4, <2>5, <2>6
<1> QED BY <1>2, <1>3, <1>4

\* A DATA cell reaches the other edge.
LEMMA DeliverKeeps ==
  ASSUME FlowAssumption, FlowInv, NEW elapsed \in BOOLEAN, NEW rate \in Rates,
         Deliver(elapsed, rate)
  PROVE  FlowInv' /\ XoffWaits
<1> DEFINE due == rcv.unacked + 1 = SendmeInc
           x == DecideXoff(rcv, elapsed, rate)
           ob == x.rcv.outbuf + 1
           un == IF due THEN 0 ELSE x.rcv.unacked + 1
           w == back \o (IF due THEN <<SendmeCell>> ELSE <<>>)
<1>1. /\ net > 0 /\ net' = net - 1 /\ UNCHANGED <<app, snd>>
      /\ rcv' = [x.rcv EXCEPT !.outbuf = ob, !.unacked = un]
      /\ back' = w \o x.sent
      /\ calm' = IF x.rcv.grace /\ ~rcv.grace THEN FALSE ELSE calm
  BY DEF Deliver
<1>2. IsReceiver(rcv) /\ back \in Seq(Cells) /\ calm \in BOOLEAN /\ rate \in Nat
  BY DEF FlowInv, FlowTypes, FlowAssumption
<1>3. MaySendXoff(rcv, x)
  BY <1>2, DecideXoffIs
<1> HIDE DEF x
<1>4. /\ IsReceiver(x.rcv) /\ x.rcv.outbuf = rcv.outbuf /\ x.rcv.unacked = rcv.unacked
      /\ x.rcv.grace => rcv.outbuf > Limit
      /\ x.rcv.xoffSent \in BOOLEAN /\ x.rcv.grace \in BOOLEAN
      /\ \/ x.sent = <<>> /\ x.rcv.xoffSent = rcv.xoffSent
         \/ x.sent = <<Xoff>> /\ x.rcv.xoffSent
         \/ ~x.rcv.xoffSent /\ \E c \in Cells : c.cmd = "xon" /\ x.sent = <<c>>
      /\ x.rcv.xoffSent /\ ~rcv.xoffSent => rcv.grace /\ rcv.outbuf > Limit
  BY <1>3 DEF MaySendXoff, IsReceiver
<1>5. ob = rcv.outbuf + 1 /\ un = (IF due THEN 0 ELSE rcv.unacked + 1)
      /\ ob \in Nat /\ un \in Nat /\ un < SendmeInc
  <2>1. rcv.unacked \in Nat /\ rcv.outbuf \in Nat /\ SendmeInc \in Nat /\ SendmeInc > 0
        /\ rcv.unacked < SendmeInc
    BY FlowFacts DEF FlowInv, Balance
  <2> QED BY <1>4, <2>1
<1>6. /\ IsReceiver(rcv') /\ rcv'.outbuf = ob /\ rcv'.unacked = un
      /\ rcv'.xoffSent = x.rcv.xoffSent /\ rcv'.grace = x.rcv.grace
  <2> HIDE DEF ob, un
  <2> QED BY <1>1, <1>4, <1>5 DEF IsReceiver
<1>7. /\ w \in Seq(Cells) /\ Agree(w, snd.xoff, rcv.xoffSent)
      /\ Acks(w) = Acks(back) + (IF due THEN 1 ELSE 0)
  <2>0. Agree(back, snd.xoff, rcv.xoffSent) /\ Acks(back) \in Nat
        /\ snd.xoff \in BOOLEAN /\ rcv.xoffSent \in BOOLEAN
    BY FlowFacts DEF FlowInv, LastWord
  <2>1. CASE due
    <3>1. SendmeCell \in Cells /\ SendmeCell.cmd = "sendme" /\ w = back \o <<SendmeCell>>
      BY <2>1 DEF SendmeCell, Cells
    <3>2. w \in Seq(Cells)
      BY <1>2, <3>1, OneMoreBack
    <3>3. Agree(w, snd.xoff, rcv.xoffSent)
      BY <1>2, <2>0, <3>1, AgreeAppend
    <3>4. Acks(w) = Acks(back) + (IF SendmeCell.cmd = "sendme" THEN 1 ELSE 0)
      BY <1>2, <3>1, AcksAppend
    <3> QED BY <2>1, <3>1, <3>2, <3>3, <3>4
  <2>2. CASE ~due
    <3>1. w = back
      BY <1>2, <2>2
    <3> QED BY <1>2, <2>0, <2>2, <3>1
  <2> QED BY <2>1, <2>2
<1> HIDE DEF w
<1>8. /\ back' \in Seq(Cells) /\ Agree(back', snd.xoff, x.rcv.xoffSent)
      /\ Acks(back') = Acks(w)
  BY <1>1, <1>4, <1>7, AnswerKeeps
<1>9. Balance'
  <2>0. net \in Nat /\ Acks(back) \in Nat /\ SendmeInc \in Nat /\ snd.window \in Nat
        /\ snd.queue \in Nat /\ rcv.unacked \in Nat /\ Window \in Nat
    BY FlowFacts
  <2>1. snd.window + snd.queue + net + rcv.unacked + SendmeInc * Acks(back) = Window
    BY DEF FlowInv, Balance
  <2>2. SendmeInc * (Acks(back) + 1) = SendmeInc * Acks(back) + SendmeInc
        /\ SendmeInc * Acks(back) \in Nat
    BY <2>0, OneMoreAck
  <2>3. snd.window + snd.queue + (net - 1) + un + SendmeInc * Acks(back') = Window
    <3>1. CASE due
      <4>1. Acks(back') = Acks(back) + 1 /\ un = 0
        BY <1>5, <1>7, <1>8, <3>1
      <4>2. SendmeInc * Acks(back') = SendmeInc * Acks(back) + SendmeInc
        BY <2>2, <4>1
      <4> DEFINE p == SendmeInc * Acks(back)
                 q == SendmeInc * Acks(back')
      <4>3. q = p + SendmeInc /\ p \in Nat /\ un = 0 /\ rcv.unacked + 1 = SendmeInc
            /\ snd.window + snd.queue + net + rcv.unacked + p = Window
        BY <2>1, <2>2, <3>1, <4>1, <4>2
      <4> HIDE DEF un, p, q
      <4>4. snd.window + snd.queue + (net - 1) + un + q = Window
        BY <2>0, <4>3
      <4> QED BY <4>4 DEF q
    <3>2. CASE ~due
      <4>1. Acks(back') = Acks(back) /\ un = rcv.unacked + 1
        BY <1>5, <1>7, <1>8, <2>0, <3>2
      <4> DEFINE p == SendmeInc * Acks(back)
      <4>2. p \in Nat /\ snd.window + snd.queue + net + rcv.unacked + p = Window
            /\ un = rcv.unacked + 1
        BY <2>1, <2>2, <4>1
      <4> HIDE DEF un, p
      <4>3. snd.window + snd.queue + (net - 1) + un + p = Window
        BY <2>0, <4>2
      <4> QED BY <4>1, <4>3 DEF p
    <3> QED BY <3>1, <3>2
  <2> HIDE DEF un
  <2> QED BY <1>1, <1>5, <1>6, <2>3 DEF Balance
<1>10. FlowTypes' /\ Bounded'
  <2>1. net' \in Nat /\ calm' \in BOOLEAN
    <3>1. net \in Nat
      BY FlowFacts
    <3>2. net' \in Nat
      BY <1>1, <3>1
    <3>3. calm' \in {FALSE, calm}
      BY <1>1
    <3> QED BY <1>2, <3>2, <3>3
  <2> QED BY <1>1, <1>6, <1>8, <2>1 DEF FlowInv, FlowTypes, Bounded
<1>11. Owed' /\ LastWord'
  <2>1. rcv'.outbuf > 0
    BY <1>5, <1>6, FlowFacts
  <2>2. snd' = snd /\ rcv'.xoffSent = x.rcv.xoffSent
    BY <1>1, <1>6
  <2> QED BY <1>8, <2>1, <2>2 DEF Owed, LastWord
<1>12. calm /\ rcv.grace => rcv.outbuf <= Limit
  BY DEF FlowInv, GraceIsStale
<1>13. rcv.outbuf \in Nat /\ Limit \in Nat /\ rcv.grace \in BOOLEAN
  BY FlowFacts
<1>14. GraceIsStale'
  <2>1. ~(rcv'.grace /\ calm')
    BY <1>1, <1>2, <1>4, <1>6, <1>12, <1>13
  <2> QED BY <2>1 DEF GraceIsStale
<1>15. XoffWaits
  <2>1. ASSUME rcv'.xoffSent, ~rcv.xoffSent
        PROVE  ~calm
    BY <1>2, <1>4, <1>6, <1>12, <1>13, <2>1
  <2> QED BY <2>1 DEF XoffWaits
<1> QED BY <1>9, <1>10, <1>11, <1>14, <1>15 DEF FlowInv

\* connection_handle_write_impl on the receiving edge
LEMMA WriteKeeps ==
  ASSUME FlowAssumption, FlowInv, NEW n \in WriteSizes, NEW rate \in Rates,
         Write(n, rate)
  PROVE  FlowInv' /\ XoffWaits
<1> DEFINE ob == rcv.outbuf - n
           r == [rcv EXCEPT !.outbuf = ob]
           x == DecideXon(r, n, rate)
<1>1. /\ n <= rcv.outbuf /\ rcv' = x.rcv /\ back' = back \o x.sent
      /\ calm' = (calm \/ x.rcv.outbuf <= Limit) /\ UNCHANGED <<app, snd, net>>
  BY DEF Write
<1>2. /\ IsReceiver(rcv) /\ back \in Seq(Cells) /\ calm \in BOOLEAN /\ rate \in Nat
      /\ n \in Nat
  BY DEF FlowInv, FlowTypes, FlowAssumption
<1>3. ob \in Nat /\ ob <= rcv.outbuf
  <2>1. rcv.outbuf \in Nat
    BY FlowFacts
  <2> QED BY <1>1, <1>2, <2>1
<1>4. /\ IsReceiver(r) /\ r.outbuf = ob /\ r.unacked = rcv.unacked
      /\ r.grace = rcv.grace /\ r.xoffSent = rcv.xoffSent
  <2> HIDE DEF ob
  <2> QED BY <1>2, <1>3 DEF IsReceiver
<1> HIDE DEF r
<1>5. MaySendXon(r, x)
  BY <1>2, <1>4, DecideXonIs
<1> HIDE DEF x
<1>6. /\ IsReceiver(rcv') /\ rcv'.outbuf = ob /\ rcv'.unacked = rcv.unacked
      /\ rcv'.grace = rcv.grace /\ rcv'.xoffSent \in BOOLEAN
      /\ \/ x.sent = <<>> /\ rcv'.xoffSent = rcv.xoffSent
         \/ ~rcv'.xoffSent /\ \E c \in Cells : c.cmd = "xon" /\ x.sent = <<c>>
      /\ rcv'.xoffSent => rcv.xoffSent /\ rcv'.outbuf # 0
  BY <1>1, <1>4, <1>5 DEF MaySendXon, IsReceiver
<1>7. /\ back' \in Seq(Cells) /\ Agree(back', snd.xoff, rcv'.xoffSent)
      /\ Acks(back') = Acks(back)
  <2>1. Agree(back, snd.xoff, rcv.xoffSent)
    BY DEF FlowInv, LastWord
  <2> QED BY <1>1, <1>2, <1>6, <2>1, AnswerKeeps
<1>8. Balance' /\ LastWord'
  BY <1>1, <1>6, <1>7 DEF FlowInv, Balance, LastWord
<1>9. FlowTypes' /\ Bounded'
  <2>1. calm' \in BOOLEAN
    BY <1>1, <1>2
  <2> QED BY <1>1, <1>6, <1>7, <2>1 DEF FlowInv, FlowTypes, Bounded
<1>10. Owed' /\ XoffWaits
  BY <1>3, <1>6 DEF Owed, XoffWaits
<1>11. GraceIsStale'
  <2>1. rcv.outbuf \in Nat /\ Limit \in Nat
    BY FlowFacts
  <2>2. x.rcv.outbuf = ob
    BY <1>1, <1>6
  <2>3. calm /\ rcv.grace => rcv.outbuf <= Limit
    BY DEF FlowInv, GraceIsStale
  <2>4. ob \in Nat /\ ob <= rcv.outbuf
    BY <1>3
  <2>5. rcv'.outbuf = ob /\ rcv'.grace = rcv.grace
    BY <1>6
  <2> HIDE DEF ob
  <2>6. CASE ob <= Limit
    BY <2>5, <2>6 DEF GraceIsStale
  <2>7. CASE ~(ob <= Limit)
    <3>1. ~(rcv.outbuf <= Limit)
      BY <2>1, <2>4, <2>7
    <3>2. calm' = calm
      BY <1>1, <1>2, <2>2, <2>7
    <3> QED BY <2>3, <2>5, <3>1, <3>2 DEF GraceIsStale
  <2> QED BY <2>6, <2>7
<1> QED BY <1>8, <1>9, <1>10, <1>11 DEF FlowInv

\* A cell reaches the sending edge.
LEMMA GetBackKeeps ==
  ASSUME FlowAssumption, FlowInv, GetBack
  PROVE  FlowInv'
<1>1. /\ back # <<>> /\ back' = Tail(back) /\ UNCHANGED <<app, net, rcv, calm>>
      /\ back \in Seq(Cells) /\ Head(back) \in Cells /\ Tail(back) \in Seq(Cells)
  BY DEF GetBack, FlowInv, FlowTypes
<1>2. /\ Agree(back, snd.xoff, rcv.xoffSent) /\ snd.xoff \in BOOLEAN
      /\ rcv.xoffSent \in BOOLEAN /\ SenderInv(snd) /\ IsSender(snd)
      /\ snd.inbuf <= Total
  BY FlowFacts DEF FlowInv, LastWord, FlowTypes
<1>3. ASSUME SenderInv(snd'), snd'.inbuf <= snd.inbuf,
             Agree(Tail(back), snd'.xoff, rcv.xoffSent),
             snd'.window + snd'.queue
               = snd.window + snd.queue
                 + (IF Head(back).cmd = "sendme" THEN SendmeInc ELSE 0)
      PROVE  FlowInv'
  <2>1. FlowTypes' /\ Bounded' /\ Owed' /\ GraceIsStale' /\ LastWord'
    <3>1. snd'.inbuf \in Nat /\ app + snd'.inbuf <= Total
      BY <1>3, FlowFacts DEF SenderInv, IsSender
    <3> QED BY <1>1, <1>3, <3>1
         DEF FlowInv, FlowTypes, Bounded, Owed, GraceIsStale, LastWord
  <2>2. Balance'
    <3>0. net \in Nat /\ Acks(back) \in Nat /\ SendmeInc \in Nat /\ snd.window \in Nat
          /\ snd.queue \in Nat /\ rcv.unacked \in Nat /\ Window \in Nat
          /\ snd'.window \in Nat /\ snd'.queue \in Nat
      BY <1>3, FlowFacts DEF SenderInv, IsSender
    <3>1. /\ snd.window + snd.queue + net + rcv.unacked + SendmeInc * Acks(back) = Window
          /\ rcv.unacked < SendmeInc
      BY DEF FlowInv, Balance
    <3>2. Acks(Tail(back)) \in Nat
      BY <1>1, AcksType
    <3>3. Acks(back) = Acks(Tail(back)) + (IF Head(back).cmd = "sendme" THEN 1 ELSE 0)
      BY <1>1, AcksTail
    <3>4. SendmeInc * (Acks(Tail(back)) + 1) = SendmeInc * Acks(Tail(back)) + SendmeInc
          /\ SendmeInc * Acks(Tail(back)) \in Nat
      BY <3>0, <3>2, OneMoreAck
    <3>5. SendmeInc * Acks(back) = SendmeInc * Acks(Tail(back))
            + (IF Head(back).cmd = "sendme" THEN SendmeInc ELSE 0)
      <4>1. CASE Head(back).cmd = "sendme"
        BY <3>3, <3>4, <4>1
      <4>2. CASE Head(back).cmd # "sendme"
        <5>1. Acks(back) = Acks(Tail(back))
          BY <3>2, <3>3, <4>2
        <5> QED BY <3>4, <4>2, <5>1
      <4> QED BY <4>1, <4>2
    <3>6. snd'.window + snd'.queue + net + rcv.unacked + SendmeInc * Acks(Tail(back)) = Window
      BY <1>3, <3>0, <3>1, <3>4, <3>5
    <3> QED BY <1>1, <3>1, <3>6 DEF Balance
  <2> QED BY <2>1, <2>2 DEF FlowInv
<1>4. CASE Head(back).cmd = "sendme"
  <2> DEFINE v == [snd EXCEPT !.window = @ + SendmeInc]
  <2>1. snd' = Resumed(v)
    BY <1>4 DEF GetBack, GetSendme
  <2>2. SenderInv(Resumed(v)) /\ Carried(v, Resumed(v))
    BY <1>2, ResumedIs
  <2>3. v.window = snd.window + SendmeInc /\ v.queue = snd.queue /\ v.inbuf = snd.inbuf
        /\ v.xoff = snd.xoff
    BY <1>2 DEF IsSender
  <2> HIDE DEF v
  <2>4. /\ SenderInv(snd') /\ snd'.inbuf <= snd.inbuf /\ snd'.xoff = snd.xoff
        /\ snd'.window + snd'.queue = (snd.window + SendmeInc) + snd.queue
    BY <2>1, <2>2, <2>3 DEF Carried
  <2>5. Agree(Tail(back), snd'.xoff, rcv.xoffSent)
    BY <1>1, <1>2, <1>4, <2>4, AgreeTail
  <2>6. snd'.window + snd'.queue = snd.window + snd.queue + SendmeInc
    BY <2>4, FlowFacts
  <2> QED BY <1>3, <1>4, <2>4, <2>5, <2>6
<1>5. ASSUME NEW s, s \in {Halved(snd), snd}
      PROVE  /\ IsSender(s) /\ s.inbuf = snd.inbuf /\ s.reading = snd.reading
             /\ s.xoff = snd.xoff /\ s.bw = snd.bw /\ s.window = snd.window
             /\ s.queue = snd.queue /\ s.blocked = snd.blocked
  <2> DEFINE a == snd.xmit \div 2
             b == snd.xoffs \div 2
             c == snd.xons \div 2
             h == [snd EXCEPT !.xmit = a, !.xoffs = b, !.xons = c]
  <2>1. Halved(snd) = h
    BY DEF Halved
  <2>2. /\ IsSender(h) /\ h.inbuf = snd.inbuf /\ h.reading = snd.reading
        /\ h.xoff = snd.xoff /\ h.bw = snd.bw /\ h.window = snd.window
        /\ h.queue = snd.queue /\ h.blocked = snd.blocked
    <3> HIDE DEF a, b, c
    <3> QED BY <1>2 DEF IsSender
  <2> HIDE DEF h
  <2> QED BY <1>2, <1>5, <2>1, <2>2
<1>6. CASE Head(back).cmd = "xoff"
  <2> DEFINE r == Scaled(snd, snd.xoffs)
             k == r.xoffs + 1
             s == [r EXCEPT !.xoffs = k]
  <2>1. /\ snd.xoff => snd' = snd
        /\ ~snd.xoff => snd' = [Stopped(s) EXCEPT !.xoff = TRUE]
    BY <1>6 DEF GetBack, GetXoff
  <2>2. r \in {Halved(snd), snd}
    BY DEF Scaled
  <2> HIDE DEF r
  <2>3. /\ IsSender(r) /\ r.inbuf = snd.inbuf /\ r.reading = snd.reading
        /\ r.xoff = snd.xoff /\ r.bw = snd.bw /\ r.window = snd.window
        /\ r.queue = snd.queue /\ r.blocked = snd.blocked
    BY <1>5, <2>2
  <2>4. /\ IsSender(s) /\ s.inbuf = snd.inbuf
        /\ s.bw = snd.bw /\ s.window = snd.window
        /\ s.queue = snd.queue /\ s.blocked = snd.blocked
    <3> HIDE DEF k
    <3> QED BY <2>3 DEF IsSender
  <2> HIDE DEF s
  <2>5. /\ SenderInv(snd') /\ snd'.inbuf = snd.inbuf /\ snd'.window = snd.window
        /\ snd'.queue = snd.queue /\ snd'.xoff = TRUE
    <3>1. CASE snd.xoff
      BY <1>2, <2>1, <3>1
    <3>2. CASE ~snd.xoff
      <4>1. snd' = [[s EXCEPT !.reading = FALSE] EXCEPT !.xoff = TRUE]
        BY <2>1, <3>2 DEF Stopped
      <4>2. /\ IsSender(snd') /\ snd'.inbuf = s.inbuf /\ snd'.window = s.window
            /\ snd'.queue = s.queue /\ snd'.xoff = TRUE /\ snd'.reading = FALSE
            /\ snd'.blocked = s.blocked
        BY <2>4, <4>1 DEF IsSender
      <4> QED BY <1>2, <2>4, <4>2 DEF SenderInv
    <3> QED BY <3>1, <3>2
  <2>6. Agree(Tail(back), snd'.xoff, rcv.xoffSent)
    BY <1>1, <1>2, <1>6, <2>5, AgreeTail
  <2>7. snd'.inbuf <= snd.inbuf /\ snd'.window + snd'.queue = snd.window + snd.queue + 0
    BY <2>5, FlowFacts
  <2> QED BY <1>3, <1>6, <2>5, <2>6, <2>7
<1>7. CASE Head(back).cmd = "xon"
  <2> DEFINE r == Scaled(snd, snd.xons)
             k == r.xons + 1
             s == [r EXCEPT !.xons = k]
             t == [s EXCEPT !.xoff = FALSE]
  <2>1. snd' = IF s.xoff THEN StartReading(t) ELSE s
    BY <1>7 DEF GetBack, GetXon
  <2>2. r \in {Halved(snd), snd}
    BY DEF Scaled
  <2> HIDE DEF r
  <2>3. /\ IsSender(r) /\ r.inbuf = snd.inbuf /\ r.reading = snd.reading
        /\ r.xoff = snd.xoff /\ r.bw = snd.bw /\ r.window = snd.window
        /\ r.queue = snd.queue /\ r.blocked = snd.blocked
    BY <1>5, <2>2
  <2>4. /\ IsSender(s) /\ s.inbuf = snd.inbuf /\ s.reading = snd.reading
        /\ s.xoff = snd.xoff /\ s.bw = snd.bw /\ s.window = snd.window
        /\ s.queue = snd.queue /\ s.blocked = snd.blocked
    <3> HIDE DEF k
    <3> QED BY <2>3 DEF IsSender
  <2> HIDE DEF s
  <2>5. /\ IsSender(t) /\ t.inbuf = snd.inbuf /\ ~t.xoff /\ t.window = snd.window
        /\ t.queue = snd.queue /\ t.blocked = snd.blocked
    BY <2>4 DEF IsSender
  <2> HIDE DEF t
  <2>6. /\ SenderInv(snd') /\ snd'.inbuf <= snd.inbuf /\ snd'.xoff = FALSE
        /\ snd'.window + snd'.queue = snd.window + snd.queue + 0
    <3>0. snd.inbuf \in Nat /\ snd.window \in Nat /\ snd.queue \in Nat
      BY FlowFacts
    <3>1. CASE s.xoff
      <4>1. t.inbuf <= Total /\ (t.blocked => t.queue > Low)
        BY <1>2, <2>5, FlowFacts
      <4>2. SenderInv(StartReading(t)) /\ Carried(t, StartReading(t))
        BY <2>5, <4>1, StartReadingIs
      <4> QED BY <2>1, <2>5, <3>0, <3>1, <4>2 DEF Carried
    <3>2. CASE ~s.xoff
      <4>1. snd' = s /\ snd.xoff = FALSE
        BY <1>2, <2>1, <2>4, <3>2
      <4> QED BY <1>2, <2>4, <3>0, <4>1 DEF SenderInv
    <3> QED BY <3>1, <3>2
  <2>7. Agree(Tail(back), snd'.xoff, rcv.xoffSent)
    BY <1>1, <1>2, <1>7, <2>6, AgreeTail
  <2> QED BY <1>3, <1>7, <2>6, <2>7
<1> QED BY <1>1, <1>4, <1>5, <1>6, <1>7 DEF Cells

\* A stream starts with empty buffers, a full window and no XOFF.
LEMMA FlowInitially ==
  ASSUME FlowAssumption, FlowInit
  PROVE  FlowInv
<1>1. back = <<>> /\ back \in Seq(Cells) /\ Len(back) = 0
  BY DEF FlowInit
<1>2. SenderInv(snd) /\ snd.inbuf = 0 /\ snd.window = Window /\ snd.queue = 0
      /\ snd.xoff = FALSE
  BY DEF FlowInit, FlowAssumption, SenderInv, IsSender
<1>3. IsReceiver(rcv) /\ rcv.outbuf = 0 /\ rcv.unacked = 0 /\ rcv.xoffSent = FALSE
      /\ rcv.grace = FALSE
  BY DEF FlowInit, IsReceiver
<1>4. FlowTypes /\ Bounded /\ Owed /\ GraceIsStale
  BY <1>1, <1>2, <1>3
     DEF FlowInit, FlowAssumption, FlowTypes, Bounded, Owed, GraceIsStale
<1>5. LastWord
  <2>1. Len(back) = 0 /\ 1 .. Len(back) = {}
    BY <1>1
  <2> QED BY <1>2, <1>3, <2>1 DEF LastWord, Agree
<1>6. Balance
  <2>1. {i \in 1 .. Len(back) : back[i].cmd = "sendme"} = {}
    BY <1>1
  <2>2. Acks(back) = 0
    BY <2>1, FS_EmptySet DEF Acks
  <2>3. SendmeInc \in Nat /\ Window \in Nat /\ SendmeInc > 0 /\ net = 0
    BY DEF FlowAssumption, FlowInit
  <2> QED BY <1>2, <1>3, <2>2, <2>3 DEF Balance
<1> QED BY <1>4, <1>5, <1>6 DEF FlowInv

\* A step keeps the invariant, and an XOFF comes after a grace period.
LEMMA FlowStep ==
  ASSUME FlowAssumption, FlowInv, [FlowNext]_flowVars
  PROVE  FlowInv' /\ XoffWaits
<1>1. CASE \/ \E n \in ReadSizes, b \in BOOLEAN : Read(n, b)
           \/ Reenable \/ Flush \/ GetBack
  <2>1. FlowInv'
    BY <1>1, ReadKeeps, ReenableKeeps, FlushKeeps, GetBackKeeps
  <2>2. rcv' = rcv
    BY <1>1 DEF Read, Reenable, Flush, GetBack
  <2> QED BY <2>1, <2>2 DEF XoffWaits
<1>2. CASE \/ \E b \in BOOLEAN, r \in Rates : Deliver(b, r)
           \/ \E n \in WriteSizes, r \in Rates : Write(n, r)
  BY <1>2, DeliverKeeps, WriteKeeps
<1>3. CASE UNCHANGED flowVars
  <2>1. FlowInv'
    BY <1>3 DEF flowVars, FlowInv, FlowTypes, Bounded, Balance, Owed, LastWord,
       GraceIsStale
  <2>2. rcv' = rcv
    BY <1>3 DEF flowVars
  <2> QED BY <2>1, <2>2 DEF XoffWaits
<1> QED BY <1>1, <1>2, <1>3 DEF FlowNext

\* The invariant has a cause for every pause, and an end for every cause.
LEMMA FlowSuffices ==
  ASSUME FlowAssumption, FlowInv
  PROVE  PausesEnd
<1>1. SenderInv(snd)
  BY DEF FlowInv, FlowTypes
<1>2. snd.window <= 0 => snd.queue + net > 0 \/ OnItsWay("sendme")
  <2> SUFFICES ASSUME snd.window <= 0, ~(snd.queue + net > 0), ~OnItsWay("sendme")
               PROVE  FALSE
    OBVIOUS
  <2>0. snd.window = 0 /\ snd.queue = 0 /\ net = 0
    BY FlowFacts
  <2>1. {i \in 1 .. Len(back) : back[i].cmd = "sendme"} = {}
    BY DEF OnItsWay, FlowInv, FlowTypes
  <2>2. Acks(back) = 0
    BY <2>1, FS_EmptySet DEF Acks
  <2>3. snd.window + snd.queue + net + rcv.unacked + SendmeInc * Acks(back) = Window
        /\ rcv.unacked < SendmeInc
    BY DEF FlowInv, Balance
  <2> QED BY <2>0, <2>2, <2>3, FlowFacts
<1>3. snd.xoff => (rcv.xoffSent /\ rcv.outbuf > 0) \/ OnItsWay("xon")
  <2> SUFFICES ASSUME snd.xoff, ~OnItsWay("xon")
               PROVE  rcv.xoffSent /\ rcv.outbuf > 0
    OBVIOUS
  <2>1. back \in Seq(Cells) /\ Agree(back, snd.xoff, rcv.xoffSent)
    BY DEF FlowInv, FlowTypes, LastWord
  <2>2. \A i \in 1 .. Len(back) : back[i].cmd \in {"sendme", "xoff"}
    <3>1. DOMAIN back = 1 .. Len(back)
      BY <2>1
    <3>2. \A i \in 1 .. Len(back) : back[i].cmd # "xon"
      BY <3>1 DEF OnItsWay
    <3>3. \A i \in 1 .. Len(back) : back[i].cmd \in {"sendme", "xoff", "xon"}
      <4>1. \A i \in 1 .. Len(back) : back[i] \in Cells
        BY <2>1, ElementOfSeq
      <4> QED BY <4>1 DEF Cells
    <3> QED BY <3>2, <3>3
  <2>3. CASE \A i \in 1 .. Len(back) : back[i].cmd = "sendme"
    BY <2>1, <2>3 DEF Agree, FlowInv, Owed
  <2>4. CASE \E i \in 1 .. Len(back) : back[i].cmd # "sendme"
    <3> DEFINE T == {i \in 1 .. Len(back) : back[i].cmd # "sendme"}
    <3>1. T # {} /\ T \subseteq Nat /\ Len(back) \in Nat /\ \A j \in T : j <= Len(back)
      BY <2>1, <2>4
    <3>2. PICK i \in T : \A j \in T : j <= i
      <4> HIDE DEF T
      <4> QED BY <3>1, LastIndex
    <3>3. rcv.xoffSent = (back[i].cmd = "xoff")
      BY <2>1, <3>2 DEF Agree
    <3> QED BY <2>2, <3>2, <3>3 DEF FlowInv, Owed
  <2> QED BY <2>3, <2>4
<1>4. PausedForCause
  <2>1. /\ snd.inbuf > 0 => snd.window <= 0 \/ snd.xoff \/ snd.blocked
        /\ snd.reading \/ snd.window <= 0 \/ snd.xoff \/ snd.blocked \/ snd.bw
        /\ snd.blocked => snd.queue > Low
    BY <1>1 DEF SenderInv
  <2> QED BY <1>2, <1>3, <2>1 DEF PausedForCause
<1>5. Done \/ CanMove
  <2> SUFFICES ASSUME ~CanMove
               PROVE  Done
    OBVIOUS
  <2>1. /\ snd.queue = 0 /\ net = 0 /\ rcv.outbuf = 0 /\ back = <<>> /\ ~snd.bw
        /\ ~(snd.reading /\ app > 0)
    BY FlowFacts DEF CanMove
  <2>2. ~OnItsWay("sendme") /\ ~OnItsWay("xon")
    BY <2>1 DEF OnItsWay
  <2>3. ~(snd.window <= 0) /\ ~snd.xoff /\ ~snd.blocked
    BY <1>4, <2>1, <2>2, FlowFacts DEF PausedForCause
  <2>4. snd.inbuf = 0 /\ app = 0
    BY <1>4, <2>1, <2>3, FlowFacts DEF PausedForCause
  <2> QED BY <2>1, <2>4 DEF Done
<1> QED BY <1>4, <1>5 DEF PausesEnd

\* A stream's pauses end (congestion_control_flow.c, relay.c): whatever the
\* window, the queue's marks, the XOFF limit, the rates and the amount of data,
\* an edge is paused only for a cause, every cause has something under way that
\* ends it, and a transfer at rest has delivered everything.
THEOREM PausesAlwaysEnd ==
  ASSUME FlowAssumption
  PROVE  FlowSpec => []PausesEnd
<1>1. FlowInit => FlowInv
  BY FlowInitially
<1>2. FlowInv /\ [FlowNext]_flowVars => FlowInv'
  BY FlowStep
<1>3. FlowInv => PausesEnd
  BY FlowSuffices
<1> QED BY <1>1, <1>2, <1>3, PTL DEF FlowSpec

\* flow_control_decide_xoff sends an XOFF only when the buffer has stayed over its
\* limit since the grace period began.
THEOREM GraceAlwaysNeeded ==
  ASSUME FlowAssumption
  PROVE  FlowSpec => XoffNeedsGrace
<1>1. FlowInit => FlowInv
  BY FlowInitially
<1>2. FlowInv /\ [FlowNext]_flowVars => FlowInv' /\ [XoffWaits]_flowVars
  BY FlowStep
<1> QED BY <1>1, <1>2, PTL DEF FlowSpec, XoffNeedsGrace
=============================================================================
