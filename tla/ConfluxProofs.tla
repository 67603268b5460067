---------------------------- MODULE ConfluxProofs ----------------------------
(* Proofs about ConfluxStream and ConfluxRefill, for every set of legs and  *)
(* all bounds.                                                              *)
EXTENDS ConfluxRefill, TLAPS, WellFoundedInduction, SequenceTheorems,
        FiniteSetTheorems, FunctionTheorems

\* The other end is the other end.
LEMMA PeerFacts ==
  \A e \in End : Peer(e) \in End /\ Peer(e) # e /\ Peer(Peer(e)) = e
BY DEF End, Peer

\* A non-empty set of numbers below a bound has a largest element.
LEMMA BoundedSetHasMax ==
  ASSUME NEW S \in SUBSET Nat, S # {}, NEW b \in Nat, \A n \in S : n <= b
  PROVE  \E n \in S : \A m \in S : m <= n
<1> DEFINE T == {y \in Nat : b - y \in S}
<1>1. T \subseteq Nat /\ T # {}
  <2>1. PICK n \in S : TRUE
    OBVIOUS
  <2>2. b - n \in T
    BY <2>1
  <2> QED BY <2>2
<1>2. PICK x \in T : \A y \in T : ~(<<y, x>> \in OpToRel(<, Nat))
  <2> HIDE DEF T
  <2> QED BY <1>1, NatLessThanWellFounded, WFMin
<1>3. \A y \in T : ~(y < x)
  BY <1>1, <1>2 DEF OpToRel
<1>4. b - x \in S
  OBVIOUS
<1>5. \A m \in S : b - m \in T
  OBVIOUS
<1>6. \A m \in S : m <= b - x
  BY <1>3, <1>5
<1> QED BY <1>4, <1>6

\* What the dequeue loop of connection_edge_process_relay_cell reaches: the
\* last number delivered or the number of a queued cell, with every number in
\* between in the queue.
LEMMA DrainedToFacts ==
  ASSUME NEW q \in SUBSET [seq : Nat, cell : Nat], NEW d \in Nat,
         NEW b \in Nat, d <= b, \A c \in q : c.seq <= b
  PROVE  LET n == DrainedTo(q, d) IN
         /\ n \in Nat /\ d <= n /\ n <= b
         /\ \A k \in d+1 .. n : \E c \in q : c.seq = k
<1> DEFINE stops == {d} \cup {n \in {c.seq : c \in q} : n > d /\ Drains(q, d, n)}
<1>1. stops \in SUBSET Nat /\ stops # {} /\ \A n \in stops : n <= b
  OBVIOUS
<1>2. \E n \in stops : \A m \in stops : m <= n
  <2> HIDE DEF stops
  <2> QED BY <1>1, BoundedSetHasMax
<1>3. DrainedTo(q, d) = CHOOSE n \in stops : \A m \in stops : m <= n
  BY DEF DrainedTo
<1>4. DrainedTo(q, d) \in stops
  <2> HIDE DEF stops
  <2> QED BY <1>2, <1>3
<1>5. DrainedTo(q, d) = d \/ Drains(q, d, DrainedTo(q, d))
  BY <1>4
<1>6. DrainedTo(q, d) >= d
  BY <1>4
<1> QED BY <1>1, <1>4, <1>5, <1>6 DEF Drains

-----------------------------------------------------------------------------
(* How a wire stays coherent.                                               *)

\* The first cell of a leg is taken off.
LEMMA CoherentTail ==
  ASSUME NEW r \in Nat, NEW w \in Seq(Cell), w # <<>>, WireCoherent(r, w)
  PROVE  /\ r + Advance(Head(w)) = w[1].abs
         /\ WireCoherent(w[1].abs, Tail(w))
         /\ CountAfter(w[1].abs, Tail(w)) = CountAfter(r, w)
<1> DEFINE v == Tail(w)
<1>1. /\ v \in Seq(Cell) /\ Len(w) \in Nat /\ Len(w) > 0 /\ Len(v) = Len(w) - 1
      /\ \A i \in 1 .. Len(v) : v[i] = w[i + 1]
      /\ Head(w) = w[1]
  OBVIOUS
<1>2. r + Advance(Head(w)) = w[1].abs
  BY <1>1 DEF WireCoherent, CountBefore
<1>3. ASSUME NEW i \in 1 .. Len(v)
      PROVE  v[i].abs = CountBefore(w[1].abs, v, i) + Advance(v[i])
  <2>1. i + 1 \in 1 .. Len(w) /\ i + 1 # 1 /\ (i + 1) - 1 = i
    BY <1>1
  <2>2. w[i + 1].abs = w[i].abs + Advance(w[i + 1])
    BY <2>1 DEF WireCoherent, CountBefore
  <2>3. CountBefore(w[1].abs, v, i) = w[i].abs
    <3>1. CASE i = 1
      BY <3>1 DEF CountBefore
    <3>2. CASE i # 1
      <4>1. i - 1 \in 1 .. Len(v) /\ (i - 1) + 1 = i
        BY <1>1, <3>2
      <4> QED BY <1>1, <3>2, <4>1 DEF CountBefore
    <3> QED BY <3>1, <3>2
  <2>4. v[i] = w[i + 1]
    BY <1>1
  <2> QED BY <2>2, <2>3, <2>4
<1>4. CountAfter(w[1].abs, v) = CountAfter(r, w)
  <2>1. CASE v = <<>>
    <3>1. Len(w) = 1
      BY <1>1, <2>1
    <3> QED BY <2>1, <3>1 DEF CountAfter
  <2>2. CASE v # <<>>
    <3>1. Len(v) \in 1 .. Len(v) /\ Len(v) + 1 = Len(w)
      BY <1>1, <2>2
    <3> QED BY <1>1, <2>2, <3>1 DEF CountAfter
  <2> QED BY <2>1, <2>2
<1> QED BY <1>2, <1>3, <1>4 DEF WireCoherent

\* A cell is sent on a leg.
LEMMA CoherentAppend ==
  ASSUME NEW r \in Nat, NEW w \in Seq(Cell), WireCoherent(r, w),
         NEW c \in Cell, c.abs = CountAfter(r, w) + Advance(c)
  PROVE  /\ WireCoherent(r, w \o << c >>)
         /\ CountAfter(r, w \o << c >>) = c.abs
<1> DEFINE v == w \o << c >>
           k == Len(w)
<1>1. /\ v \in Seq(Cell) /\ k \in Nat /\ Len(v) = k + 1 /\ v[k + 1] = c
      /\ \A i \in 1 .. k : v[i] = w[i]
  OBVIOUS
<1>2. ASSUME NEW i \in 1 .. k + 1
      PROVE  v[i].abs = CountBefore(r, v, i) + Advance(v[i])
  <2>1. CASE i = k + 1
    <3>1. CountBefore(r, v, i) = CountAfter(r, w)
      <4>1. CASE k = 0
        BY <1>1, <2>1, <4>1 DEF CountBefore, CountAfter
      <4>2. CASE k # 0
        BY <1>1, <2>1, <4>2 DEF CountBefore, CountAfter
      <4> QED BY <4>1, <4>2
    <3> QED BY <1>1, <2>1, <3>1
  <2>2. CASE i \in 1 .. k
    <3>1. CountBefore(r, v, i) = CountBefore(r, w, i)
      <4>1. CASE i = 1
        BY <4>1 DEF CountBefore
      <4>2. CASE i # 1
        <5>1. i - 1 \in 1 .. k
          BY <1>1, <2>2, <4>2
        <5> QED BY <1>1, <4>2, <5>1 DEF CountBefore
      <4> QED BY <4>1, <4>2
    <3>2. w[i].abs = CountBefore(r, w, i) + Advance(w[i])
      BY <2>2 DEF WireCoherent
    <3> QED BY <1>1, <2>2, <3>1, <3>2
  <2> QED BY <1>1, <2>1, <2>2
<1>3. CountAfter(r, v) = c.abs
  BY <1>1 DEF CountAfter
<1> HIDE DEF k
<1> QED BY <1>1, <1>2, <1>3 DEF WireCoherent

\* A prefix of a sequence.
LEMMA PrefixFacts ==
  ASSUME NEW S, NEW w \in Seq(S), NEW n \in 0 .. Len(w)
  PROVE  /\ SubSeq(w, 1, n) \in Seq(S) /\ Len(SubSeq(w, 1, n)) = n
         /\ \A i \in 1 .. n : SubSeq(w, 1, n)[i] = w[i] /\ i \in 1 .. Len(w)
OBVIOUS

\* The last cell of a leg is lost.
LEMMA CoherentFront ==
  ASSUME NEW r \in Nat, NEW w \in Seq(Cell), w # <<>>, WireCoherent(r, w)
  PROVE  WireCoherent(r, SubSeq(w, 1, Len(w) - 1))
<1> DEFINE v == SubSeq(w, 1, Len(w) - 1)
<1>0. Len(w) \in Nat /\ Len(w) - 1 \in 0 .. Len(w)
  OBVIOUS
<1>1. /\ v \in Seq(Cell) /\ Len(v) = Len(w) - 1
      /\ \A i \in 1 .. Len(v) : v[i] = w[i] /\ i \in 1 .. Len(w)
  BY <1>0, PrefixFacts
<1>2. ASSUME NEW i \in 1 .. Len(v)
      PROVE  v[i].abs = CountBefore(r, v, i) + Advance(v[i])
  <2>1. w[i].abs = CountBefore(r, w, i) + Advance(w[i])
    BY <1>1 DEF WireCoherent
  <2>2. CountBefore(r, v, i) = CountBefore(r, w, i)
    <3>1. CASE i = 1
      BY <3>1 DEF CountBefore
    <3>2. CASE i # 1
      <4>1. i - 1 \in 1 .. Len(v)
        BY <1>1, <3>2
      <4> QED BY <1>1, <3>2, <4>1 DEF CountBefore
    <3> QED BY <3>1, <3>2
  <2> QED BY <1>1, <2>1, <2>2
<1> QED BY <1>2 DEF WireCoherent

-----------------------------------------------------------------------------
\* The invariant in one formula, with the types it needs.
IInv == TypeOK /\ SequenceInv

\* The invariant holds at the start.
LEMMA InitIInv == Init => IInv
<1> SUFFICES ASSUME Init PROVE IInv
  OBVIOUS
<1> USE LegsAssumption, NumbersAssumption, PeerFacts
<1>1. TypeOK
  BY DEF Init, TypeOK
<1>2. \A e \in End, l \in Legs : LegCoherent(e, l)
  BY DEF Init, LegCoherent, WireCoherent, CountAfter
<1>3. \A e \in End : /\ SenderCounts(e) /\ WireCells(e) /\ WireUnique(e)
                     /\ QueuedCells(e)
  BY DEF Init, SenderCounts, WireCells, WireUnique, QueuedCells
<1>4. InOrder
  BY DEF Init, InOrder
<1> QED BY <1>1, <1>2, <1>3, <1>4 DEF IInv, SequenceInv

-----------------------------------------------------------------------------
(* Closing legs and losing the end of a wire.                               *)

\* Closing legs keeps the invariant, provided the current leg only goes with
\* all the others: what cfx_del_leg guarantees.
LEMMA CloseStep ==
  ASSUME IInv, NEW e \in End, NEW S \in SUBSET Legs, CloseLegs(e, S),
         curr[e] \in S => legs[e] \subseteq S,
         UNCHANGED <<lastSent, lastRecv, inflight, unacked, delivered, ooo,
                     wire, nsent, out>>
  PROVE  IInv'
<1> USE LegsAssumption, NumbersAssumption, PeerFacts
<1>1. TypeOK'
  BY DEF IInv, TypeOK, CloseLegs
<1>2. \A f \in End, l \in Legs : LegCoherent(f, l)'
  <2> SUFFICES ASSUME NEW f \in End, NEW l \in Legs
               PROVE  LegCoherent(f, l)'
    OBVIOUS
  <2>1. /\ ~dead'[f][l] => ~dead[f][l]
        /\ legs'[f] \subseteq legs[f] /\ legs'[Peer(f)] \subseteq legs[Peer(f)]
    BY DEF IInv, TypeOK, CloseLegs
  <2>2. LegCoherent(f, l)
    BY DEF IInv, SequenceInv
  <2> QED BY <2>1, <2>2 DEF LegCoherent
<1>3. \A f \in End : SenderCounts(f)'
  BY DEF IInv, TypeOK, SequenceInv, SenderCounts, CloseLegs
<1>4. \A f \in End : WireCells(f)' /\ WireUnique(f)' /\ QueuedCells(f)'
  BY DEF IInv, SequenceInv, WireCells, CellPending, WireUnique, QueuedCells
<1>5. InOrder'
  BY DEF IInv, SequenceInv, InOrder
<1> QED BY <1>1, <1>2, <1>3, <1>4, <1>5 DEF IInv, SequenceInv

\* conflux_mark_all_for_close.
LEMMA MarkForCloseStep ==
  ASSUME IInv, NEW e \in End, NEW l \in Legs, MarkForClose(e, l)
  PROVE  IInv'
<1> DEFINE S == ClosedWith(e, l, lastRecv[e][l])
<1>1. S \in SUBSET Legs /\ (curr[e] \in S => S = legs[e])
  BY DEF ClosedWith, FullTeardown, IInv, TypeOK
<1>2. CloseLegs(e, S)
  BY DEF MarkForClose
<1>3. UNCHANGED <<lastSent, lastRecv, inflight, unacked, delivered, ooo,
                  wire, nsent, out>>
  BY DEF MarkForClose
<1> HIDE DEF S
<1> QED BY <1>1, <1>2, <1>3, CloseStep

\* A cell cannot be relayed.
LEMMA RelayFailsStep ==
  ASSUME IInv, NEW l \in Legs, RelayFails(l)
  PROVE  IInv'
<1> USE PeerFacts
<1>1. TypeOK'
  BY DEF IInv, TypeOK, RelayFails
<1>2. \A f \in End, m \in Legs : LegCoherent(f, m)'
  <2> SUFFICES ASSUME NEW f \in End, NEW m \in Legs
               PROVE  LegCoherent(f, m)'
    OBVIOUS
  <2>1. ~dead'[f][m] => ~dead[f][m]
    BY DEF IInv, TypeOK, RelayFails
  <2>2. LegCoherent(f, m)
    BY DEF IInv, SequenceInv
  <2> QED BY <2>1, <2>2 DEF LegCoherent, RelayFails
<1>3. \A f \in End : /\ SenderCounts(f)' /\ WireCells(f)' /\ WireUnique(f)'
                     /\ QueuedCells(f)'
  BY DEF IInv, SequenceInv, SenderCounts, WireCells, CellPending, WireUnique,
         QueuedCells, RelayFails
<1>4. InOrder'
  BY DEF IInv, SequenceInv, InOrder, RelayFails
<1> QED BY <1>1, <1>2, <1>3, <1>4 DEF IInv, SequenceInv

\* A leg loses what was last sent on it.
LEMMA DropTailStep ==
  ASSUME IInv, NEW e \in End, NEW l \in Legs, DropTail(e, l)
  PROVE  IInv'
<1> USE PeerFacts
<1> DEFINE w == wire[e][l]
<1>0. w \in Seq(Cell) /\ Len(w) > 0
  BY DEF IInv, TypeOK, DropTail
<1>1. /\ wire' \in [End -> [Legs -> Seq(Cell)]]
      /\ wire'[e][l] = SubSeq(w, 1, Len(w) - 1)
      /\ \A f \in End, m \in Legs :
           (f # e \/ m # l) => wire'[f][m] = wire[f][m]
  BY <1>0 DEF IInv, TypeOK, DropTail
<1>2. \A f \in End, m \in Legs :
        /\ Len(wire'[f][m]) <= Len(wire[f][m])
        /\ \A i \in 1 .. Len(wire'[f][m]) : wire'[f][m][i] = wire[f][m][i]
  <2> SUFFICES ASSUME NEW f \in End, NEW m \in Legs
               PROVE  /\ Len(wire'[f][m]) <= Len(wire[f][m])
                      /\ \A i \in 1 .. Len(wire'[f][m]) :
                           wire'[f][m][i] = wire[f][m][i]
    OBVIOUS
  <2>1. wire[f][m] \in Seq(Cell)
    BY DEF IInv, TypeOK
  <2>2. CASE f = e /\ m = l
    BY <1>0, <1>1, <2>2
  <2>3. CASE f # e \/ m # l
    BY <1>1, <2>1, <2>3
  <2> QED BY <2>2, <2>3
<1>3. TypeOK'
  BY <1>1 DEF IInv, TypeOK, DropTail
<1>4. \A f \in End, m \in Legs : LegCoherent(f, m)'
  <2> SUFFICES ASSUME NEW f \in End, NEW m \in Legs
               PROVE  LegCoherent(f, m)'
    OBVIOUS
  <2>1. dead[e][l] /\ dead' = dead /\ lastSent' = lastSent
        /\ lastRecv' = lastRecv /\ legs' = legs
    BY DEF DropTail
  <2>2. LegCoherent(f, m) /\ lastRecv[Peer(f)][m] \in Nat
    BY DEF IInv, TypeOK, SequenceInv
  <2>3. CASE f = e /\ m = l /\ l \in legs[Peer(e)]
    <3>1. WireCoherent(lastRecv[Peer(e)][l], w)
      BY <2>2, <2>3 DEF LegCoherent
    <3>2. w # <<>>
      BY <1>0
    <3>3. WireCoherent(lastRecv[Peer(e)][l], SubSeq(w, 1, Len(w) - 1))
      BY <1>0, <2>2, <2>3, <3>1, <3>2, CoherentFront
    <3> QED BY <1>1, <2>1, <2>3, <3>3 DEF LegCoherent
  <2>4. CASE f # e \/ m # l
    BY <1>1, <2>1, <2>2, <2>4 DEF LegCoherent
  <2>5. CASE m \notin legs[Peer(f)]
    BY <2>1, <2>5 DEF LegCoherent
  <2> QED BY <2>3, <2>4, <2>5
<1>5. \A f \in End : WireCells(f)' /\ WireUnique(f)'
  <2> SUFFICES ASSUME NEW f \in End
               PROVE  WireCells(f)' /\ WireUnique(f)'
    OBVIOUS
  <2>1. WireCells(f) /\ WireUnique(f)
    BY DEF IInv, SequenceInv
  <2>2. ASSUME NEW m \in Legs, NEW i \in 1 .. Len(wire'[f][m])
        PROVE  i \in 1 .. Len(wire[f][m]) /\ wire'[f][m][i] = wire[f][m][i]
    <3>1. wire[f][m] \in Seq(Cell) /\ wire'[f][m] \in Seq(Cell)
      BY <1>1 DEF IInv, TypeOK
    <3> QED BY <1>2, <3>1
  <2>3. delivered' = delivered /\ nsent' = nsent /\ ooo' = ooo
    BY DEF DropTail
  <2>4. WireCells(f)'
    BY <2>1, <2>2, <2>3, SMTT(30) DEF WireCells, CellPending, ShouldMultiplex
  <2>5. WireUnique(f)'
    <3> SUFFICES ASSUME NEW m \in Legs, NEW n \in Legs,
                        NEW i \in 1 .. Len(wire'[f][m]),
                        NEW j \in 1 .. Len(wire'[f][n]),
                        ShouldMultiplex(wire'[f][m][i]),
                        ShouldMultiplex(wire'[f][n][j]),
                        wire'[f][m][i].val = wire'[f][n][j].val
                 PROVE  m = n /\ i = j
      BY DEF WireUnique, ShouldMultiplex
    <3>1. i \in 1 .. Len(wire[f][m]) /\ wire'[f][m][i] = wire[f][m][i]
      BY <2>2
    <3>2. j \in 1 .. Len(wire[f][n]) /\ wire'[f][n][j] = wire[f][n][j]
      BY <2>2
    <3> QED BY <2>1, <3>1, <3>2, SMTT(30) DEF WireUnique
  <2> QED BY <2>4, <2>5
<1>6. \A f \in End : SenderCounts(f)' /\ QueuedCells(f)'
  BY DEF IInv, SequenceInv, SenderCounts, QueuedCells, DropTail
<1>7. InOrder'
  BY DEF IInv, SequenceInv, InOrder, DropTail
<1> QED BY <1>3, <1>4, <1>5, <1>6, <1>7 DEF IInv, SequenceInv

-----------------------------------------------------------------------------
(* An end takes the next cell of a leg.                                     *)

\* The acknowledgement that end e may put on leg l.
Ack(e, l) == [kind |-> "sendme", val |-> 0, abs |-> lastSent[e][l]]

\* End e takes the head of leg l and may acknowledge it: how the wires change.
Take(e, l) ==
  /\ wire' \in [End -> [Legs -> Seq(Cell)]]
  /\ wire[Peer(e)][l] # <<>>
  /\ wire'[Peer(e)][l] = Tail(wire[Peer(e)][l])
  /\ \/ wire'[e][l] = wire[e][l]
     \/ ~dead[e][l] /\ wire'[e][l] = wire[e][l] \o << Ack(e, l) >>
  /\ \A f \in End, m \in Legs : m # l => wire'[f][m] = wire[f][m]

\* Every multiplexed cell that is on a wire after a Take was there before, at
\* the same place or one place back, and is not the one taken.
LEMMA TakeCells ==
  ASSUME IInv, NEW e \in End, NEW l \in Legs, Take(e, l),
         NEW f \in End, NEW m \in Legs, NEW i \in 1 .. Len(wire'[f][m]),
         ShouldMultiplex(wire'[f][m][i])
  PROVE  LET j == IF f = Peer(e) /\ m = l THEN i + 1 ELSE i IN
         /\ j \in 1 .. Len(wire[f][m])
         /\ wire[f][m][j] = wire'[f][m][i]
<1> USE PeerFacts
<1>0. wire[f][m] \in Seq(Cell) /\ wire'[f][m] \in Seq(Cell)
  BY DEF IInv, TypeOK, Take
<1>1. CASE f = Peer(e) /\ m = l
  <2>1. wire'[f][m] = Tail(wire[f][m]) /\ wire[f][m] # <<>>
    BY <1>1 DEF Take
  <2>2. i + 1 \in 1 .. Len(wire[f][m]) /\ wire[f][m][i + 1] = wire'[f][m][i]
    BY <1>0, <2>1
  <2> QED BY <1>1, <2>2
<1>2. CASE f = e /\ m = l
  <2>1. CASE wire'[e][l] = wire[e][l]
    BY <1>0, <1>2, <2>1
  <2>2. CASE wire'[e][l] = wire[e][l] \o << Ack(e, l) >>
    <3>1. Len(wire'[e][l]) = Len(wire[e][l]) + 1
      BY <1>0, <1>2, <2>2
    <3>2. i # Len(wire'[e][l])
      BY <1>0, <1>2, <2>2, <3>1 DEF ShouldMultiplex, Multiplexed, Ack
    <3> QED BY <1>0, <1>2, <2>2, <3>1, <3>2
  <2> QED BY <1>2, <2>1, <2>2 DEF Take
<1>3. CASE m # l
  BY <1>0, <1>3 DEF Take
<1> QED BY <1>1, <1>2, <1>3 DEF End, Peer

\* The cells left on the legs, once one is taken off, still have different numbers.
LEMMA TakeUnique ==
  ASSUME IInv, NEW e \in End, NEW l \in Legs, Take(e, l), NEW f \in End
  PROVE  WireUnique(f)'
<1> SUFFICES ASSUME NEW m \in Legs, NEW n \in Legs,
                    NEW i \in 1 .. Len(wire'[f][m]),
                    NEW j \in 1 .. Len(wire'[f][n]),
                    ShouldMultiplex(wire'[f][m][i]),
                    ShouldMultiplex(wire'[f][n][j]),
                    wire'[f][m][i].val = wire'[f][n][j].val
             PROVE  m = n /\ i = j
  BY DEF WireUnique, ShouldMultiplex
<1> DEFINE a == IF f = Peer(e) /\ m = l THEN i + 1 ELSE i
           b == IF f = Peer(e) /\ n = l THEN j + 1 ELSE j
<1>1. a \in 1 .. Len(wire[f][m]) /\ wire[f][m][a] = wire'[f][m][i]
  BY TakeCells
<1>2. b \in 1 .. Len(wire[f][n]) /\ wire[f][n][b] = wire'[f][n][j]
  BY TakeCells
<1>3. WireUnique(f) /\ wire[f][m][a].val = wire[f][n][b].val
      /\ ShouldMultiplex(wire[f][m][a]) /\ ShouldMultiplex(wire[f][n][b])
  BY <1>1, <1>2 DEF IInv, SequenceInv
<1>5. m = n /\ a = b
  <2>1. \A x \in 1 .. Len(wire[f][m]), y \in 1 .. Len(wire[f][n]) :
          /\ ShouldMultiplex(wire[f][m][x]) /\ ShouldMultiplex(wire[f][n][y])
          /\ wire[f][m][x].val = wire[f][n][y].val
          => m = n /\ x = y
    BY <1>3 DEF WireUnique
  <2> HIDE DEF a, b
  <2> QED BY <1>1, <1>2, <1>3, <2>1
<1>4. i \in Int /\ j \in Int
  OBVIOUS
<1> QED BY <1>4, <1>5

\* A cell that is on a wire after a Take is still pending, and is another
\* one than the cell taken.
LEMMA TakePending ==
  ASSUME IInv, NEW e \in End, NEW l \in Legs, Take(e, l),
         NEW f \in End, NEW m \in Legs, NEW i \in 1 .. Len(wire'[f][m]),
         ShouldMultiplex(wire'[f][m][i])
  PROVE  /\ CellPending(f, wire'[f][m][i])
         /\ wire'[f][m][i] \in Cell
         /\ f = Peer(e) /\ ShouldMultiplex(wire[f][l][1]) =>
              wire'[f][m][i].val # wire[f][l][1].val
<1> DEFINE j == IF f = Peer(e) /\ m = l THEN i + 1 ELSE i
<1>1. j \in 1 .. Len(wire[f][m]) /\ wire[f][m][j] = wire'[f][m][i]
  BY TakeCells
<1>2. f = Peer(e) /\ m = l => j # 1
  OBVIOUS
<1>3. f = Peer(e) => 1 \in 1 .. Len(wire[f][l])
  <2>1. wire[f][l] \in Seq(Cell)
    BY DEF IInv, TypeOK
  <2> QED BY <2>1 DEF Take
<1> HIDE DEF j
<1>4. CellPending(f, wire[f][m][j])
  BY <1>1 DEF IInv, SequenceInv, WireCells
<1>5. wire[f][m][j] \in Cell
  <2>1. wire[f][m] \in Seq(Cell)
    BY DEF IInv, TypeOK
  <2> QED BY <1>1, <2>1
<1>6. ASSUME f = Peer(e), ShouldMultiplex(wire[f][l][1]),
             wire[f][m][j].val = wire[f][l][1].val
      PROVE  FALSE
  <2>1. WireUnique(f)
    BY DEF IInv, SequenceInv
  <2>2. \A x \in 1 .. Len(wire[f][m]), y \in 1 .. Len(wire[f][l]) :
          /\ ShouldMultiplex(wire[f][m][x]) /\ ShouldMultiplex(wire[f][l][y])
          /\ wire[f][m][x].val = wire[f][l][y].val
          => m = l /\ x = y
    BY <2>1 DEF WireUnique
  <2>3. m = l /\ j = 1
    BY <1>1, <1>3, <1>6, <2>2
  <2> QED BY <1>2, <1>6, <2>3
<1> QED BY <1>1, <1>4, <1>5, <1>6

\* Taking a cell and counting it keeps both ends agreed on every leg.
LEMMA TakeCoherent ==
  ASSUME IInv, NEW e \in End, NEW l \in Legs, Take(e, l),
         lastRecv' = [lastRecv EXCEPT
                        ![e][l] = @ + Advance(Head(wire[Peer(e)][l]))],
         lastSent' = lastSent, l \in legs[e],
         \A f \in End : legs'[f] \subseteq legs[f],
         \A f \in End, m \in Legs : ~dead'[f][m] => ~dead[f][m]
  PROVE  \A f \in End, m \in Legs : LegCoherent(f, m)'
<1> USE PeerFacts
<1> SUFFICES ASSUME NEW f \in End, NEW m \in Legs, m \in legs'[Peer(f)]
             PROVE  LegCoherent(f, m)'
  BY DEF LegCoherent
<1> DEFINE w == wire[f][m]
           v == wire'[f][m]
           r == lastRecv[Peer(f)][m]
<1>0. /\ w \in Seq(Cell) /\ r \in Nat
      /\ WireCoherent(r, w)
      /\ m \in legs[f] /\ ~dead[f][m] => lastSent[f][m] = CountAfter(r, w)
      /\ m \in legs'[f] /\ ~dead'[f][m] => m \in legs[f] /\ ~dead[f][m]
  BY DEF IInv, TypeOK, SequenceInv, LegCoherent
<1>1. CASE f = Peer(e) /\ m = l
  <2>1. v = Tail(w) /\ w # <<>> /\ lastRecv'[Peer(f)][m] = r + Advance(Head(w))
    BY <1>1 DEF Take, IInv, TypeOK
  <2> HIDE DEF w, v, r
  <2>2. WireCoherent(r + Advance(Head(w)), v)
        /\ CountAfter(r + Advance(Head(w)), v) = CountAfter(r, w)
    BY <1>0, <2>1, CoherentTail
  <2> QED BY <1>0, <2>1, <2>2 DEF LegCoherent, v
<1>2. CASE ~(f = Peer(e) /\ m = l)
  <2>1. lastRecv'[Peer(f)][m] = r
    BY <1>2 DEF IInv, TypeOK
  <2>2. CASE v = w
    BY <1>0, <2>1, <2>2 DEF LegCoherent
  <2>3. CASE f = e /\ m = l /\ ~dead[e][l] /\ v = w \o << Ack(e, l) >>
    <3>1. lastSent[f][m] \in Nat /\ lastSent[f][m] = CountAfter(r, w)
      BY <1>0, <2>3 DEF IInv, TypeOK
    <3>2. /\ Ack(e, l) \in Cell /\ Ack(e, l).abs = lastSent[f][m]
          /\ Advance(Ack(e, l)) = 0
      BY <2>3, <3>1 DEF Ack, Cell, Advance, ShouldMultiplex, Multiplexed
    <3>3. Ack(e, l).abs = CountAfter(r, w) + Advance(Ack(e, l))
      BY <3>1, <3>2
    <3>4. WireCoherent(r, v) /\ CountAfter(r, v) = lastSent[f][m]
      <4> HIDE DEF w, v, r
      <4> QED BY <1>0, <2>3, <3>2, <3>3, CoherentAppend
    <3> QED BY <2>1, <3>4 DEF LegCoherent
  <2>4. v = w \/ (f = e /\ m = l /\ ~dead[e][l] /\ v = w \o << Ack(e, l) >>)
    <3>1. f = e \/ m # l
      BY <1>2 DEF End, Peer
    <3> QED BY <3>1 DEF Take
  <2> QED BY <2>2, <2>3, <2>4
<1> QED BY <1>1, <1>2

\* A SWITCH or a SENDME is taken: nothing is delivered or queued.
LEMMA TakeUncounted ==
  ASSUME IInv, NEW e \in End, NEW l \in Legs, Consume(e, l),
         HasCell(e, l, {"switch", "sendme"}),
         lastRecv' = [lastRecv EXCEPT
                        ![e][l] = @ + Advance(Head(wire[Peer(e)][l]))],
         inflight' \in [End -> [Legs -> Int]],
         UNCHANGED <<legs, curr, lastSent, unacked, delivered, ooo, dead,
                     nsent, out>>
  PROVE  IInv'
<1>1. Take(e, l)
  <2>1. wire[Peer(e)][l] \in Seq(Cell) /\ wire[Peer(e)][l] # <<>>
    BY PeerFacts DEF IInv, TypeOK, HasCell, Arriving
  <2>2. Tail(wire[Peer(e)][l]) \in Seq(Cell)
    BY <2>1
  <2>3. wire' \in [End -> [Legs -> Seq(Cell)]]
    BY <2>2, PeerFacts DEF IInv, TypeOK, Consume
  <2>4. /\ wire'[Peer(e)][l] = Tail(wire[Peer(e)][l])
        /\ wire'[e][l] = wire[e][l]
        /\ \A f \in End, m \in Legs : m # l => wire'[f][m] = wire[f][m]
    BY PeerFacts DEF IInv, TypeOK, Consume
  <2> QED BY <2>1, <2>3, <2>4 DEF Take
<1>2. TypeOK'
  <2>1. wire[Peer(e)][l] \in Seq(Cell) /\ wire[Peer(e)][l] # <<>>
    BY PeerFacts DEF IInv, TypeOK, HasCell, Arriving
  <2>2. Head(wire[Peer(e)][l]) \in Cell
    BY <2>1
  <2>3. Advance(Head(wire[Peer(e)][l])) \in Nat
    BY <2>2 DEF Advance, Cell
  <2>4. lastRecv' \in [End -> [Legs -> Nat]]
    <3> DEFINE a == Advance(Head(wire[Peer(e)][l]))
    <3>1. a \in Nat /\ lastRecv' = [lastRecv EXCEPT ![e][l] = @ + a]
      BY <2>3
    <3>2. lastRecv \in [End -> [Legs -> Nat]]
      BY DEF IInv, TypeOK
    <3> HIDE DEF a
    <3>3. \A x \in Legs : lastRecv'[e][x] \in Nat
      BY <3>1, <3>2
    <3> QED BY <3>1, <3>2, <3>3
  <2> QED BY <1>1, <2>4 DEF IInv, TypeOK, Take
<1>3. \A f \in End, m \in Legs : LegCoherent(f, m)'
  BY <1>1, TakeCoherent DEF HasCell
<1>4. \A f \in End : WireUnique(f)'
  BY <1>1, TakeUnique
<1>5. \A f \in End : WireCells(f)'
  <2> SUFFICES ASSUME NEW f \in End, NEW m \in Legs,
                      NEW i \in 1 .. Len(wire'[f][m]),
                      ShouldMultiplex(wire'[f][m][i])
               PROVE  CellPending(f, wire[f][m][i])'
    BY DEF WireCells, ShouldMultiplex
  <2>1. CellPending(f, wire'[f][m][i])
    BY <1>1, TakePending
  <2> QED BY <2>1 DEF CellPending
<1>6. \A f \in End : SenderCounts(f)' /\ QueuedCells(f)'
  BY DEF IInv, SequenceInv, SenderCounts, QueuedCells
<1>7. InOrder'
  BY DEF IInv, SequenceInv, InOrder
<1> QED BY <1>2, <1>3, <1>4, <1>5, <1>6, <1>7 DEF IInv, SequenceInv

\* conflux_process_switch_command.
LEMMA ReceiveSwitchStep ==
  ASSUME IInv, NEW e \in End, NEW l \in Legs, ReceiveSwitch(e, l)
  PROVE  IInv'
<1> DEFINE c == Head(wire[Peer(e)][l])
<1>1. Advance(c) = c.val
  BY DEF ReceiveSwitch, HasCell, Arriving, Advance, ShouldMultiplex,
         Multiplexed
<1>2. lastRecv' = [lastRecv EXCEPT ![e][l] = @ + Advance(c)]
  BY <1>1 DEF ReceiveSwitch, Arriving
<1>3. /\ Consume(e, l) /\ HasCell(e, l, {"switch", "sendme"})
      /\ inflight' \in [End -> [Legs -> Int]]
      /\ UNCHANGED <<legs, curr, lastSent, unacked, delivered, ooo, dead,
                     nsent, out>>
  BY DEF ReceiveSwitch, HasCell, IInv, TypeOK
<1> QED BY <1>2, <1>3, TakeUncounted

\* A SENDME arrives.
LEMMA ReceiveSendmeStep ==
  ASSUME IInv, NEW e \in End, NEW l \in Legs, ReceiveSendme(e, l)
  PROVE  IInv'
<1> DEFINE c == Head(wire[Peer(e)][l])
<1>1. Advance(c) = 0
  BY DEF ReceiveSendme, HasCell, Arriving, Advance, ShouldMultiplex,
         Multiplexed
<1>2. lastRecv' = [lastRecv EXCEPT ![e][l] = @ + Advance(c)]
  <2>1. lastRecv' = lastRecv /\ lastRecv \in [End -> [Legs -> Nat]]
    BY DEF ReceiveSendme, IInv, TypeOK
  <2> QED BY <1>1, <2>1
<1>3. /\ Consume(e, l) /\ HasCell(e, l, {"switch", "sendme"})
      /\ inflight' \in [End -> [Legs -> Int]]
      /\ UNCHANGED <<legs, curr, lastSent, unacked, delivered, ooo, dead,
                     nsent, out>>
  BY NumbersAssumption DEF ReceiveSendme, HasCell, IInv, TypeOK
<1> QED BY <1>2, <1>3, TakeUncounted

-----------------------------------------------------------------------------
(* A multiplexed cell is received.                                          *)

\* Acknowledging a cell takes it from the wire; the count of cells towards
\* the next SENDME stays below SendmeInc.
LEMMA AcknowledgeTakes ==
  ASSUME IInv, NEW e \in End, NEW l \in Legs, NEW kind,
         HasCell(e, l, Multiplexed), Acknowledge(e, l, kind)
  PROVE  Take(e, l) /\ unacked' \in [End -> [Legs -> 0 .. SendmeInc - 1]]
<1> DEFINE p == Peer(e)
           due == kind = "data" /\ unacked[e][l] + 1 = SendmeInc
<1>1. wire[p][l] \in Seq(Cell) /\ wire[p][l] # <<>> /\ wire[e][l] \in Seq(Cell)
  BY PeerFacts DEF IInv, TypeOK, HasCell, Arriving
<1>2. Tail(wire[p][l]) \in Seq(Cell)
  BY <1>1
<1>3. Ack(e, l) \in Cell
  BY DEF Ack, Cell, IInv, TypeOK
<1>4. wire[e][l] \o << Ack(e, l) >> \in Seq(Cell)
  BY <1>1, <1>3
<1> DEFINE new == IF due THEN Push(e, l, << Ack(e, l) >>) ELSE wire[e][l]
<1>5. new \in Seq(Cell)
  BY <1>1, <1>4 DEF Push
<1>6. new = wire[e][l] \/ (~dead[e][l] /\ new = wire[e][l] \o << Ack(e, l) >>)
  BY DEF Push
<1>7. wire' = [wire EXCEPT ![p][l] = Tail(@), ![e][l] = new]
  BY PeerFacts DEF Acknowledge, Ack, Push, IInv, TypeOK
<1>8. Take(e, l)
  <2> HIDE DEF new, due
  <2>1. wire' \in [End -> [Legs -> Seq(Cell)]]
    BY <1>2, <1>5, <1>7, PeerFacts DEF IInv, TypeOK
  <2>2. /\ wire'[p][l] = Tail(wire[p][l]) /\ wire'[e][l] = new
        /\ \A f \in End, m \in Legs : m # l => wire'[f][m] = wire[f][m]
    BY <1>7, PeerFacts DEF IInv, TypeOK
  <2> QED BY <1>1, <1>6, <2>1, <2>2 DEF Take
<1>9. unacked' \in [End -> [Legs -> 0 .. SendmeInc - 1]]
  <2>1. unacked \in [End -> [Legs -> 0 .. SendmeInc - 1]] /\ SendmeInc \in Nat
        /\ SendmeInc > 0
    BY NumbersAssumption DEF IInv, TypeOK
  <2> DEFINE u == IF due THEN 0
                  ELSE IF kind = "data" THEN unacked[e][l] + 1 ELSE unacked[e][l]
  <2>2. u \in 0 .. SendmeInc - 1
    BY <2>1
  <2>3. unacked' = [unacked EXCEPT ![e][l] = u]
    BY DEF Acknowledge
  <2> HIDE DEF u
  <2> QED BY <2>1, <2>2, <2>3
<1> QED BY <1>8, <1>9

\* The cell at the head of a leg, and the number its receiver gives it.
LEMMA HeadFacts ==
  ASSUME IInv, NEW e \in End, NEW l \in Legs, HasCell(e, l, Multiplexed)
  PROVE  LET c == Head(Arriving(e, l)) IN
         /\ c = wire[Peer(e)][l][1] /\ c \in Cell /\ ShouldMultiplex(c)
         /\ c.val = lastRecv[e][l] + 1
         /\ CellPending(Peer(e), c)
<1> DEFINE p == Peer(e)
           w == wire[p][l]
<1>1. w \in Seq(Cell) /\ w # <<>> /\ Arriving(e, l) = w
  BY PeerFacts DEF IInv, TypeOK, HasCell, Arriving
<1>2. 1 \in 1 .. Len(w) /\ Head(w) = w[1] /\ w[1] \in Cell
  <2> HIDE DEF w
  <2> QED BY <1>1
<1>3. ShouldMultiplex(w[1])
  BY <1>1, <1>2 DEF HasCell, ShouldMultiplex
<1>4. CellPending(p, w[1])
  BY <1>2, <1>3, PeerFacts DEF IInv, SequenceInv, WireCells
<1>5. w[1].abs = lastRecv[e][l] + 1
  <2>1. WireCoherent(lastRecv[e][l], w)
    BY PeerFacts DEF IInv, SequenceInv, LegCoherent, HasCell
  <2>2. w[1].abs = CountBefore(lastRecv[e][l], w, 1) + Advance(w[1])
    BY <1>2, <2>1 DEF WireCoherent
  <2>3. Advance(w[1]) = 1
    BY <1>3 DEF Advance
  <2> QED BY <2>2, <2>3 DEF CountBefore
<1> QED BY <1>1, <1>2, <1>3, <1>4, <1>5 DEF CellPending

\* A run of numbers counting from 1, continued.
LEMMA CountingConcat ==
  ASSUME NEW a \in Seq(Nat), NEW b \in Seq(Nat),
         \A k \in 1 .. Len(a) : a[k] = k,
         \A k \in 1 .. Len(b) : b[k] = Len(a) + k
  PROVE  /\ a \o b \in Seq(Nat) /\ Len(a \o b) = Len(a) + Len(b)
         /\ \A k \in 1 .. Len(a) + Len(b) : (a \o b)[k] = k
<1>1. /\ a \o b \in Seq(Nat) /\ Len(a \o b) = Len(a) + Len(b)
      /\ Len(a) \in Nat /\ Len(b) \in Nat
  OBVIOUS
<1>2. ASSUME NEW k \in 1 .. Len(a) + Len(b) PROVE (a \o b)[k] = k
  <2>1. CASE k <= Len(a)
    BY <2>1
  <2>2. CASE k > Len(a)
    <3>1. k - Len(a) \in 1 .. Len(b) /\ Len(a) + (k - Len(a)) = k
      BY <1>1, <2>2
    <3>2. (a \o b)[k] = b[k - Len(a)]
      BY <2>2
    <3> QED BY <3>1, <3>2
  <2>3. k \in Int
    BY <1>1
  <2> QED BY <1>1, <2>1, <2>2, <2>3
<1> QED BY <1>1, <1>2

\* conflux_process_relay_msg, for a multiplexed cell.
LEMMA ReceiveCellStep ==
  ASSUME IInv, NEW e \in End, NEW l \in Legs, ReceiveCell(e, l)
  PROVE  IInv'
<1> DEFINE p == Peer(e)
           c == Head(Arriving(e, l))
           seq == lastRecv[e][l] + 1
           q == ooo[e]
<1>1. HasCell(e, l, Multiplexed) /\ Acknowledge(e, l, c.kind)
  BY DEF ReceiveCell
<1>2. /\ c = wire[p][l][1] /\ c \in Cell /\ ShouldMultiplex(c) /\ c.val = seq
      /\ CellPending(p, c)
  BY <1>1, HeadFacts
<1>3. Take(e, l) /\ unacked' \in [End -> [Legs -> 0 .. SendmeInc - 1]]
  BY <1>1, AcknowledgeTakes
<1>4. lastRecv' = [lastRecv EXCEPT ![e][l] = @ + Advance(Head(wire[p][l]))]
  <2>1. Advance(Head(wire[p][l])) = 1
    BY <1>2 DEF Advance, Arriving
  <2> QED BY <2>1 DEF ReceiveCell
<1>5. lastSent' = lastSent /\ inflight' = inflight /\ nsent' = nsent
  BY DEF ReceiveCell
<1>6. \A f \in End, m \in Legs : ~dead'[f][m] => ~dead[f][m]
  <2>1. dead' = dead \/ CloseLegs(e, ClosedWith(e, l, seq))
    BY DEF ReceiveCell
  <2> DEFINE S == ClosedWith(e, l, seq)
  <2>2. CASE dead' = [dead EXCEPT ![e] = [m \in Legs |-> @[m] \/ m \in S]]
    <3> HIDE DEF S
    <3> QED BY <2>2 DEF IInv, TypeOK
  <2> QED BY <2>1, <2>2 DEF CloseLegs
<1>7. \A f \in End, m \in Legs : LegCoherent(f, m)'
  <2>1. \A f \in End : legs'[f] \subseteq legs[f]
    <3>1. legs' = legs \/ CloseLegs(e, ClosedWith(e, l, seq))
      BY DEF ReceiveCell
    <3>2. ASSUME NEW S, CloseLegs(e, S)
          PROVE  \A f \in End : legs'[f] \subseteq legs[f]
      BY <3>2 DEF IInv, TypeOK, CloseLegs
    <3> QED BY <3>1, <3>2
  <2> QED BY <1>1, <1>3, <1>4, <1>5, <1>6, <2>1, TakeCoherent DEF HasCell
<1>8. \A f \in End : WireUnique(f)'
  BY <1>3, TakeUnique
<1>9. p \in End /\ Peer(p) = e /\ seq \in Nat /\ q \in SUBSET [seq : Nat, cell : Nat]
      /\ delivered[e] \in Nat /\ nsent[p] \in Nat
      /\ seq > delivered[e] /\ seq <= nsent[p] /\ \A x \in q : x.seq # seq
  <2>1. p \in End /\ Peer(p) = e
    BY PeerFacts
  <2>2. /\ seq \in Nat /\ q \in SUBSET [seq : Nat, cell : Nat]
        /\ delivered[e] \in Nat /\ nsent[p] \in Nat
    BY <2>1, SMTT(30) DEF IInv, TypeOK
  <2>3. seq > delivered[e] /\ seq <= nsent[p] /\ \A x \in q : x.seq # seq
    BY <1>2, <2>1 DEF CellPending
  <2> QED BY <2>1, <2>2, <2>3
<1>10. lastRecv' \in [End -> [Legs -> Nat]]
  <2>1. lastRecv' = [lastRecv EXCEPT ![e][l] = seq]
    BY DEF ReceiveCell
  <2> HIDE DEF seq
  <2> QED BY <1>9, <2>1 DEF IInv, TypeOK
<1>11. \A x \in q : x.seq = x.cell /\ x.seq > delivered[e] /\ x.seq <= nsent[p]
  BY DEF IInv, SequenceInv, QueuedCells
<1>12. Len(out[e]) = delivered[e] /\ out[e] \in Seq(Nat)
       /\ \A k \in 1 .. Len(out[e]) : out[e][k] = k
  BY DEF IInv, TypeOK, SequenceInv, InOrder
\* A cell still on a wire to e is pending, and is not this one.
<1>13. ASSUME NEW f \in End, NEW m \in Legs, NEW k \in 1 .. Len(wire'[f][m]),
              ShouldMultiplex(wire'[f][m][k])
       PROVE  /\ CellPending(f, wire'[f][m][k]) /\ wire'[f][m][k].val \in Nat
              /\ f = p => wire'[f][m][k].val # seq
  <2>1. /\ CellPending(f, wire'[f][m][k]) /\ wire'[f][m][k] \in Cell
        /\ f = p /\ ShouldMultiplex(wire[f][l][1]) =>
             wire'[f][m][k].val # wire[f][l][1].val
    BY <1>3, <1>13, TakePending
  <2> QED BY <1>2, <2>1 DEF Cell
<1>14. ASSUME NEW d \in Nat, NEW s \in SUBSET [seq : Nat, cell : Nat],
              delivered' = [delivered EXCEPT ![e] = d],
              ooo' = [ooo EXCEPT ![e] = s],
              d <= nsent[p],
              \A x \in s : x.seq = x.cell /\ x.seq > d /\ x.seq <= nsent[p],
              \A f \in End, m \in Legs : \A k \in 1 .. Len(wire'[f][m]) :
                f = p /\ ShouldMultiplex(wire'[f][m][k]) =>
                  /\ wire'[f][m][k].val > d
                  /\ \A x \in s : x.seq # wire'[f][m][k].val
       PROVE  \A f \in End : WireCells(f)' /\ QueuedCells(f)'
  <2> SUFFICES ASSUME NEW f \in End PROVE WireCells(f)' /\ QueuedCells(f)'
    OBVIOUS
  <2>1. /\ \A g \in End : g # e => delivered'[g] = delivered[g] /\ ooo'[g] = ooo[g]
        /\ delivered'[e] = d /\ ooo'[e] = s
    BY <1>14 DEF IInv, TypeOK
  <2>2. QueuedCells(f)'
    <3>1. QueuedCells(f)
      BY DEF IInv, SequenceInv
    <3> QED BY <1>5, <1>14, <2>1, <3>1 DEF QueuedCells
  <2>3. WireCells(f)'
    <3> SUFFICES ASSUME NEW m \in Legs, NEW k \in 1 .. Len(wire'[f][m]),
                        ShouldMultiplex(wire'[f][m][k])
                 PROVE  CellPending(f, wire[f][m][k])'
      BY DEF WireCells, ShouldMultiplex
    <3>1. CellPending(f, wire'[f][m][k])
      BY <1>13
    <3>2. CASE f = p
      BY <1>5, <1>9, <1>14, <2>1, <3>1, <3>2 DEF CellPending
    <3>3. CASE f # p
      <4>1. Peer(f) # e /\ Peer(f) \in End
        BY <3>3, PeerFacts
      <4> QED BY <1>5, <2>1, <3>1, <4>1 DEF CellPending
    <3> QED BY <3>2, <3>3
  <2> QED BY <2>2, <2>3
<1> HIDE DEF c, seq, q, p
\* Closing the leg of the cell, alone or with the others.
<1>15. ASSUME CloseLegs(e, ClosedWith(e, l, seq))
       PROVE  /\ legs' \in [End -> SUBSET Legs]
              /\ curr' \in [End -> Legs \cup {NoLeg}]
              /\ dead' \in [End -> [Legs -> BOOLEAN]]
              /\ \A f \in End : SenderCounts(f)'
  <2> DEFINE S == ClosedWith(e, l, seq)
  <2>1. S \in SUBSET Legs /\ (curr[e] \in S => S = legs[e])
    BY DEF ClosedWith, FullTeardown, IInv, TypeOK
  <2> HIDE DEF S
  <2>2. CloseLegs(e, S)
    BY <1>15 DEF S
  <2>3. /\ legs' \in [End -> SUBSET Legs]
        /\ curr' \in [End -> Legs \cup {NoLeg}]
        /\ dead' \in [End -> [Legs -> BOOLEAN]]
    BY <2>2 DEF IInv, TypeOK, CloseLegs
  <2>4. \A f \in End : SenderCounts(f)'
    BY LegsAssumption, <1>5, <2>1, <2>2
       DEF IInv, TypeOK, SequenceInv, SenderCounts, CloseLegs
  <2> QED BY <2>3, <2>4
\* The cell is next: it is delivered, and with it what waited for it.
<1>16. ASSUME seq = delivered[e] + 1, NEW last \in seq .. DrainedTo(q, seq),
              delivered' = [delivered EXCEPT ![e] = last],
              out' = [out EXCEPT ![e] = @ \o << c.val >> \o
                        [k \in 1 .. last - seq |-> Dequeued(q, seq, last)[k].cell]],
              ooo' = [ooo EXCEPT ![e] = @ \
                        {Dequeued(q, seq, last)[k] : k \in 1 .. last - seq}],
              \/ UNCHANGED <<legs, curr, dead>>
              \/ CloseLegs(e, ClosedWith(e, l, seq))
       PROVE  IInv'
  <2> DEFINE more == Dequeued(q, seq, last)
             rest == q \ {more[k] : k \in 1 .. last - seq}
             run == [k \in 1 .. last - seq |-> more[k].cell]
  <2>1. /\ last \in Nat /\ seq <= last /\ last <= nsent[p]
        /\ \A k \in seq + 1 .. last : \E x \in q : x.seq = k
    <3> DEFINE n == DrainedTo(q, seq)
    <3>1. /\ n \in Nat /\ seq <= n /\ n <= nsent[p]
          /\ \A k \in seq + 1 .. n : \E x \in q : x.seq = k
      BY <1>9, <1>11, DrainedToFacts
    <3> HIDE DEF n
    <3>2. last \in seq .. n
      BY DEF n
    <3>3. last \in Nat /\ seq <= last /\ last <= nsent[p]
          /\ seq + 1 .. last \subseteq seq + 1 .. n
      BY <1>9, <3>1, <3>2
    <3> QED BY <3>1, <3>3
  <2>2. ASSUME NEW k \in 1 .. last - seq
        PROVE  more[k] \in q /\ more[k].seq = seq + k /\ more[k].cell = seq + k
    <3>1. seq + k \in seq + 1 .. last
      BY <1>9, <2>1
    <3>2. \E x \in q : x.seq = seq + k
      BY <2>1, <3>1
    <3>3. more[k] = CHOOSE x \in q : x.seq = seq + k
      BY DEF Dequeued
    <3>4. more[k] \in q /\ more[k].seq = seq + k
      BY <3>2, <3>3
    <3> QED BY <1>11, <3>4
  <2> HIDE DEF more
  <2>3. ASSUME NEW x \in rest
        PROVE  x \in q /\ x.seq > last
    <3>1. x \in q /\ x.seq \in Nat /\ x.seq > seq
      BY <1>9, <1>11, <1>16
    <3>2. ASSUME x.seq <= last PROVE FALSE
      <4> DEFINE k == x.seq - seq
      <4>1. k \in 1 .. last - seq /\ seq + k = x.seq
        BY <1>9, <2>1, <3>1, <3>2
      <4>2. more[k] \in q /\ more[k].seq = x.seq /\ more[k].cell = x.seq
        BY <2>2, <4>1
      <4>3. more[k] = x
        BY <1>9, <1>11, <3>1, <4>2
      <4> QED BY <4>1, <4>3
    <3> QED BY <2>1, <3>1, <3>2
  <2>4. rest \in SUBSET [seq : Nat, cell : Nat]
    BY <1>9
  <2>5. run \in Seq(Nat) /\ Len(run) = last - seq
        /\ \A k \in 1 .. last - seq : run[k] = seq + k
    <3>1. last - seq \in Nat
      BY <1>9, <2>1
    <3>2. \A k \in 1 .. last - seq : more[k].cell = seq + k /\ seq + k \in Nat
      BY <1>9, <2>2
    <3> QED BY <3>1, <3>2
  <2>6. delivered' = [delivered EXCEPT ![e] = last]
        /\ ooo' = [ooo EXCEPT ![e] = rest]
        /\ out' = [out EXCEPT ![e] = @ \o << c.val >> \o run]
    BY <1>16 DEF more, q
  <2> HIDE DEF run, rest
  <2>7. \A f \in End, m \in Legs : \A k \in 1 .. Len(wire'[f][m]) :
          f = p /\ ShouldMultiplex(wire'[f][m][k]) =>
            /\ wire'[f][m][k].val > last
            /\ \A x \in rest : x.seq # wire'[f][m][k].val
    <3> SUFFICES ASSUME NEW m \in Legs, NEW k \in 1 .. Len(wire'[p][m]),
                        ShouldMultiplex(wire'[p][m][k])
                 PROVE  /\ wire'[p][m][k].val > last
                        /\ \A x \in rest : x.seq # wire'[p][m][k].val
      OBVIOUS
    <3> DEFINE v == wire'[p][m][k].val
    <3>1. CellPending(p, wire'[p][m][k]) /\ v \in Nat /\ v # seq
      BY <1>9, <1>13
    <3>2. v > delivered[e] /\ \A x \in q : x.seq # v
      BY <1>9, <3>1 DEF CellPending, q
    <3> HIDE DEF v
    <3>3. v > last
      BY <1>9, <1>16, <2>1, <3>1, <3>2
    <3> QED BY <2>3, <3>2, <3>3 DEF v
  <2>8. \A x \in rest : x.seq = x.cell /\ x.seq > last /\ x.seq <= nsent[p]
    BY <1>11, <2>3
  <2>9. \A f \in End : WireCells(f)' /\ QueuedCells(f)'
    BY <1>14, <2>1, <2>4, <2>6, <2>7, <2>8
  <2>10. out[e] \o << c.val >> \o run \in Seq(Nat)
         /\ Len(out[e] \o << c.val >> \o run) = last
         /\ \A k \in 1 .. last : (out[e] \o << c.val >> \o run)[k] = k
    <3> DEFINE a == out[e] \o << c.val >>
    <3>1. a \in Seq(Nat) /\ Len(a) = seq /\ \A k \in 1 .. seq : a[k] = k
      <4>1. << c.val >> \in Seq(Nat) /\ Len(<< c.val >>) = 1
            /\ \A k \in 1 .. Len(<< c.val >>) : << c.val >>[k] = Len(out[e]) + k
        BY <1>2, <1>9, <1>12, <1>16
      <4>2. Len(out[e]) + Len(<< c.val >>) = seq
        BY <1>9, <1>12, <1>16, <4>1
      <4> QED BY <1>12, <4>1, <4>2, CountingConcat
    <3> HIDE DEF a
    <3>2. Len(a) + Len(run) = last /\ \A k \in 1 .. Len(run) : run[k] = Len(a) + k
      <4>1. Len(a) = seq /\ Len(run) = last - seq
        BY <2>5, <3>1
      <4>2. seq + (last - seq) = last
        BY <1>9, <2>1
      <4>3. \A k \in 1 .. last - seq : run[k] = seq + k
        BY <2>5
      <4> HIDE DEF seq
      <4> QED BY <4>1, <4>2, <4>3
    <3>3. \A k \in 1 .. Len(a) : a[k] = k
      BY <3>1
    <3>4. run \in Seq(Nat)
      BY <2>5
    <3> QED BY <3>1, <3>2, <3>3, <3>4, CountingConcat DEF a
  <2>11. InOrder'
    <3>1. \A f \in End : f # e => out'[f] = out[f] /\ delivered'[f] = delivered[f]
      BY <2>6 DEF IInv, TypeOK
    <3>2. out'[e] = out[e] \o << c.val >> \o run /\ delivered'[e] = last
      BY <2>6 DEF IInv, TypeOK
    <3> QED BY <2>10, <3>1, <3>2 DEF IInv, SequenceInv, InOrder
  <2>12. TypeOK'
    <3>1. delivered' \in [End -> Nat] /\ ooo' \in [End -> SUBSET [seq : Nat, cell : Nat]]
          /\ out' \in [End -> Seq(Nat)]
      BY <2>1, <2>4, <2>6, <2>10 DEF IInv, TypeOK
    <3> QED BY <1>3, <1>5, <1>10, <1>15, <1>16, <3>1 DEF IInv, TypeOK, Take
  <2>13. \A f \in End : SenderCounts(f)'
    BY <1>5, <1>16, <1>15 DEF IInv, SequenceInv, SenderCounts
  <2> QED BY <1>7, <1>8, <2>9, <2>11, <2>12, <2>13 DEF IInv, SequenceInv
\* The cell is early and waits.
<1>17. ASSUME seq > delivered[e] + 1,
              ooo' = [ooo EXCEPT ![e] = @ \cup {[seq |-> seq, cell |-> c.val]}],
              UNCHANGED <<legs, curr, dead, delivered, out>>
       PROVE  IInv'
  <2> DEFINE s == q \cup {[seq |-> seq, cell |-> seq]}
  <2>1. s \in SUBSET [seq : Nat, cell : Nat]
    BY <1>9
  <2>2. ooo' = [ooo EXCEPT ![e] = s]
    BY <1>2, <1>17 DEF q
  <2>3. \A x \in s : x.seq = x.cell /\ x.seq > delivered[e] /\ x.seq <= nsent[p]
    BY <1>9, <1>11
  <2>4. \A f \in End, m \in Legs : \A k \in 1 .. Len(wire'[f][m]) :
          f = p /\ ShouldMultiplex(wire'[f][m][k]) =>
            /\ wire'[f][m][k].val > delivered[e]
            /\ \A x \in s : x.seq # wire'[f][m][k].val
    <3> SUFFICES ASSUME NEW m \in Legs, NEW k \in 1 .. Len(wire'[p][m]),
                        ShouldMultiplex(wire'[p][m][k])
                 PROVE  /\ wire'[p][m][k].val > delivered[e]
                        /\ \A x \in s : x.seq # wire'[p][m][k].val
      OBVIOUS
    <3>1. CellPending(p, wire'[p][m][k]) /\ wire'[p][m][k].val # seq
      BY <1>9, <1>13
    <3>2. wire'[p][m][k].val > delivered[e]
          /\ \A x \in q : x.seq # wire'[p][m][k].val
      BY <1>9, <3>1 DEF CellPending, q
    <3> QED BY <3>1, <3>2
  <2> HIDE DEF s
  <2>5. delivered' = [delivered EXCEPT ![e] = delivered[e]]
    BY <1>17 DEF IInv, TypeOK
  <2>6. delivered[e] <= nsent[p]
    BY <1>9
  <2>7. \A f \in End : WireCells(f)' /\ QueuedCells(f)'
    BY <1>9, <1>14, <2>1, <2>2, <2>3, <2>4, <2>5, <2>6
  <2>8. InOrder'
    BY <1>17 DEF IInv, SequenceInv, InOrder
  <2>9. TypeOK'
    <3>1. ooo' \in [End -> SUBSET [seq : Nat, cell : Nat]]
      BY <2>1, <2>2 DEF IInv, TypeOK
    <3> QED BY <1>3, <1>5, <1>10, <1>17, <3>1 DEF IInv, TypeOK, Take
  <2>10. \A f \in End : SenderCounts(f)'
    BY <1>5, <1>17 DEF IInv, SequenceInv, SenderCounts
  <2> QED BY <1>7, <1>8, <2>7, <2>8, <2>9, <2>10 DEF IInv, SequenceInv
\* The cell cannot be kept: its circuit closes.
<1>18. ASSUME CloseLegs(e, ClosedWith(e, l, seq)),
              UNCHANGED <<ooo, delivered, out>>
       PROVE  IInv'
  <2>3. TypeOK'
    BY <1>3, <1>5, <1>10, <1>18, <1>15 DEF IInv, TypeOK, Take
  <2>4. \A f \in End : SenderCounts(f)'
    BY <1>18, <1>15
  <2>5. InOrder'
    BY <1>18 DEF IInv, SequenceInv, InOrder
  <2>6. /\ delivered' = [delivered EXCEPT ![e] = delivered[e]]
        /\ ooo' = [ooo EXCEPT ![e] = q]
    BY <1>18 DEF IInv, TypeOK, q
  <2>7. \A f \in End, m \in Legs : \A k \in 1 .. Len(wire'[f][m]) :
          f = p /\ ShouldMultiplex(wire'[f][m][k]) =>
            /\ wire'[f][m][k].val > delivered[e]
            /\ \A x \in q : x.seq # wire'[f][m][k].val
    BY <1>9, <1>13 DEF CellPending, q
  <2>8. delivered[e] <= nsent[p]
    BY <1>9
  <2>9. \A f \in End : WireCells(f)' /\ QueuedCells(f)'
    BY <1>9, <1>11, <1>14, <2>6, <2>7, <2>8
  <2> QED BY <1>7, <1>8, <2>3, <2>4, <2>5, <2>9 DEF IInv, SequenceInv
<1> QED BY <1>16, <1>17, <1>18 DEF ReceiveCell, c, seq, q

-----------------------------------------------------------------------------
(* Sending.                                                                 *)

\* Two sequences put one after the other.
LEMMA AppendOne ==
  ASSUME NEW S, NEW w \in Seq(S), NEW c \in S
  PROVE  /\ w \o << c >> \in Seq(S) /\ Len(w \o << c >>) = Len(w) + 1
         /\ \A i \in 1 .. Len(w) : (w \o << c >>)[i] = w[i]
         /\ (w \o << c >>)[Len(w) + 1] = c
OBVIOUS

\* Wire w, sent up to number s, becomes v by sending cell number n + 1,
\* whatever else with it.
Continues(r, w, s, n, v) ==
  /\ v \in Seq(Cell)
  /\ WireCoherent(r, w) /\ CountAfter(r, w) = s
       => WireCoherent(r, v) /\ CountAfter(r, v) = n + 1
  /\ \A i \in 1 .. Len(v) :
       \/ i \in 1 .. Len(w) /\ v[i] = w[i]
       \/ ~ShouldMultiplex(v[i])
       \/ i = Len(v) /\ v[i].val = n + 1 /\ v[i].abs = n + 1

\* What goes out on the current leg continues its count.
LEMMA SendStay ==
  ASSUME NEW r \in Nat, NEW w \in Seq(Cell), NEW n \in Nat,
         NEW cell \in Cell, ShouldMultiplex(cell),
         cell.val = n + 1, cell.abs = n + 1
  PROVE  Continues(r, w, n, n, w \o << cell >>)
<1> DEFINE v == w \o << cell >>
<1>1. Advance(cell) = 1
  BY DEF Advance
<1>2. ASSUME WireCoherent(r, w), CountAfter(r, w) = n
      PROVE  WireCoherent(r, v) /\ CountAfter(r, v) = n + 1
  BY <1>1, <1>2, CoherentAppend
<1>3. /\ v \in Seq(Cell) /\ Len(v) = Len(w) + 1 /\ v[Len(v)] = cell
      /\ \A i \in 1 .. Len(w) : v[i] = w[i]
  BY AppendOne
<1> HIDE DEF v
<1>4. \A i \in 1 .. Len(v) : i \in 1 .. Len(w) \/ i = Len(v)
  BY <1>3
<1> QED BY <1>2, <1>3, <1>4 DEF v, Continues

\* On another leg the SWITCH first brings the count up to the current leg's.
LEMMA SendSwitch ==
  ASSUME NEW r \in Nat, NEW w \in Seq(Cell),
         NEW n \in Nat, NEW s \in Nat, s <= n,
         NEW cell \in Cell, ShouldMultiplex(cell),
         cell.val = n + 1, cell.abs = n + 1,
         NEW switch \in Cell, switch.kind = "switch",
         switch.val = n - s, switch.abs = n
  PROVE  Continues(r, w, s, n, w \o (<< switch >> \o << cell >>))
<1> DEFINE u == w \o << switch >>
           v == u \o << cell >>
<1>1. ~ShouldMultiplex(switch) /\ Advance(switch) = n - s
  BY DEF Advance, ShouldMultiplex, Multiplexed
<1>2. ASSUME WireCoherent(r, w), CountAfter(r, w) = s
      PROVE  WireCoherent(r, u) /\ CountAfter(r, u) = n
  BY <1>1, <1>2, CoherentAppend
<1>3. /\ u \in Seq(Cell) /\ Len(u) = Len(w) + 1 /\ u[Len(w) + 1] = switch
      /\ \A i \in 1 .. Len(w) : u[i] = w[i]
  BY AppendOne
<1>4. v = w \o (<< switch >> \o << cell >>)
  BY ConcatAssociative
<1> HIDE DEF u
<1>5. Continues(r, u, n, n, v)
  BY <1>3, SendStay
<1> HIDE DEF v
<1>6. \A i \in 1 .. Len(u) : \/ i \in 1 .. Len(w) /\ u[i] = w[i]
                             \/ u[i] = switch
  <2> SUFFICES ASSUME NEW i \in 1 .. Len(u)
               PROVE  \/ i \in 1 .. Len(w) /\ u[i] = w[i]
                      \/ u[i] = switch
    OBVIOUS
  <2>1. i \in 1 .. Len(w) \/ i = Len(w) + 1
    BY <1>3
  <2> QED BY <1>3, <2>1
<1>7. \A i \in 1 .. Len(v) :
        \/ i \in 1 .. Len(w) /\ v[i] = w[i]
        \/ ~ShouldMultiplex(v[i])
        \/ i = Len(v) /\ v[i].val = n + 1 /\ v[i].abs = n + 1
  BY <1>1, <1>5, <1>6 DEF Continues
<1> QED BY <1>2, <1>4, <1>5, <1>7 DEF Continues

\* The leg a cell would go out on has the count of all cells sent.
LEMMA BaseCounts ==
  ASSUME IInv, NEW e \in End, NEW base \in Legs, base \in CurrentLegs(e)
  PROVE  lastSent[e][base] = nsent[e]
<1>1. SenderCounts(e) /\ lastSent[e][base] \in Nat /\ nsent[e] \in Nat
  BY DEF IInv, TypeOK, SequenceInv
<1>2. CASE curr[e] = NoLeg
  BY <1>1, <1>2 DEF CurrentLegs, SenderCounts
<1>3. CASE curr[e] # NoLeg
  BY <1>1, <1>3 DEF CurrentLegs, SenderCounts
<1> QED BY <1>2, <1>3

\* conflux_decide_circ_for_send, for the first cell.
LEMMA PickFirstLegStep ==
  ASSUME IInv, NEW e \in End, NEW l \in Legs, PickFirstLeg(e, l)
  PROVE  IInv'
<1>1. /\ curr[e] = NoLeg /\ l \in legs[e] /\ curr' = [curr EXCEPT ![e] = l]
      /\ UNCHANGED <<legs, lastSent, lastRecv, inflight, unacked, delivered, ooo,
                     wire, dead, nsent, out>>
  BY DEF PickFirstLeg
<1>2. TypeOK'
  BY <1>1 DEF IInv, TypeOK
<1>3. \A f \in End : SenderCounts(f)'
  <2>1. lastSent[e][l] = nsent[e]
    BY <1>1, BaseCounts DEF CurrentLegs
  <2> QED BY <1>1, <2>1, LegsAssumption
          DEF IInv, TypeOK, SequenceInv, SenderCounts
<1>4. \A f \in End, m \in Legs : LegCoherent(f, m)'
  BY <1>1 DEF IInv, SequenceInv, LegCoherent
<1>5. \A f \in End : WireCells(f)' /\ WireUnique(f)' /\ QueuedCells(f)'
  BY <1>1 DEF IInv, SequenceInv, WireCells, CellPending, WireUnique, QueuedCells
<1>6. InOrder'
  BY <1>1 DEF IInv, SequenceInv, InOrder
<1> QED BY <1>2, <1>3, <1>4, <1>5, <1>6 DEF IInv, SequenceInv

\* A cell goes out on the leg that was decided on.
LEMMA TransmitStep ==
  ASSUME IInv, NEW e \in End, NEW kind \in Multiplexed,
         NEW base \in Legs, NEW l \in Legs,
         base \in CurrentLegs(e), l \in legs[e], Transmit(e, kind, base, l),
         UNCHANGED <<legs, dead, lastRecv, unacked, delivered, ooo, out>>
  PROVE  IInv'
<1> DEFINE p == Peer(e)
           w == wire[e][l]
           n == nsent[e]
           s == lastSent[e][l]
           r == lastRecv[p][l]
           cell == [kind |-> kind, val |-> n + 1, abs |-> n + 1]
           switch == [kind |-> "switch", val |-> n - s, abs |-> n]
           v == w \o ((IF l = base THEN <<>> ELSE << switch >>) \o << cell >>)
<1>1. lastSent[e][base] = n
  BY BaseCounts
<1>2. p \in End /\ Peer(p) = e /\ w \in Seq(Cell) /\ n \in Nat /\ s \in Nat
      /\ r \in Nat /\ s <= n
  BY PeerFacts DEF IInv, TypeOK, SequenceInv, SenderCounts
<1>3. wire' = [wire EXCEPT ![e][l] = IF dead[e][l] THEN w ELSE v]
  BY <1>1 DEF Transmit, Push, Relative
<1>4. /\ lastSent' = [lastSent EXCEPT ![e][l] = n + 1]
      /\ curr' = [curr EXCEPT ![e] = l]
      /\ nsent' = [nsent EXCEPT ![e] = n + 1]
      /\ inflight' = [inflight EXCEPT
                        ![e][l] = IF kind = "data" THEN @ + 1 ELSE @]
  BY <1>1 DEF Transmit
<1>5. ~dead[e][l] =>
        wire' = [wire EXCEPT ![e][l] = v] /\ Continues(r, w, s, n, v)
  <2> SUFFICES ASSUME ~dead[e][l]
               PROVE  wire' = [wire EXCEPT ![e][l] = v] /\ Continues(r, w, s, n, v)
    OBVIOUS
  <2>2. cell \in Cell /\ ShouldMultiplex(cell) /\ cell.val = n + 1
        /\ cell.abs = n + 1
    BY <1>2 DEF Cell, ShouldMultiplex, Multiplexed
  <2>3. switch \in Cell /\ switch.kind = "switch" /\ switch.val = n - s
        /\ switch.abs = n
    BY <1>2 DEF Cell, Multiplexed
  <2>4. wire' = [wire EXCEPT ![e][l] = v]
    BY <1>3
  <2>5. l = base => s = n
    BY <1>1
  <2> HIDE DEF n, s, w, r, p, cell, switch
  <2>6. CASE l = base
    <3>1. <<>> \o << cell >> = << cell >>
      BY <2>2
    <3>2. v = w \o << cell >>
      BY <2>6, <3>1
    <3> HIDE DEF v
    <3> QED BY <1>2, <2>2, <2>4, <2>5, <2>6, <3>2, SendStay
  <2>7. CASE l # base
    <3> DEFINE x == w \o (<< switch >> \o << cell >>)
    <3>1. v = x
      BY <2>7
    <3> HIDE DEF v
    <3>3. Continues(r, w, s, n, x)
      BY <1>2, <2>2, <2>3, SendSwitch
    <3> HIDE DEF x
    <3> QED BY <2>4, <3>1, <3>3
  <2> QED BY <2>6, <2>7
<1>6. dead[e][l] => wire' = wire
  BY <1>2, <1>3 DEF IInv, TypeOK
<1> HIDE DEF p, w, n, s, r, v, cell, switch
\* Where the cells of every wire come from.
<1>7. ASSUME NEW f \in End, NEW m \in Legs
      PROVE  /\ wire'[f][m] \in Seq(Cell)
             /\ (f # e \/ m # l \/ dead[e][l]) => wire'[f][m] = wire[f][m]
             /\ (f = e /\ m = l /\ ~dead[e][l]) => wire'[f][m] = v
  <2>1. wire \in [End -> [Legs -> Seq(Cell)]]
    BY DEF IInv, TypeOK
  <2>2. CASE dead[e][l]
    BY <1>6, <2>1, <2>2
  <2>3. CASE ~dead[e][l]
    BY <1>5, <2>1, <2>3 DEF Continues
  <2> QED BY <2>2, <2>3
<1>8. ASSUME NEW f \in End, NEW m \in Legs, NEW i \in 1 .. Len(wire'[f][m]),
             ShouldMultiplex(wire'[f][m][i])
      PROVE  \/ i \in 1 .. Len(wire[f][m]) /\ wire'[f][m][i] = wire[f][m][i]
             \/ /\ f = e /\ m = l /\ i = Len(wire'[f][m])
                /\ wire'[f][m][i].val = n + 1 /\ wire'[f][m][i].abs = n + 1
  <2>1. CASE f # e \/ m # l \/ dead[e][l]
    BY <1>7, <1>8, <2>1
  <2>2. CASE f = e /\ m = l /\ ~dead[e][l]
    BY <1>5, <1>7, <1>8, <2>2 DEF w, Continues
  <2> QED BY <2>1, <2>2
<1>9. /\ nsent'[e] = n + 1 /\ \A f \in End : f # e => nsent'[f] = nsent[f]
      /\ nsent' \in [End -> Nat] /\ nsent \in [End -> Nat] /\ n = nsent[e]
  <2>1. n = nsent[e] /\ nsent \in [End -> Nat] /\ n + 1 \in Nat
    <3>1. n + 1 \in Nat
      BY <1>2
    <3>2. n = nsent[e] /\ nsent \in [End -> Nat]
      BY DEF IInv, TypeOK, n
    <3> QED BY <3>1, <3>2
  <2> QED BY <1>4, <2>1
<1>10. TypeOK'
  <2>1. wire' \in [End -> [Legs -> Seq(Cell)]]
    <3>1. CASE dead[e][l]
      BY <1>6, <3>1 DEF IInv, TypeOK
    <3>2. CASE ~dead[e][l]
      <4>1. wire' = [wire EXCEPT ![e][l] = v] /\ v \in Seq(Cell)
        BY <1>5, <3>2 DEF Continues
      <4> QED BY <4>1 DEF IInv, TypeOK
    <3> QED BY <3>1, <3>2
  <2>2. lastSent' \in [End -> [Legs -> Nat]]
    <3>1. n + 1 \in Nat /\ lastSent \in [End -> [Legs -> Nat]]
      BY <1>2 DEF IInv, TypeOK
    <3> QED BY <1>4, <3>1
  <2>3. inflight' \in [End -> [Legs -> Int]]
    BY <1>4 DEF IInv, TypeOK
  <2>4. curr' \in [End -> Legs \cup {NoLeg}]
    BY <1>4 DEF IInv, TypeOK
  <2> QED BY <1>9, <2>1, <2>2, <2>3, <2>4 DEF IInv, TypeOK
<1>11. ASSUME NEW f \in End, NEW m \in Legs PROVE LegCoherent(f, m)'
  <2>1. LegCoherent(f, m) /\ lastRecv' = lastRecv /\ dead' = dead
    BY DEF IInv, SequenceInv
  <2>2. CASE f = e /\ m = l
    <3>1. CASE dead[e][l]
      BY <1>6, <2>1, <2>2, <3>1 DEF LegCoherent
    <3>2. CASE ~dead[e][l]
      <4>1. lastSent'[e][l] = n + 1
        BY <1>4 DEF IInv, TypeOK
      <4> QED BY <1>5, <1>7, <2>1, <2>2, <3>2, <4>1
              DEF LegCoherent, Continues, r, p, w, s
    <3> QED BY <3>1, <3>2
  <2>3. CASE f # e \/ m # l
    <3>1. lastSent'[f][m] = lastSent[f][m]
      BY <1>4, <2>3 DEF IInv, TypeOK
    <3> QED BY <1>7, <2>1, <2>3, <3>1 DEF LegCoherent
  <2> QED BY <2>2, <2>3
<1>12. ASSUME NEW f \in End PROVE SenderCounts(f)'
  <2>1. SenderCounts(f) /\ NoLeg \notin Legs
    BY LegsAssumption DEF IInv, SequenceInv
  <2>2. CASE f # e
    BY <1>4, <1>9, <2>1, <2>2 DEF SenderCounts, IInv, TypeOK
  <2>3. CASE f = e
    <3>1. lastSent'[e][l] = n + 1 /\ curr'[e] = l
          /\ \A m \in Legs : m # l => lastSent'[e][m] = lastSent[e][m]
          /\ \A k \in Legs : lastSent[e][k] \in Nat
      BY <1>4 DEF IInv, TypeOK
    <3>2. \A m \in Legs : lastSent'[e][m] <= n + 1
      BY <1>2, <1>9, <2>1, <2>3, <3>1 DEF SenderCounts
    <3> QED BY <1>9, <2>1, <2>3, <3>1, <3>2 DEF SenderCounts
  <2> QED BY <2>2, <2>3
<1>13. \A f \in End : QueuedCells(f)'
  <2> SUFFICES ASSUME NEW f \in End PROVE QueuedCells(f)'
    OBVIOUS
  <2>1. QueuedCells(f) /\ Peer(f) \in End /\ delivered[f] \in Nat
        /\ ooo[f] \in SUBSET [seq : Nat, cell : Nat]
    BY PeerFacts DEF IInv, TypeOK, SequenceInv
  <2>2. nsent[Peer(f)] <= nsent'[Peer(f)] /\ nsent[Peer(f)] \in Nat
        /\ nsent'[Peer(f)] \in Nat
    BY <1>9, <2>1
  <2> QED BY <2>1, <2>2 DEF QueuedCells
<1>14. ASSUME NEW f \in End, NEW m \in Legs, NEW i \in 1 .. Len(wire[f][m]),
              ShouldMultiplex(wire[f][m][i])
       PROVE  /\ CellPending(f, wire[f][m][i])
              /\ wire[f][m][i].val \in Nat /\ wire[f][m][i].val <= nsent[f]
  <2>1. wire[f][m] \in Seq(Cell)
    BY DEF IInv, TypeOK
  <2>2. wire[f][m][i] \in Cell
    BY <2>1
  <2>3. CellPending(f, wire[f][m][i])
    BY <1>14 DEF IInv, SequenceInv, WireCells
  <2> QED BY <2>2, <2>3 DEF CellPending, Cell
<1>15. ASSUME NEW f \in End PROVE WireCells(f)'
  <2> SUFFICES ASSUME NEW m \in Legs, NEW i \in 1 .. Len(wire'[f][m]),
                      ShouldMultiplex(wire'[f][m][i])
               PROVE  CellPending(f, wire[f][m][i])'
    BY DEF WireCells, ShouldMultiplex
  <2> DEFINE c == wire'[f][m][i]
  <2>1. nsent[f] \in Nat /\ nsent'[f] \in Nat /\ nsent[f] <= nsent'[f]
    BY <1>9
  <2>2. CASE i \in 1 .. Len(wire[f][m]) /\ c = wire[f][m][i]
    <3>1. CellPending(f, c) /\ c.val \in Nat
      BY <1>14, <2>2
    <3> QED BY <2>1, <3>1 DEF CellPending
  <2>3. CASE f = e /\ c.val = n + 1 /\ c.abs = n + 1
    <3>1. QueuedCells(p) /\ delivered[p] \in Nat
          /\ ooo[p] \in SUBSET [seq : Nat, cell : Nat]
      BY <1>2 DEF IInv, TypeOK, SequenceInv
    <3>2. n + 1 > delivered[p] /\ \A x \in ooo[p] : x.seq # n + 1
      BY <1>2, <1>9, <3>1 DEF QueuedCells
    <3> QED BY <1>2, <1>9, <2>3, <3>2 DEF CellPending, p
  <2> QED BY <1>8, <2>2, <2>3
<1>16. ASSUME NEW f \in End PROVE WireUnique(f)'
  <2> SUFFICES ASSUME NEW m \in Legs, NEW k \in Legs,
                      NEW i \in 1 .. Len(wire'[f][m]),
                      NEW j \in 1 .. Len(wire'[f][k]),
                      ShouldMultiplex(wire'[f][m][i]),
                      ShouldMultiplex(wire'[f][k][j]),
                      wire'[f][m][i].val = wire'[f][k][j].val
               PROVE  m = k /\ i = j
    BY DEF WireUnique, ShouldMultiplex
  <2>1. CASE /\ i \in 1 .. Len(wire[f][m]) /\ wire'[f][m][i] = wire[f][m][i]
             /\ j \in 1 .. Len(wire[f][k]) /\ wire'[f][k][j] = wire[f][k][j]
    BY <2>1 DEF IInv, SequenceInv, WireUnique
  <2>2. CASE /\ i \in 1 .. Len(wire[f][m]) /\ wire'[f][m][i] = wire[f][m][i]
             /\ f = e /\ wire'[f][k][j].val = n + 1
    <3>1. wire[f][m][i].val \in Nat /\ wire[f][m][i].val <= n
      BY <1>9, <1>14, <2>2
    <3> QED BY <1>2, <2>2, <3>1
  <2>3. CASE /\ j \in 1 .. Len(wire[f][k]) /\ wire'[f][k][j] = wire[f][k][j]
             /\ f = e /\ wire'[f][m][i].val = n + 1
    <3>1. wire[f][k][j].val \in Nat /\ wire[f][k][j].val <= n
      BY <1>9, <1>14, <2>3
    <3> QED BY <1>2, <2>3, <3>1
  <2>4. CASE /\ f = e /\ m = l /\ i = Len(wire'[f][m])
             /\ k = l /\ j = Len(wire'[f][k])
    BY <2>4
  <2> QED BY <1>8, <2>1, <2>2, <2>3, <2>4
<1>17. InOrder'
  BY DEF IInv, SequenceInv, InOrder
<1> QED BY <1>10, <1>11, <1>12, <1>13, <1>15, <1>16, <1>17 DEF IInv, SequenceInv

\* A multiplexed cell is sent, with the SWITCH before it if the leg changes.
LEMMA SendCellStep ==
  ASSUME IInv, NEW e \in End, NEW kind \in Multiplexed,
         NEW base \in Legs, NEW l \in Legs, SendCell(e, kind, base, l)
  PROVE  IInv'
<1>1. CASE l # base /\ SwitchFails(e, base, l)
  <2>1. /\ CloseLegs(e, legs[e])
        /\ UNCHANGED <<lastSent, lastRecv, inflight, unacked, delivered, ooo,
                       wire, nsent, out>>
    BY <1>1 DEF SendCell
  <2>2. legs[e] \in SUBSET Legs
    BY DEF IInv, TypeOK
  <2> QED BY <2>1, <2>2, CloseStep
<1>2. CASE ~(l # base /\ SwitchFails(e, base, l))
  <2>1. /\ base \in CurrentLegs(e) /\ l \in legs[e] /\ Transmit(e, kind, base, l)
        /\ UNCHANGED <<legs, dead, lastRecv, unacked, delivered, ooo, out>>
    BY <1>2 DEF SendCell, CanSendOn
  <2> QED BY <2>1, TransmitStep
<1> QED BY <1>1, <1>2

-----------------------------------------------------------------------------
(* The theorems.                                                            *)

\* Every step preserves the invariant.
LEMMA NextIInv == IInv /\ [Next]_vars => IInv'
<1> SUFFICES ASSUME IInv, [Next]_vars PROVE IInv'
  OBVIOUS
<1>1. CASE UNCHANGED vars
  <2>1. UNCHANGED <<legs, curr, lastSent, lastRecv, inflight, unacked, delivered,
                    ooo, wire, dead, nsent, out>>
    BY <1>1 DEF vars
  <2>2. TypeOK'
    BY <2>1 DEF IInv, TypeOK
  <2>3. \A e \in End, l \in Legs : LegCoherent(e, l)'
    BY <2>1 DEF IInv, SequenceInv, LegCoherent
  <2>4. \A e \in End : SenderCounts(e)' /\ QueuedCells(e)'
    BY <2>1 DEF IInv, SequenceInv, SenderCounts, QueuedCells
  <2>5. \A e \in End : WireCells(e)' /\ WireUnique(e)'
    BY <2>1 DEF IInv, SequenceInv, WireCells, CellPending, WireUnique
  <2>6. InOrder'
    BY <2>1 DEF IInv, SequenceInv, InOrder
  <2> QED BY <2>2, <2>3, <2>4, <2>5, <2>6 DEF IInv, SequenceInv
<1>2. ASSUME NEW e \in End, NEW kind \in Multiplexed, NEW base \in Legs,
             NEW l \in Legs, SendCell(e, kind, base, l)
      PROVE  IInv'
  BY <1>2, SendCellStep
<1>3. ASSUME NEW e \in End, NEW l \in Legs, Receive(e, l)
      PROVE  IInv'
  BY <1>3, ReceiveCellStep, ReceiveSwitchStep, ReceiveSendmeStep,
     MarkForCloseStep DEF Receive, ReceiveDestroy
<1>4. ASSUME NEW e \in End, NEW l \in Legs,
             PickFirstLeg(e, l) \/ MarkForClose(e, l) \/ DropTail(e, l)
      PROVE  IInv'
  BY <1>4, PickFirstLegStep, MarkForCloseStep, DropTailStep
<1>5. ASSUME NEW l \in Legs, RelayFails(l)
      PROVE  IInv'
  BY <1>5, RelayFailsStep
<1> QED BY <1>1, <1>2, <1>3, <1>4, <1>5 DEF Next

\* Whatever the legs do, the state keeps its types and the sequence numbers
\* of the two ends stay coherent.
THEOREM Invariance == Spec => []IInv
BY InitIInv, NextIInv, PTL DEF Spec

\* The state of both ends keeps its types, whatever is sent, lost or closed;
\* in particular cc->sendme counts stay below sendme_inc.
THEOREM TypeCorrect == Spec => []TypeOK
BY Invariance, PTL DEF IInv

\* The numbers the two ends keep for every leg stay coherent.
THEOREM SequenceCoherent == Spec => []SequenceInv
BY Invariance, PTL DEF IInv

\* What the invariant says of the cells handed over and still to come.
LEMMA InvariantSuffices == IInv => InOrder /\ NoStaleCell /\ CurrentLegLeads
<1>1. IInv => InOrder
  BY DEF IInv, SequenceInv
<1>2. IInv => NoStaleCell
  <2> SUFFICES ASSUME IInv, NEW e \in End, NEW l \in Legs,
                      HasCell(e, l, Multiplexed)
               PROVE  lastRecv[e][l] + 1 > delivered[e]
    BY DEF NoStaleCell
  <2> DEFINE c == Head(Arriving(e, l))
  <2>1. c.val = lastRecv[e][l] + 1 /\ CellPending(Peer(e), c)
    BY HeadFacts
  <2> HIDE DEF c
  <2> QED BY <2>1, PeerFacts DEF CellPending
<1>3. IInv => CurrentLegLeads
  BY DEF IInv, TypeOK, SequenceInv, SenderCounts, CurrentLegLeads
<1> QED BY <1>1, <1>2, <1>3

\* conflux_process_relay_msg and the dequeue loop hand the streams the cells
\* of the other end in order, each once.
THEOREM DeliveredInOrder == Spec => []InOrder
BY InvariantSuffices, Invariance, PTL

\* The branch of conflux_process_relay_msg for a cell below
\* last_seq_delivered is dead between two correct ends.
THEOREM NeverStale == Spec => []NoStaleCell
BY InvariantSuffices, Invariance, PTL

\* conflux_decide_circ_for_send never finds the previous leg behind the new
\* one, so the relative number of a SWITCH is never negative.
THEOREM SwitchNeverNegative == Spec => []CurrentLegLeads
BY InvariantSuffices, Invariance, PTL

-----------------------------------------------------------------------------
(* Refinement of ConfluxService.                                            *)

\* A sequence that counts is any shorter one continued.
LEMMA CountingSplit ==
  ASSUME NEW a \in Seq(Nat), NEW b \in Seq(Nat), Len(a) <= Len(b),
         \A k \in 1 .. Len(a) : a[k] = k,
         \A k \in 1 .. Len(b) : b[k] = k
  PROVE  b = a \o [k \in 1 .. Len(b) - Len(a) |-> Len(a) + k]
<1> DEFINE x == [k \in 1 .. Len(b) - Len(a) |-> Len(a) + k]
<1>1. Len(b) - Len(a) \in Nat /\ Len(a) \in Nat /\ Len(b) \in Nat
  OBVIOUS
<1>2. x \in Seq(Nat) /\ Len(x) = Len(b) - Len(a)
      /\ \A k \in 1 .. Len(x) : x[k] = Len(a) + k
  BY <1>1
<1> HIDE DEF x
<1>3. /\ a \o x \in Seq(Nat) /\ Len(a \o x) = Len(b)
      /\ \A k \in 1 .. Len(b) : (a \o x)[k] = k
  BY <1>1, <1>2, CountingConcat
<1>4. b = a \o x
  BY <1>3, SeqEqual
<1> QED BY <1>4 DEF x

\* Every step sends one cell, or only appends to what one end has been handed.
LEMMA StepEffect ==
  ASSUME IInv, Next
  PROVE  \/ UNCHANGED <<nsent, out>>
         \/ \E e \in End : nsent' = [nsent EXCEPT ![e] = @ + 1] /\ out' = out
         \/ /\ nsent' = nsent
            /\ \E e \in End : /\ delivered'[e] > delivered[e]
                              /\ \E x : out' = [out EXCEPT ![e] = x]
<1>1. ASSUME NEW e \in End, NEW kind \in Multiplexed, NEW base \in Legs,
             NEW l \in Legs, SendCell(e, kind, base, l)
      PROVE  \/ UNCHANGED <<nsent, out>>
             \/ nsent' = [nsent EXCEPT ![e] = @ + 1] /\ out' = out
  BY <1>1 DEF SendCell, Transmit
<1>2. ASSUME NEW e \in End, NEW l \in Legs, ReceiveCell(e, l)
      PROVE  \/ UNCHANGED <<nsent, out>>
             \/ /\ nsent' = nsent /\ delivered'[e] > delivered[e]
                /\ \E x : out' = [out EXCEPT ![e] = x]
  <2> DEFINE seq == lastRecv[e][l] + 1
             n == DrainedTo(ooo[e], seq)
  <2>1. nsent' = nsent
    BY <1>2 DEF ReceiveCell
  <2>2. \/ out' = out
        \/ /\ seq = delivered[e] + 1
           /\ \E last \in seq .. n : /\ delivered' = [delivered EXCEPT ![e] = last]
                                     /\ \E x : out' = [out EXCEPT ![e] = x]
    BY <1>2 DEF ReceiveCell
  <2>3. seq \in Nat /\ ooo[e] \in SUBSET [seq : Nat, cell : Nat]
        /\ delivered \in [End -> Nat]
    BY DEF IInv, TypeOK
  <2>4. n \in Nat
    <3>1. nsent[Peer(e)] \in Nat /\ seq <= nsent[Peer(e)]
      BY <1>2, HeadFacts, PeerFacts
         DEF ReceiveCell, CellPending, IInv, TypeOK
    <3>2. \A c \in ooo[e] : c.seq <= nsent[Peer(e)]
      BY DEF IInv, SequenceInv, QueuedCells
    <3> HIDE DEF seq
    <3> QED BY <2>3, <3>1, <3>2, DrainedToFacts
  <2> HIDE DEF seq, n
  <2> QED BY <2>1, <2>2, <2>3, <2>4
<1>3. ASSUME NEW e \in End, NEW l \in Legs,
             \/ PickFirstLeg(e, l) \/ ReceiveSwitch(e, l) \/ ReceiveSendme(e, l)
             \/ ReceiveDestroy(e, l) \/ MarkForClose(e, l) \/ DropTail(e, l)
      PROVE  UNCHANGED <<nsent, out>>
  BY <1>3 DEF PickFirstLeg, ReceiveSwitch, ReceiveSendme, ReceiveDestroy,
              MarkForClose, DropTail
<1>4. ASSUME NEW l \in Legs, RelayFails(l) PROVE UNCHANGED <<nsent, out>>
  BY <1>4 DEF RelayFails
<1>5. ASSUME NEW e \in End, NEW l \in Legs, Receive(e, l)
      PROVE  \/ UNCHANGED <<nsent, out>>
             \/ /\ nsent' = nsent /\ delivered'[e] > delivered[e]
                /\ \E x : out' = [out EXCEPT ![e] = x]
  BY <1>2, <1>3, <1>5 DEF Receive
<1> QED BY <1>1, <1>3, <1>4, <1>5 DEF Next

\* To the streams, a conflux set is the ordered channel of ConfluxService: the
\* two ends start with nothing sent, and every step of the set is a step of
\* the channel or none.
THEOREM Refinement == Spec => ImplementsService
<1>1. Init => Service!Init
  BY DEF Init, Service!Init, End, Service!End
<1>2. IInv /\ IInv' /\ [Next]_vars => [Service!Next]_<<nsent, out>>
  <2> SUFFICES ASSUME IInv, IInv', [Next]_vars
               PROVE  Service!Next \/ UNCHANGED <<nsent, out>>
    OBVIOUS
  <2>1. CASE UNCHANGED vars
    BY <2>1 DEF vars
  <2>2. ASSUME NEW e \in End, nsent' = [nsent EXCEPT ![e] = @ + 1], out' = out
        PROVE  Service!Next
    BY <2>2 DEF Service!Next, Service!Send, Service!End, End
  <2>3. ASSUME nsent' = nsent, NEW e \in End, delivered'[e] > delivered[e],
               NEW x, out' = [out EXCEPT ![e] = x]
        PROVE  Service!Next
    <3> DEFINE p == Peer(e)
               n == Len(x) - Len(out[e])
    <3>1. out \in [End -> Seq(Nat)] /\ out' \in [End -> Seq(Nat)] /\ x = out'[e]
      BY <2>3 DEF IInv, TypeOK
    <3>2. /\ Len(out[e]) = delivered[e] /\ delivered[e] \in Nat
          /\ Len(x) = delivered'[e] /\ delivered'[e] \in Nat
          /\ \A k \in 1 .. Len(out[e]) : out[e][k] = k
          /\ \A k \in 1 .. Len(x) : x[k] = k
      BY <3>1 DEF IInv, TypeOK, SequenceInv, InOrder
    <3>3. Len(x) <= nsent[p] /\ nsent[p] \in Nat
      BY <2>3, <3>2, PeerFacts DEF IInv, TypeOK, SequenceInv, QueuedCells
    <3>4. x = out[e] \o [k \in 1 .. n |-> Len(out[e]) + k]
      <4>1. out[e] \in Seq(Nat) /\ x \in Seq(Nat) /\ Len(out[e]) <= Len(x)
        BY <2>3, <3>1, <3>2
      <4> QED BY <3>2, <4>1, CountingSplit
    <3>5. n \in 1 .. nsent[p] /\ Len(out[e]) + n <= nsent[p]
      BY <2>3, <3>2, <3>3
    <3>6. out' = [out EXCEPT ![e] = @ \o [k \in 1 .. n |-> Len(out[e]) + k]]
      BY <2>3, <3>4
    <3>7. Service!Peer(e) = p /\ e \in Service!End
      BY DEF Service!Peer, Peer, Service!End, End
    <3> HIDE DEF n, p
    <3>8. Service!Deliver(e)
      BY <2>3, <3>5, <3>6, <3>7 DEF Service!Deliver
    <3> QED BY <3>7, <3>8 DEF Service!Next
  <2> QED BY <2>1, <2>2, <2>3, StepEffect
<1>3. Service!Init /\ [][Service!Next]_<<nsent, out>> => Service!Spec
  BY DEF Service!Spec
<1> QED BY <1>1, <1>2, <1>3, Invariance, PTL DEF Spec, ImplementsService, Service!Spec

-----------------------------------------------------------------------------
(* The flight.                                                              *)

\* A leg carries finitely many cells of a kind.
LEMMA CarriedType ==
  ASSUME NEW w \in Seq(Cell), NEW kind
  PROVE  /\ IsFiniteSet({i \in 1 .. Len(w) : w[i].kind = kind})
         /\ Carried(w, kind) \in Nat
<1>1. IsFiniteSet(1 .. Len(w))
  BY FS_Interval
<1>2. {i \in 1 .. Len(w) : w[i].kind = kind} \in SUBSET (1 .. Len(w))
  OBVIOUS
<1> QED BY <1>1, <1>2, FS_Subset, FS_CardinalityType DEF Carried

\* A cell that is sent adds one to what its leg carries, anything else nothing.
LEMMA CarriedAppend ==
  ASSUME NEW w \in Seq(Cell), NEW c \in Cell, NEW kind
  PROVE  Carried(w \o << c >>, kind)
           = Carried(w, kind) + (IF c.kind = kind THEN 1 ELSE 0)
<1> DEFINE v == w \o << c >>
           S == {i \in 1 .. Len(w) : w[i].kind = kind}
           T == {i \in 1 .. Len(v) : v[i].kind = kind}
<1>1. /\ Len(v) = Len(w) + 1 /\ v[Len(w) + 1] = c /\ Len(w) \in Nat
      /\ \A i \in 1 .. Len(w) : v[i] = w[i]
  BY AppendOne
<1>2. IsFiniteSet(S) /\ Carried(w, kind) \in Nat /\ Carried(w, kind) = Cardinality(S)
  BY CarriedType DEF Carried
<1>3. Carried(v, kind) = Cardinality(T)
  BY DEF Carried
<1> HIDE DEF v
<1>4. CASE c.kind = kind
  <2> DEFINE z == Len(w) + 1
  <2>1. T = S \cup {z} /\ z \notin S
    BY <1>1, <1>4
  <2> HIDE DEF S, T, z
  <2>2. Cardinality(T) = Cardinality(S) + 1
    BY <1>2, <2>1, FS_AddElement
  <2>3. Carried(v, kind) = Carried(w, kind) + 1
    BY <1>2, <1>3, <2>2
  <2> QED BY <1>4, <2>3 DEF v
<1>5. CASE c.kind # kind
  <2>1. T = S
    BY <1>1, <1>5
  <2> HIDE DEF S, T
  <2> QED BY <1>2, <1>3, <1>5, <2>1 DEF v
<1> QED BY <1>4, <1>5

\* A cell that is received takes one from what its leg carries.
LEMMA CarriedTail ==
  ASSUME NEW w \in Seq(Cell), w # <<>>, NEW kind
  PROVE  Carried(w, kind)
           = Carried(Tail(w), kind) + (IF Head(w).kind = kind THEN 1 ELSE 0)
<1> DEFINE v == Tail(w)
           S == {i \in 1 .. Len(w) : w[i].kind = kind}
           T == {i \in 1 .. Len(v) : v[i].kind = kind}
           f == [i \in T |-> i + 1]
<1>1. /\ v \in Seq(Cell) /\ Len(w) \in Nat /\ Len(w) # 0 /\ Len(v) = Len(w) - 1
      /\ Head(w) = w[1]
      /\ \A i \in 1 .. Len(w) - 1 : v[i] = w[i + 1]
  OBVIOUS
<1>2. /\ IsFiniteSet(S) /\ Carried(w, kind) = Cardinality(S)
      /\ IsFiniteSet(T) /\ Carried(v, kind) = Cardinality(T)
      /\ Carried(w, kind) \in Nat /\ Carried(v, kind) \in Nat
  BY <1>1, CarriedType DEF Carried
<1> HIDE DEF v
<1>3. \A j \in S \ {1} : j - 1 \in T /\ (j - 1) + 1 = j
  <2> SUFFICES ASSUME NEW j \in 1 .. Len(w), w[j].kind = kind, j # 1
               PROVE  j - 1 \in T /\ (j - 1) + 1 = j
    OBVIOUS
  <2>1. j - 1 \in 1 .. Len(w) - 1 /\ (j - 1) + 1 = j
    BY <1>1
  <2>2. v[j - 1] = w[(j - 1) + 1]
    BY <1>1, <2>1
  <2> QED BY <1>1, <2>1, <2>2
<1>4. \A i \in T : i + 1 \in S \ {1} /\ i \in Nat
  BY <1>1
<1> HIDE DEF S, T
<1>5. f \in Bijection(T, S \ {1})
  <2>1. f \in [T -> S \ {1}]
    BY <1>4
  <2>2. \A a, b \in T : f[a] = f[b] => a = b
    BY <1>4
  <2>3. \A j \in S \ {1} : \E i \in T : f[i] = j
    BY <1>3
  <2> HIDE DEF f
  <2> QED BY <2>1, <2>2, <2>3, Fun_IsBij
<1>6. Cardinality(S \ {1}) = Cardinality(T)
  BY <1>2, <1>5, FS_Bijection, Fun_ExistsBij
<1>7. Cardinality(S \ {1}) = IF 1 \in S THEN Cardinality(S) - 1 ELSE Cardinality(S)
  BY <1>2, FS_RemoveElement
<1>8. 1 \in S <=> Head(w).kind = kind
  BY <1>1 DEF S
<1> QED BY <1>2, <1>6, <1>7, <1>8 DEF v

\* A product with one more factor.
LEMMA Distributes ==
  \A k, a \in Nat : /\ k * a \in Nat /\ k * (a + 0) = k * a
                    /\ k * (a + 1) = k * a + k
BY Z3

\* The balance of FlightBalance, for every circuit that is not being closed.
Balanced(e, l) ==
  ~dead[e][l] /\ ~dead[Peer(e)][l] =>
    inflight[e][l] = Carried(wire[e][l], "data") + unacked[Peer(e)][l]
                     + SendmeInc * Carried(wire[Peer(e)][l], "sendme")
FlightInv == \A e \in End, l \in Legs : Balanced(e, l)

\* A leg no step touches stays balanced, and so does one that is closed.
LEMMA FlightFrame ==
  ASSUME IInv, FlightInv, NEW f \in End, NEW m \in Legs,
         ~dead'[f][m] /\ ~dead'[Peer(f)][m] =>
           /\ ~dead[f][m] /\ ~dead[Peer(f)][m]
           /\ inflight'[f][m] = inflight[f][m]
           /\ unacked'[Peer(f)][m] = unacked[Peer(f)][m]
           /\ wire'[f][m] = wire[f][m] /\ wire'[Peer(f)][m] = wire[Peer(f)][m]
  PROVE  Balanced(f, m)'
BY DEF FlightInv, Balanced

\* A DATA cell sent is in flight; a SWITCH or another command is not.
LEMMA FlightTransmit ==
  ASSUME IInv, FlightInv, NEW e \in End, NEW kind \in Multiplexed,
         NEW base \in Legs, NEW l \in Legs,
         base \in CurrentLegs(e), l \in legs[e], Transmit(e, kind, base, l),
         UNCHANGED <<dead, unacked>>
  PROVE  FlightInv'
<1> DEFINE p == Peer(e)
           w == wire[e][l]
           n == lastSent[e][base]
           cell == [kind |-> kind, val |-> nsent[e] + 1, abs |-> n + 1]
           switch == [kind |-> "switch", val |-> n - lastSent[e][l], abs |-> n]
           v == w \o ((IF l = base THEN <<>> ELSE << switch >>) \o << cell >>)
<1>1. p \in End /\ p # e /\ Peer(p) = e /\ w \in Seq(Cell)
  BY PeerFacts DEF IInv, TypeOK
<1>2. cell \in Cell /\ switch \in Cell
  <2>1. lastSent[e][base] = nsent[e] /\ nsent[e] \in Nat /\ lastSent[e][l] \in Nat
        /\ lastSent[e][l] <= nsent[e]
    BY BaseCounts, ZenonT(30) DEF IInv, TypeOK, SequenceInv, SenderCounts
  <2> QED BY <2>1 DEF Cell, Multiplexed
<1>3. /\ Carried(v, "data") = Carried(w, "data") + (IF kind = "data" THEN 1 ELSE 0)
      /\ Carried(v, "sendme") = Carried(w, "sendme")
  <2>1. cell.kind = kind /\ switch.kind = "switch" /\ kind # "sendme"
    BY DEF Multiplexed
  <2> HIDE DEF cell, switch, w
  <2>2. CASE l = base
    <3>1. <<>> \o << cell >> = << cell >>
      BY <1>2
    <3>2. v = w \o << cell >>
      BY <2>2, <3>1
    <3>3. Carried(w, "data") \in Nat /\ Carried(w, "sendme") \in Nat
      BY <1>1, CarriedType
    <3> HIDE DEF v
    <3> QED BY <1>1, <1>2, <2>1, <3>2, <3>3, CarriedAppend
  <2>3. CASE l # base
    <3> DEFINE u == w \o << switch >>
    <3>1. v = u \o << cell >>
      BY <1>1, <1>2, <2>3, ConcatAssociative
    <3>2. u \in Seq(Cell)
      BY <1>1, <1>2, AppendOne
    <3>3. /\ Carried(w, "data") \in Nat /\ Carried(w, "sendme") \in Nat
          /\ Carried(u, "data") = Carried(w, "data")
          /\ Carried(u, "sendme") = Carried(w, "sendme")
      <4>1. Carried(w, "data") \in Nat /\ Carried(w, "sendme") \in Nat
        BY <1>1, CarriedType
      <4>2. \A k \in {"data", "sendme"} :
              Carried(u, k) = Carried(w, k) + (IF switch.kind = k THEN 1 ELSE 0)
        BY <1>1, <1>2, CarriedAppend
      <4> HIDE DEF u
      <4> QED BY <2>1, <4>1, <4>2
    <3> HIDE DEF u, v
    <3> QED BY <1>2, <2>1, <3>1, <3>2, <3>3, CarriedAppend
  <2> QED BY <2>2, <2>3
<1>4. wire' = [wire EXCEPT ![e][l] = IF dead[e][l] THEN w ELSE v]
  BY DEF Transmit, Push, Relative
<1>5. inflight' = [inflight EXCEPT ![e][l] = IF kind = "data" THEN @ + 1 ELSE @]
  BY DEF Transmit
<1>6. /\ wire \in [End -> [Legs -> Seq(Cell)]]
      /\ inflight \in [End -> [Legs -> Int]]
      /\ unacked[e][l] \in Nat /\ unacked[p][l] \in Nat /\ SendmeInc \in Nat
  <2>1. /\ unacked \in [End -> [Legs -> 0 .. SendmeInc - 1]]
        /\ SendmeInc \in Nat
    BY NumbersAssumption DEF IInv, TypeOK
  <2>2. 0 .. SendmeInc - 1 \subseteq Nat
    BY <2>1
  <2>3. unacked[e][l] \in 0 .. SendmeInc - 1 /\ unacked[p][l] \in 0 .. SendmeInc - 1
    BY <1>1, <2>1
  <2> QED BY <2>1, <2>2, <2>3 DEF IInv, TypeOK
<1> HIDE DEF p, v, n
<1> SUFFICES ASSUME NEW f \in End, NEW m \in Legs PROVE Balanced(f, m)'
  BY DEF FlightInv
<1>7. CASE m # l \/ dead[e][l]
  <2>1. ~dead'[f][m] /\ ~dead'[Peer(f)][m] =>
          /\ m # l /\ ~dead[f][m] /\ ~dead[Peer(f)][m]
    BY <1>1, <1>7 DEF End, Peer, p
  <2>2. m # l => /\ inflight'[f][m] = inflight[f][m] /\ wire'[f][m] = wire[f][m]
                 /\ wire'[Peer(f)][m] = wire[Peer(f)][m]
    BY <1>4, <1>5, <1>6, PeerFacts
  <2> QED BY <2>1, <2>2, FlightFrame
<1>8. CASE m = l /\ ~dead[e][l]
  <2>1. wire'[e][l] = v /\ wire'[p][l] = wire[p][l]
    BY <1>1, <1>4, <1>6, <1>8
  <2>2. /\ inflight'[e][l] = inflight[e][l] + (IF kind = "data" THEN 1 ELSE 0)
        /\ inflight'[p][l] = inflight[p][l]
        /\ inflight[e][l] \in Int
    BY <1>1, <1>5, <1>6, SMTT(30)
  <2>3. /\ Carried(w, "data") \in Nat /\ Carried(w, "sendme") \in Nat
        /\ Carried(wire[p][l], "sendme") \in Nat
    BY <1>1, <1>6, CarriedType
  <2>4. CASE f = e
    <3> DEFINE k == SendmeInc * Carried(wire[p][l], "sendme")
               d == Carried(w, "data")
               q == unacked[p][l]
               i == inflight[e][l]
    <3>1. k \in Int
      BY <1>6, <2>3
    <3>2. ~dead[p][l] => i = d + q + k
      BY <1>8 DEF FlightInv, Balanced, p
    <3>3. d \in Nat /\ q \in Nat /\ i \in Int
      BY <1>6, <2>2, <2>3
    <3>4. /\ inflight'[e][l] = i + (IF kind = "data" THEN 1 ELSE 0)
          /\ Carried(v, "data") = d + (IF kind = "data" THEN 1 ELSE 0)
      BY <1>3, <2>2
    <3> HIDE DEF k, w, d, q, i
    <3>5. ~dead[p][l] => inflight'[e][l] = Carried(v, "data") + q + k
      BY <3>1, <3>2, <3>3, <3>4
    <3> QED BY <1>8, <2>1, <2>4, <3>5 DEF Balanced, p, k, q
  <2>5. CASE f = p
    <3>1. Balanced(p, l)
      BY <1>1 DEF FlightInv
    <3> QED BY <1>1, <1>3, <1>8, <2>1, <2>2, <2>5, <3>1 DEF Balanced
  <2> QED BY <1>1, <2>4, <2>5 DEF End, Peer, p
<1> QED BY <1>7, <1>8

\* A DATA cell received counts towards the next SENDME, or is in it.
LEMMA FlightReceive ==
  ASSUME IInv, FlightInv, NEW e \in End, NEW l \in Legs, NEW kind,
         HasCell(e, l, Multiplexed), kind = Head(Arriving(e, l)).kind,
         Acknowledge(e, l, kind), inflight' = inflight,
         \A f \in End, m \in Legs : ~dead'[f][m] => ~dead[f][m]
  PROVE  FlightInv'
<1> DEFINE p == Peer(e)
           w == wire[e][l]
           x == wire[p][l]
           due == kind = "data" /\ unacked[e][l] + 1 = SendmeInc
           ack == [kind |-> "sendme", val |-> 0, abs |-> lastSent[e][l]]
           u == IF due THEN 0
                ELSE IF kind = "data" THEN unacked[e][l] + 1 ELSE unacked[e][l]
           v == IF due THEN Push(e, l, << ack >>) ELSE w
<1>1. p \in End /\ p # e /\ Peer(p) = e /\ w \in Seq(Cell) /\ x \in Seq(Cell)
      /\ x # <<>> /\ Head(x).kind = kind /\ kind \in Multiplexed
  BY PeerFacts DEF IInv, TypeOK, HasCell, Arriving
<1>2. /\ unacked \in [End -> [Legs -> 0 .. SendmeInc - 1]]
      /\ inflight \in [End -> [Legs -> Int]]
      /\ wire \in [End -> [Legs -> Seq(Cell)]]
      /\ SendmeInc \in Nat /\ SendmeInc > 0
  BY NumbersAssumption DEF IInv, TypeOK
<1>3. unacked' = [unacked EXCEPT ![e][l] = u]
      /\ wire' = [wire EXCEPT ![p][l] = Tail(x), ![e][l] = v]
  BY PeerFacts DEF Acknowledge, IInv, TypeOK
<1>4. ack \in Cell
  BY DEF Cell, IInv, TypeOK
<1> HIDE DEF p, u, v
<1>5. /\ wire'[p][l] = Tail(x) /\ wire'[e][l] = v
      /\ \A f \in End, m \in Legs : m # l => wire'[f][m] = wire[f][m]
      /\ unacked'[e][l] = u /\ unacked'[p][l] = unacked[p][l]
      /\ \A f \in End, m \in Legs : m # l => unacked'[f][m] = unacked[f][m]
  BY <1>1, <1>2, <1>3
<1> SUFFICES ASSUME NEW f \in End, NEW m \in Legs PROVE Balanced(f, m)'
  BY DEF FlightInv
<1>6. CASE m # l
  BY <1>5, <1>6, PeerFacts, FlightFrame
<1>7. CASE m = l /\ (dead'[e][l] \/ dead'[p][l])
  BY <1>1, <1>7 DEF Balanced, End, Peer, p
<1>8. CASE m = l /\ ~dead'[e][l] /\ ~dead'[p][l]
  <2>1. ~dead[e][l] /\ ~dead[p][l]
    BY <1>1, <1>8
  <2>2. /\ Carried(w, "data") \in Nat /\ Carried(w, "sendme") \in Nat
        /\ Carried(x, "data") \in Nat /\ Carried(x, "sendme") \in Nat
        /\ Tail(x) \in Seq(Cell)
    <3>1. Tail(x) \in Seq(Cell)
      BY <1>1
    <3> HIDE DEF w, x
    <3> QED BY <1>1, <3>1, CarriedType
  <2>3. /\ Carried(Tail(x), "data") \in Nat /\ Carried(Tail(x), "sendme") \in Nat
        /\ Carried(x, "data")
             = Carried(Tail(x), "data") + (IF kind = "data" THEN 1 ELSE 0)
        /\ Carried(x, "sendme") = Carried(Tail(x), "sendme")
    <3> HIDE DEF x
    <3>1. /\ Carried(Tail(x), "data") \in Nat
          /\ Carried(Tail(x), "sendme") \in Nat
      BY <2>2, CarriedType
    <3>2. kind # "sendme"
      BY <1>1 DEF Multiplexed
    <3> QED BY <1>1, <3>1, <3>2, CarriedTail
  <2>4. /\ Carried(v, "data") = Carried(w, "data")
        /\ Carried(v, "sendme") = Carried(w, "sendme") + (IF due THEN 1 ELSE 0)
    <3>1. v = IF due THEN w \o << ack >> ELSE w
      BY <2>1 DEF v, Push
    <3>2. ack.kind = "sendme"
      OBVIOUS
    <3> HIDE DEF w, ack, due
    <3> QED BY <1>1, <1>4, <2>2, <3>1, <3>2, CarriedAppend, SMTT(30)
  <2>5. CASE f = e
    <3>1. Balanced(e, l)
      BY DEF FlightInv
    <3> QED BY <1>1, <1>5, <1>8, <2>1, <2>3, <2>4, <2>5, <3>1 DEF Balanced, p
  <2>6. CASE f = p
    <3> DEFINE k == SendmeInc * Carried(w, "sendme")
               j == SendmeInc * Carried(v, "sendme")
               d == Carried(Tail(x), "data")
               q == unacked[e][l]
    <3>1. inflight[p][l] = Carried(x, "data") + q + k
      BY <1>1, <2>1 DEF FlightInv, Balanced
    <3>2. k \in Int /\ j = IF due THEN k + SendmeInc ELSE k
      <4> DEFINE a == Carried(w, "sendme")
      <4>0. a \in Nat /\ SendmeInc \in Nat
        BY <1>2, <2>2
      <4>1. a \in Nat /\ SendmeInc * (a + 1) = SendmeInc * a + SendmeInc
            /\ SendmeInc * a \in Int /\ SendmeInc * (a + 0) = SendmeInc * a
        <5> HIDE DEF a
        <5> QED BY <4>0, Distributes
      <4>2. Carried(v, "sendme") = a + (IF due THEN 1 ELSE 0)
        BY <2>4
      <4> HIDE DEF a, due
      <4> QED BY <4>1, <4>2 DEF a
    <3>3. q \in 0 .. SendmeInc - 1 /\ SendmeInc \in Nat /\ d \in Nat
      BY <1>2, <2>3
    <3>4. /\ Carried(x, "data") = d + (IF kind = "data" THEN 1 ELSE 0)
          /\ due <=> kind = "data" /\ q + 1 = SendmeInc
          /\ u = IF due THEN 0 ELSE IF kind = "data" THEN q + 1 ELSE q
      BY <2>3 DEF u
    <3> HIDE DEF k, j, w, x, d, q, due
    <3>5. inflight[p][l] = d + u + j
      BY <3>1, <3>2, <3>3, <3>4
    <3> QED BY <1>1, <1>5, <1>8, <2>6, <3>5 DEF Balanced, j, x, d
  <2> QED BY <1>1, <2>5, <2>6 DEF End, Peer, p
<1> QED BY <1>6, <1>7, <1>8

\* A SENDME or a SWITCH is taken from its wire.
LEMMA FlightConsume ==
  ASSUME IInv, FlightInv, NEW e \in End, NEW l \in Legs,
         ReceiveSendme(e, l) \/ ReceiveSwitch(e, l)
  PROVE  FlightInv'
<1> DEFINE p == Peer(e)
           x == wire[p][l]
           due == Head(x).kind = "sendme"
<1>1. p \in End /\ p # e /\ Peer(p) = e /\ x \in Seq(Cell) /\ x # <<>>
      /\ Head(x).kind \in {"switch", "sendme"}
  BY PeerFacts, SMTT(30) DEF IInv, TypeOK, HasCell, Arriving, ReceiveSendme, ReceiveSwitch
<1>2. /\ inflight \in [End -> [Legs -> Int]]
      /\ wire \in [End -> [Legs -> Seq(Cell)]]
      /\ \A f \in End, m \in Legs : unacked[f][m] \in Int
      /\ SendmeInc \in Nat /\ SendmeInc > 0
  BY NumbersAssumption DEF IInv, TypeOK
<1>3. /\ inflight' = [inflight EXCEPT ![e][l] = IF due THEN @ - SendmeInc ELSE @]
      /\ wire' = [wire EXCEPT ![p][l] = Tail(x)]
      /\ UNCHANGED <<dead, unacked>>
  <2>1. CASE ReceiveSendme(e, l)
    BY <1>2, <2>1 DEF ReceiveSendme, HasCell, Arriving, Consume
  <2>2. CASE ReceiveSwitch(e, l)
    <3>1. ~due /\ inflight' = inflight
      BY <2>2 DEF ReceiveSwitch, HasCell, Arriving
    <3>2. inflight = [inflight EXCEPT ![e][l] = IF due THEN @ - SendmeInc ELSE @]
      <4> HIDE DEF due
      <4> QED BY <1>2, <3>1
    <3> QED BY <2>2, <3>1, <3>2 DEF ReceiveSwitch, Consume
  <2> QED BY <2>1, <2>2
<1> HIDE DEF p
<1>4. /\ wire'[p][l] = Tail(x) /\ wire'[e][l] = wire[e][l]
      /\ \A f \in End, m \in Legs : m # l => wire'[f][m] = wire[f][m]
      /\ inflight'[e][l] = IF due THEN inflight[e][l] - SendmeInc
                           ELSE inflight[e][l]
      /\ inflight'[p][l] = inflight[p][l]
      /\ \A f \in End, m \in Legs : m # l => inflight'[f][m] = inflight[f][m]
  <2> HIDE DEF due
  <2> QED BY <1>1, <1>2, <1>3
<1> SUFFICES ASSUME NEW f \in End, NEW m \in Legs PROVE Balanced(f, m)'
  BY DEF FlightInv
<1>5. CASE m # l
  BY <1>3, <1>4, <1>5, PeerFacts, FlightFrame
<1>6. CASE m = l
  <2>1. /\ Carried(x, "data") = Carried(Tail(x), "data")
        /\ Carried(x, "sendme") = Carried(Tail(x), "sendme") + (IF due THEN 1 ELSE 0)
        /\ Carried(Tail(x), "sendme") \in Nat
        /\ Carried(wire[e][l], "data") \in Nat
    <3>1. Tail(x) \in Seq(Cell)
      BY <1>1
    <3>2. Carried(Tail(x), "data") \in Nat /\ Carried(Tail(x), "sendme") \in Nat
          /\ Carried(wire[e][l], "data") \in Nat
      BY <1>2, <3>1, CarriedType
    <3> HIDE DEF x
    <3> QED BY <1>1, <3>2, CarriedTail
  <2>2. CASE f = e
    <3> DEFINE k == SendmeInc * Carried(x, "sendme")
               j == SendmeInc * Carried(Tail(x), "sendme")
               d == Carried(wire[e][l], "data") + unacked[p][l]
    <3>1. ~dead[e][l] /\ ~dead[p][l] => inflight[e][l] = d + k
      BY DEF FlightInv, Balanced, p
    <3>2. j \in Int /\ k = IF due THEN j + SendmeInc ELSE j
      <4> DEFINE a == Carried(Tail(x), "sendme")
      <4>0. a \in Nat /\ SendmeInc \in Nat
        BY <1>2, <2>1
      <4>1. a \in Nat /\ SendmeInc * (a + 1) = SendmeInc * a + SendmeInc
            /\ SendmeInc * a \in Int /\ SendmeInc * (a + 0) = SendmeInc * a
        <5> HIDE DEF a
        <5> QED BY <4>0, Distributes
      <4>2. Carried(x, "sendme") = a + (IF due THEN 1 ELSE 0)
        BY <2>1
      <4> HIDE DEF a, due
      <4> QED BY <4>1, <4>2 DEF a
    <3>3. d \in Int
      <4>1. Carried(wire[e][l], "data") \in Nat
        BY <2>1
      <4>2. unacked[p][l] \in Int
        BY <1>1, <1>2
      <4> HIDE DEF k, j, due, x
      <4> QED BY <4>1, <4>2
    <3> HIDE DEF d, k, j, due, x
    <3>4. ~dead[e][l] /\ ~dead[p][l] => inflight'[e][l] = d + j
      BY <1>2, <1>4, <3>1, <3>2, <3>3
    <3> QED BY <1>3, <1>4, <1>6, <2>2, <3>4 DEF Balanced, d, j, x, p
  <2>3. CASE f = p
    <3>1. Balanced(p, l)
      BY <1>1 DEF FlightInv
    <3> QED BY <1>1, <1>3, <1>4, <1>6, <2>1, <2>3, <3>1 DEF Balanced
  <2> QED BY <1>1, <2>2, <2>3 DEF End, Peer, p
<1> QED BY <1>5, <1>6

\* Everything else only closes circuits.
LEMMA FlightClose ==
  ASSUME IInv, FlightInv, UNCHANGED <<inflight, unacked>>,
         \A f \in End, m \in Legs :
           ~dead'[f][m] => ~dead[f][m] /\ wire'[f][m] = wire[f][m]
  PROVE  FlightInv'
<1> SUFFICES ASSUME NEW f \in End, NEW m \in Legs PROVE Balanced(f, m)'
  BY DEF FlightInv
<1> QED BY PeerFacts, FlightFrame

\* Every step preserves the balance of the cells in flight.
LEMMA FlightStep == IInv /\ FlightInv /\ [Next]_vars => FlightInv'
<1> SUFFICES ASSUME IInv, FlightInv, [Next]_vars PROVE FlightInv'
  OBVIOUS
<1>1. CASE UNCHANGED vars
  BY <1>1, FlightClose DEF vars
<1>2. ASSUME NEW e \in End, NEW S, CloseLegs(e, S)
      PROVE  \A f \in End, m \in Legs : ~dead'[f][m] => ~dead[f][m]
  BY <1>2 DEF CloseLegs, IInv, TypeOK
<1>3. ASSUME NEW e \in End, NEW kind \in Multiplexed, NEW base \in Legs,
             NEW l \in Legs, SendCell(e, kind, base, l)
      PROVE  FlightInv'
  <2>1. base \in CurrentLegs(e) /\ l \in legs[e] /\ unacked' = unacked
    BY <1>3 DEF SendCell, CanSendOn
  <2>2. CASE CloseLegs(e, legs[e]) /\ UNCHANGED <<wire, inflight>>
    BY <1>2, <2>1, <2>2, FlightClose
  <2>3. CASE Transmit(e, kind, base, l) /\ UNCHANGED dead
    BY <2>1, <2>3, FlightTransmit
  <2> QED BY <1>3, <2>2, <2>3 DEF SendCell
<1>4. ASSUME NEW e \in End, NEW l \in Legs, ReceiveCell(e, l)
      PROVE  FlightInv'
  <2> DEFINE kind == Head(Arriving(e, l)).kind
             S == ClosedWith(e, l, lastRecv[e][l] + 1)
  <2>1. /\ HasCell(e, l, Multiplexed) /\ Acknowledge(e, l, kind)
        /\ inflight' = inflight
        /\ dead' = dead \/ CloseLegs(e, S)
    BY <1>4 DEF ReceiveCell
  <2> HIDE DEF S
  <2>2. \A f \in End, m \in Legs : ~dead'[f][m] => ~dead[f][m]
    BY <1>2, <2>1
  <2> QED BY <2>1, <2>2, FlightReceive
<1>5. ASSUME NEW e \in End, NEW l \in Legs, MarkForClose(e, l)
      PROVE  FlightInv'
  <2> DEFINE S == ClosedWith(e, l, lastRecv[e][l])
  <2>1. CloseLegs(e, S) /\ UNCHANGED <<wire, inflight, unacked>>
    BY <1>5 DEF MarkForClose
  <2> HIDE DEF S
  <2> QED BY <1>2, <2>1, FlightClose
<1>6. ASSUME NEW e \in End, NEW l \in Legs, PickFirstLeg(e, l) PROVE FlightInv'
  BY <1>6, FlightClose DEF PickFirstLeg
<1>7. ASSUME NEW e \in End, NEW l \in Legs, DropTail(e, l) PROVE FlightInv'
  <2>1. \A f \in End, m \in Legs : ~dead'[f][m] =>
          ~dead[f][m] /\ wire'[f][m] = wire[f][m]
    BY <1>7 DEF DropTail, IInv, TypeOK
  <2> QED BY <1>7, <2>1, FlightClose DEF DropTail
<1>8. ASSUME NEW l \in Legs, RelayFails(l) PROVE FlightInv'
  <2>1. \A f \in End, m \in Legs : ~dead'[f][m] =>
          ~dead[f][m] /\ wire'[f][m] = wire[f][m]
    BY <1>8 DEF RelayFails, IInv, TypeOK
  <2> QED BY <1>8, <2>1, FlightClose DEF RelayFails
<1> QED BY <1>1, <1>3, <1>4, <1>5, <1>6, <1>7, <1>8, FlightConsume
        DEF Next, Receive, ReceiveDestroy

\* cc->inflight of a leg both ends hold is what is on the wire, what the other
\* end has counted and what its SENDMEs will take off: it neither leaks nor
\* underflows, whatever other legs were lost.
THEOREM FlightIsRight == Spec => []FlightBalance
<1>1. Init => FlightInv
  <2> SUFFICES ASSUME Init, NEW e \in End, NEW l \in Legs PROVE Balanced(e, l)
    BY DEF FlightInv
  <2>1. Carried(<<>>, "data") = 0 /\ Carried(<<>>, "sendme") = 0
    <3>1. \A k : {i \in 1 .. Len(<<>>) : <<>>[i].kind = k} = {}
      OBVIOUS
    <3> QED BY <3>1, FS_EmptySet DEF Carried
  <2>2. /\ inflight[e][l] = 0 /\ unacked[Peer(e)][l] = 0
        /\ wire[e][l] = <<>> /\ wire[Peer(e)][l] = <<>>
    BY PeerFacts DEF Init
  <2> QED BY <2>1, <2>2, NumbersAssumption DEF Balanced
<1>2. IInv /\ FlightInv => FlightBalance
  <2>1. IInv => legs["client"] \cap legs["exit"] \subseteq Legs
    BY DEF IInv, TypeOK, End
  <2> QED BY <2>1 DEF FlightInv, Balanced, FlightBalance
<1> QED BY <1>1, <1>2, FlightStep, Invariance, PTL DEF Spec

-----------------------------------------------------------------------------
(* ConfluxRefill: the numbers LINK and LINKED carry are the ones the data    *)
(* plane needs.                                                             *)

Phases == {"idle", "launched", "linked", "refused", "done", "closed"}

\* A circuit that is not linked at the client carries no cells.
Unused(l) ==
  link[l].phase \in {"idle", "launched", "linked"} =>
    /\ l \notin legs["client"] /\ wire["client"][l] = <<>>
    /\ wire["exit"][l] = <<>>
    /\ link[l].phase # "linked" => l \notin legs["exit"]

\* A LINK carries what the client has sent and been handed, unless the client
\* has no other leg.
LinkTells(l) ==
  link[l].phase = "launched" =>
    /\ link[l].recv = nsent["exit"]
    /\ link[l].sent = nsent["client"] \/ legs["client"] = {}

\* A LINKED carries the same for the exit, which has taken over the LINK's.
LinkedTells(l) ==
  link[l].phase = "linked" =>
    /\ link[l].sent = nsent["exit"] /\ link[l].recv = nsent["client"]
    /\ l \in legs["exit"] =>
         /\ lastSent["exit"][l] = nsent["exit"]
         /\ lastRecv["exit"][l] = nsent["client"] \/ legs["client"] = {}

LinkInv ==
  /\ link \in [Legs -> [phase : Phases, sent : Nat, recv : Nat]]
  /\ Pending(link) # {} => \A e \in End : nsent[e] = delivered[Peer(e)]
  /\ \A l \in Legs : Unused(l) /\ LinkTells(l) /\ LinkedTells(l)

RefillInv == ~rebuilt /\ ~busy => IInv /\ LinkInv

-----------------------------------------------------------------------------
\* conflux_get_max_seq_sent finds the count of the leg that has sent most.
LEMMA MaxSeqIs ==
  ASSUME NEW f \in [Legs -> Nat], NEW S \in SUBSET Legs, NEW n \in Nat,
         \A l \in S : f[l] <= n, \E l \in S : f[l] = n
  PROVE  MaxSeq(f, S) = n
<1> DEFINE C == {f[l] : l \in S}
           m == CHOOSE k \in C : \A l \in S : f[l] <= k
<1>1. \E k \in C : \A l \in S : f[l] <= k
  OBVIOUS
<1>2. m \in C /\ \A l \in S : f[l] <= m
  BY <1>1
<1>3. MaxSeq(f, S) = m
  BY DEF MaxSeq
<1> HIDE DEF m
<1>4. PICK a \in S : m = f[a]
  BY <1>2
<1>5. PICK b \in S : f[b] = n
  OBVIOUS
<1>6. m <= n /\ n <= m /\ m \in Nat
  BY <1>2, <1>4, <1>5
<1> QED BY <1>3, <1>6

\* So the number an end with legs puts in a LINK is the cells it has sent.
SentNumbers ==
  \A e \in End : /\ MaxSeq(lastSent[e], legs[e]) \in Nat
                 /\ legs[e] # {} => MaxSeq(lastSent[e], legs[e]) = nsent[e]
\* The largest last_seq_sent of the legs is the number of cells sent.
LEMMA NumbersAreSent == IInv => SentNumbers
<1> SUFFICES ASSUME IInv, NEW e \in End
             PROVE  /\ MaxSeq(lastSent[e], legs[e]) \in Nat
                    /\ legs[e] # {} => MaxSeq(lastSent[e], legs[e]) = nsent[e]
  BY DEF SentNumbers
<1>1. /\ lastSent[e] \in [Legs -> Nat] /\ legs[e] \in SUBSET Legs
      /\ nsent[e] \in Nat /\ \A l \in Legs : lastSent[e][l] <= nsent[e]
      /\ SenderCounts(e)
  BY DEF IInv, TypeOK, SequenceInv, SenderCounts
<1>2. CASE legs[e] = {}
  BY <1>2 DEF MaxSeq
<1>3. CASE legs[e] # {}
  <2>1. \E l \in legs[e] : lastSent[e][l] = nsent[e]
    <3>1. CASE curr[e] # NoLeg
      BY <1>1, <3>1 DEF SenderCounts
    <3>2. CASE curr[e] = NoLeg
      <4>1. nsent[e] = 0
        BY <1>1, <1>3, <3>2 DEF SenderCounts
      <4>2. PICK l \in legs[e] : TRUE
        BY <1>3
      <4>3. lastSent[e][l] \in Nat /\ lastSent[e][l] <= 0
        BY <1>1, <4>1, <4>2
      <4> QED BY <4>1, <4>3
    <3> QED BY <3>1, <3>2
  <2>2. MaxSeq(lastSent[e], legs[e]) = nsent[e]
    BY <1>1, <2>1, MaxSeqIs
  <2> QED BY <1>1, <2>2
<1> QED BY <1>2, <1>3

\* A step of the data plane leaves a leg alone that carries nothing, if it
\* sends nothing or neither end has the leg.
LEMMA QuietLeg ==
  ASSUME IInv, Next, NEW l \in Legs,
         wire["client"][l] = <<>>, wire["exit"][l] = <<>>,
         nsent' = nsent \/ \A e \in End : l \notin legs[e]
  PROVE  \A f \in End : /\ wire'[f][l] = <<>>
                        /\ lastSent'[f][l] = lastSent[f][l]
                        /\ lastRecv'[f][l] = lastRecv[f][l]
<1> SUFFICES ASSUME NEW f \in End
             PROVE  /\ wire'[f][l] = <<>>
                    /\ lastSent'[f][l] = lastSent[f][l]
                    /\ lastRecv'[f][l] = lastRecv[f][l]
  OBVIOUS
<1>0. /\ \A e \in End : wire[e][l] = <<>> /\ Peer(e) \in End
      /\ wire \in [End -> [Legs -> Seq(Cell)]]
      /\ lastSent \in [End -> [Legs -> Nat]]
      /\ lastRecv \in [End -> [Legs -> Nat]]
      /\ nsent \in [End -> Nat]
  BY PeerFacts DEF End, IInv, TypeOK
<1>1. ASSUME NEW e \in End, NEW kind \in Multiplexed, NEW base \in Legs,
             NEW m \in Legs, SendCell(e, kind, base, m)
      PROVE  UNCHANGED <<lastSent, lastRecv, wire>> \/
             (/\ m # l /\ lastRecv' = lastRecv
              /\ wire'[f][l] = wire[f][l] /\ lastSent'[f][l] = lastSent[f][l])
  <2>1. CASE UNCHANGED <<lastSent, wire>>
    BY <1>1, <2>1 DEF SendCell
  <2>2. CASE Transmit(e, kind, base, m)
    <3>1. nsent' = [nsent EXCEPT ![e] = @ + 1] /\ m \in legs[e]
      BY <1>1, <2>2 DEF SendCell, CanSendOn, Transmit
    <3>2. m # l
      <4>1. nsent'[e] = nsent[e] + 1 /\ nsent[e] \in Nat
        BY <1>0, <3>1
      <4>2. nsent' # nsent
        BY <4>1
      <4> QED BY <3>1, <4>2
    <3> DEFINE x == lastSent[e][base] + 1
               y == Push(e, m, (IF m = base THEN <<>>
                      ELSE << [kind |-> "switch", val |-> Relative(e, base, m),
                               abs |-> lastSent[e][base]] >>)
                      \o << [kind |-> kind, val |-> nsent[e] + 1, abs |-> x] >>)
    <3>3. wire' = [wire EXCEPT ![e][m] = y] /\ lastSent' = [lastSent EXCEPT ![e][m] = x]
      BY <2>2 DEF Transmit
    <3> HIDE DEF x, y
    <3>4. wire'[f][l] = wire[f][l] /\ lastSent'[f][l] = lastSent[f][l]
      BY <1>0, <3>2, <3>3
    <3> QED BY <1>1, <3>2, <3>4 DEF SendCell
  <2> QED BY <1>1, <2>1, <2>2 DEF SendCell
<1>2. ASSUME NEW e \in End, NEW m \in Legs,
             ReceiveCell(e, m) \/ ReceiveSwitch(e, m) \/ ReceiveSendme(e, m)
      PROVE  /\ m # l /\ lastSent' = lastSent
             /\ wire'[f][l] = wire[f][l] /\ lastRecv'[f][l] = lastRecv[f][l]
  <2>1. m # l /\ lastSent' = lastSent
    BY <1>0, <1>2 DEF ReceiveCell, ReceiveSwitch, ReceiveSendme, HasCell, Arriving
  <2>2. PICK r : lastRecv' = [lastRecv EXCEPT ![e][m] = r]
    <3>1. CASE ReceiveSendme(e, m)
      <4>1. lastRecv' = [lastRecv EXCEPT ![e][m] = lastRecv[e][m]]
        BY <1>0, <3>1 DEF ReceiveSendme
      <4> QED BY <4>1
    <3>2. CASE ReceiveCell(e, m) \/ ReceiveSwitch(e, m)
      BY <3>2 DEF ReceiveCell, ReceiveSwitch
    <3> QED BY <1>2, <3>1, <3>2
  <2>3. lastRecv'[f][l] = lastRecv[f][l]
    BY <1>0, <2>1, <2>2
  <2>4. wire'[f][l] = wire[f][l]
    <3>1. CASE ReceiveCell(e, m)
      <4>1. Take(e, m)
        BY <3>1, AcknowledgeTakes DEF ReceiveCell
      <4> QED BY <2>1, <4>1 DEF Take
    <3>2. CASE ReceiveSwitch(e, m) \/ ReceiveSendme(e, m)
      <4>1. wire' = [wire EXCEPT ![Peer(e)][m] = Tail(@)]
        BY <3>2 DEF ReceiveSwitch, ReceiveSendme, Consume
      <4> QED BY <1>0, <2>1, <4>1
    <3> QED BY <1>2, <3>1, <3>2
  <2> QED BY <2>1, <2>3, <2>4
<1>3. ASSUME NEW e \in End, NEW m \in Legs,
             PickFirstLeg(e, m) \/ MarkForClose(e, m) \/ ReceiveDestroy(e, m)
      PROVE  UNCHANGED <<lastSent, lastRecv, wire>>
  BY <1>3 DEF PickFirstLeg, MarkForClose, ReceiveDestroy
<1>4. ASSUME NEW e \in End, NEW m \in Legs, DropTail(e, m)
      PROVE  UNCHANGED <<lastSent, lastRecv>> /\ wire'[f][l] = wire[f][l]
  <2>1. ~(e = f /\ m = l)
    BY <1>0, <1>4 DEF DropTail
  <2> QED BY <1>0, <1>4, <2>1 DEF DropTail
<1>5. ASSUME NEW m \in Legs, RelayFails(m)
      PROVE  UNCHANGED <<lastSent, lastRecv, wire>>
  BY <1>5 DEF RelayFails
<1> QED BY <1>0, <1>1, <1>2, <1>3, <1>4, <1>5 DEF Next, Receive

\* No step of the data plane adds a leg.
LEMMA LegsShrink ==
  ASSUME IInv, Next
  PROVE  \A f \in End : legs'[f] \subseteq legs[f]
<1>0. legs \in [End -> SUBSET Legs]
  BY DEF IInv, TypeOK
<1>1. ASSUME NEW e \in End, NEW S, CloseLegs(e, S)
      PROVE  \A f \in End : legs'[f] \subseteq legs[f]
  BY <1>0, <1>1 DEF CloseLegs
<1>2. ASSUME NEW e \in End, NEW l \in Legs, Receive(e, l)
      PROVE  \A f \in End : legs'[f] \subseteq legs[f]
  <2>1. \/ legs' = legs \/ CloseLegs(e, ClosedWith(e, l, lastRecv[e][l] + 1))
        \/ CloseLegs(e, ClosedWith(e, l, lastRecv[e][l]))
    BY <1>2 DEF Receive, ReceiveCell, ReceiveSwitch, ReceiveSendme,
       ReceiveDestroy, MarkForClose
  <2> QED BY <1>1, <2>1
<1>3. ASSUME NEW e \in End, NEW l \in Legs, MarkForClose(e, l)
      PROVE  \A f \in End : legs'[f] \subseteq legs[f]
  BY <1>1, <1>3 DEF MarkForClose
<1>4. ASSUME NEW e \in End, NEW kind \in Multiplexed, NEW base \in Legs,
             NEW l \in Legs, SendCell(e, kind, base, l)
      PROVE  \A f \in End : legs'[f] \subseteq legs[f]
  <2>1. legs' = legs \/ CloseLegs(e, legs[e])
    BY <1>4 DEF SendCell
  <2> QED BY <1>1, <2>1
<1>5. ASSUME NEW e \in End, NEW l \in Legs,
             PickFirstLeg(e, l) \/ DropTail(e, l) \/ RelayFails(l)
      PROVE  legs' = legs
  BY <1>5 DEF PickFirstLeg, DropTail, RelayFails
<1> QED BY <1>2, <1>3, <1>4, <1>5 DEF Next, End

\* The ends send nothing in a step between two states in which nothing is
\* under way.
LEMMA NothingSent ==
  ASSUME IInv, IInv', Next,
         \A e \in End : nsent[e] = delivered[Peer(e)],
         \A e \in End : nsent'[e] = delivered'[Peer(e)]
  PROVE  nsent' = nsent
<1> SUFFICES ASSUME NEW e \in End, nsent' = [nsent EXCEPT ![e] = @ + 1], out' = out
             PROVE  FALSE
  BY StepEffect
<1>1. Peer(e) \in End
  BY PeerFacts
<1>2. delivered'[Peer(e)] = delivered[Peer(e)]
  BY <1>1 DEF IInv, SequenceInv, InOrder
<1>3. nsent[e] \in Nat /\ nsent'[e] = nsent[e] + 1
  BY DEF IInv, TypeOK
<1> QED BY <1>2, <1>3

-----------------------------------------------------------------------------
(* Every step.  Nothing is said once a set was rebuilt or cells were under  *)
(* way, and neither is ever taken back.                                     *)

\* A leg other than the one being linked keeps what is said of it, as long as
\* nothing is sent while a leg is pending.
LEMMA LinkFrame ==
  ASSUME LinkInv, NEW l \in Legs,
         link'[l] = link[l], legs'["client"] \subseteq legs["client"],
         l \in legs'["exit"] => l \in legs["exit"],
         l \in Pending(link) => nsent' = nsent,
         wire["client"][l] = <<>> /\ wire["exit"][l] = <<>>
           /\ (l \in Pending(link) \/ \A e \in End : l \notin legs[e]) =>
           \A f \in End : /\ wire'[f][l] = <<>>
                          /\ lastSent'[f][l] = lastSent[f][l]
                          /\ lastRecv'[f][l] = lastRecv[f][l]
  PROVE  (Unused(l) /\ LinkTells(l) /\ LinkedTells(l))'
<1>1. Unused(l) /\ LinkTells(l) /\ LinkedTells(l) /\ l \in DOMAIN link
  BY DEF LinkInv
<1>2. link[l].phase \in {"launched", "linked"} => l \in Pending(link)
  BY DEF Pending
<1>3. Unused(l)'
  BY <1>1, <1>2 DEF Unused, End
<1>4. LinkTells(l)'
  BY <1>1, <1>2 DEF LinkTells
<1>5. LinkedTells(l)'
  BY <1>1, <1>2 DEF LinkedTells, Unused, End
<1> QED BY <1>3, <1>4, <1>5

\* A step of the data plane, with what linked_circuit_closed does after it.
LEMMA DataStep ==
  ASSUME IInv, LinkInv, Next,
         \A l \in Legs : \/ link'[l] = link[l]
                         \/ /\ link[l].phase = "idle"
                            /\ link'[l] = Numbers("launched", lastSent'["client"],
                                            legs'["client"], delivered'["client"])
                         \/ link'[l] = [link[l] EXCEPT !.phase = "closed"],
         link' \in [Legs -> [phase : Phases, sent : Nat, recv : Nat]],
         Pending(link') # {} => \A e \in End : nsent'[e] = delivered'[Peer(e)]
  PROVE  IInv' /\ LinkInv'
<1>1. IInv'
  BY NextIInv
<1>2. \A f \in End : legs'[f] \subseteq legs[f]
  BY LegsShrink
<1>3. ASSUME NEW l \in Legs, link'[l] = link[l]
      PROVE  (Unused(l) /\ LinkTells(l) /\ LinkedTells(l))'
  <2>1. l \in Pending(link) => nsent' = nsent
    <3>1. l \in Pending(link) => l \in Pending(link')
      BY <1>3 DEF Pending
    <3> QED BY <1>1, <3>1, NothingSent DEF LinkInv
  <2>2. wire["client"][l] = <<>> /\ wire["exit"][l] = <<>>
           /\ (l \in Pending(link) \/ \A e \in End : l \notin legs[e]) =>
           \A f \in End : /\ wire'[f][l] = <<>>
                          /\ lastSent'[f][l] = lastSent[f][l]
                          /\ lastRecv'[f][l] = lastRecv[f][l]
    BY <2>1, QuietLeg
  <2> QED BY <1>2, <1>3, <2>1, <2>2, LinkFrame DEF End
<1>4. ASSUME NEW l \in Legs, link[l].phase = "idle",
             link'[l] = Numbers("launched", lastSent'["client"],
                                legs'["client"], delivered'["client"])
      PROVE  (Unused(l) /\ LinkTells(l) /\ LinkedTells(l))'
  <2>1. /\ link'[l].phase = "launched" /\ link'[l].recv = delivered'["client"]
        /\ link'[l].sent = MaxSeq(lastSent'["client"], legs'["client"])
    BY <1>4 DEF Numbers
  <2>2. /\ wire["client"][l] = <<>> /\ wire["exit"][l] = <<>>
        /\ \A e \in End : l \notin legs[e]
    BY <1>4 DEF LinkInv, Unused, End
  <2>3. \A f \in End : wire'[f][l] = <<>> /\ l \notin legs'[f]
    BY <1>2, <2>2, QuietLeg
  <2>4. delivered'["client"] = nsent'["exit"]
    <3>1. l \in Pending(link')
      BY <2>1 DEF Pending
    <3> QED BY <3>1 DEF End, Peer
  <2>5. legs'["client"] # {} =>
          MaxSeq(lastSent'["client"], legs'["client"]) = nsent'["client"]
    <3>1. SentNumbers'
      BY <1>1, NumbersAreSent, PTL
    <3> QED BY <3>1 DEF SentNumbers, End
  <2> QED BY <2>1, <2>3, <2>4, <2>5 DEF Unused, LinkTells, LinkedTells, End
<1>5. ASSUME NEW l \in Legs, link'[l] = [link[l] EXCEPT !.phase = "closed"]
      PROVE  (Unused(l) /\ LinkTells(l) /\ LinkedTells(l))'
  <2>1. link[l] \in [phase : Phases, sent : Nat, recv : Nat]
    BY DEF LinkInv
  <2>2. link'[l].phase = "closed"
    BY <1>5, <2>1
  <2> QED BY <2>2 DEF Unused, LinkTells, LinkedTells
<1> QED BY <1>1, <1>3, <1>4, <1>5 DEF LinkInv

\* linked_circuit_closed: nothing, a launch, or the pending circuits closed.
LEMMA AfterCloseStep ==
  ASSUME IInv, LinkInv, Next, AfterClose,
         Pending(link') # {} => \A e \in End : nsent'[e] = delivered'[Peer(e)]
  PROVE  IInv' /\ LinkInv'
<1> DEFINE Rec == [phase : Phases, sent : Nat, recv : Nat]
<1>0. link \in [Legs -> Rec]
  BY DEF LinkInv
<1>1. CASE UNCHANGED link
  BY <1>0, <1>1, DataStep
<1>2. CASE LaunchLeg
  <2>1. PICK l \in Legs :
          /\ link[l].phase = "idle"
          /\ link' = [link EXCEPT ![l] =
               Numbers("launched", lastSent'["client"], legs'["client"],
                       delivered'["client"])]
    BY <1>2 DEF LaunchLeg
  <2>2. IInv'
    BY NextIInv
  <2>3. SentNumbers'
    BY <2>2, NumbersAreSent, PTL
  <2>4. MaxSeq(lastSent'["client"], legs'["client"]) \in Nat /\ delivered'["client"] \in Nat
    BY <2>2, <2>3 DEF SentNumbers, End, IInv, TypeOK
  <2> DEFINE new == Numbers("launched", lastSent'["client"], legs'["client"],
                            delivered'["client"])
  <2>5. new \in Rec
    BY <2>4 DEF Numbers, Phases
  <2>6. link' = [link EXCEPT ![l] = new]
    BY <2>1
  <2> HIDE DEF new, Rec
  <2>7. link' \in [Legs -> Rec] /\ link'[l] = new
        /\ \A m \in Legs \ {l} : link'[m] = link[m]
    BY <1>0, <2>5, <2>6
  <2> QED BY <2>1, <2>7, DataStep DEF new, Rec
<1>3. CASE link' = Abandoned
  <2>1. \A l \in Legs : \/ link'[l] = link[l]
                        \/ link'[l] = [link[l] EXCEPT !.phase = "closed"]
    BY <1>3 DEF Abandoned
  <2>2. \A r \in Rec : [r EXCEPT !.phase = "closed"] \in Rec
    BY DEF Phases
  <2>3. link' \in [Legs -> Rec]
    <3> HIDE DEF Rec
    <3> QED BY <1>0, <1>3, <2>2 DEF Abandoned
  <2> QED BY <2>1, <2>3, DataStep
<1> QED BY <1>1, <1>2, <1>3 DEF AfterClose

\* What holds of circuit m still does when only circuit l, its links and its
\* legs have changed.
LEMMA OtherLegs ==
  ASSUME LinkInv, NEW l \in Legs, NEW m \in Legs, m # l, link'[m] = link[m],
         legs'["client"] \ {l} \subseteq legs["client"],
         legs["client"] = {} => legs'["client"] = {},
         m \in legs'["exit"] => m \in legs["exit"],
         UNCHANGED <<wire, nsent>>,
         \A f \in End : /\ lastSent'[f][m] = lastSent[f][m]
                        /\ lastRecv'[f][m] = lastRecv[f][m]
  PROVE  (Unused(m) /\ LinkTells(m) /\ LinkedTells(m))'
<1>1. Unused(m) /\ LinkTells(m) /\ LinkedTells(m)
  BY DEF LinkInv
<1>2. Unused(m)'
  BY <1>1 DEF Unused
<1>3. LinkTells(m)'
  BY <1>1 DEF LinkTells
<1>4. LinkedTells(m)'
  BY <1>1 DEF LinkedTells, End
<1> QED BY <1>2, <1>3, <1>4

\* conflux_process_link, when it answers and the set was not empty.
LEMMA ProcessLinkJoins ==
  ASSUME IInv, LinkInv, NEW l \in Legs, link[l].phase = "launched",
         legs["exit"] # {}, Join("exit", l, link[l]),
         link' = [link EXCEPT ![l] = Numbers("linked", lastSent["exit"],
                                       legs["exit"], delivered["exit"])],
         UNCHANGED <<curr, dead, inflight, unacked, wire, delivered, ooo, out,
                     nsent>>
  PROVE  IInv' /\ LinkInv'
<1> USE LegsAssumption, NumbersAssumption, PeerFacts
<1>1. /\ link \in [Legs -> [phase : Phases, sent : Nat, recv : Nat]]
      /\ link[l] \in [phase : Phases, sent : Nat, recv : Nat]
      /\ Unused(l) /\ LinkTells(l)
  BY DEF LinkInv
<1>2. /\ l \notin legs["client"] /\ l \notin legs["exit"]
      /\ wire["client"][l] = <<>> /\ wire["exit"][l] = <<>>
      /\ link[l].recv = nsent["exit"]
      /\ link[l].sent = nsent["client"] \/ legs["client"] = {}
  BY <1>1 DEF Unused, LinkTells
<1>3. \A e \in End : nsent[e] = delivered[Peer(e)]
  BY DEF LinkInv, Pending
<1> DEFINE s == link[l].sent
           n == nsent["exit"]
<1>4. s \in Nat /\ n \in Nat
  BY <1>1 DEF IInv, TypeOK, End
<1>5. /\ legs' = [legs EXCEPT !["exit"] = @ \cup {l}]
      /\ lastRecv' = [lastRecv EXCEPT !["exit"][l] = s]
      /\ lastSent' = [lastSent EXCEPT !["exit"][l] = n]
  BY <1>2 DEF Join
<1> HIDE DEF s, n
<1>6. /\ legs'["client"] = legs["client"] /\ legs'["exit"] = legs["exit"] \cup {l}
      /\ lastRecv'["exit"][l] = s /\ lastSent'["exit"][l] = n
      /\ \A f \in End, m \in Legs : m # l =>
           lastSent'[f][m] = lastSent[f][m] /\ lastRecv'[f][m] = lastRecv[f][m]
      /\ \A m \in Legs : /\ lastSent'["client"][m] = lastSent["client"][m]
                         /\ lastRecv'["client"][m] = lastRecv["client"][m]
  BY <1>5 DEF IInv, TypeOK, End
<1>7. TypeOK'
  BY <1>4, <1>5 DEF IInv, TypeOK, End
<1>8. ASSUME NEW f \in End, NEW m \in Legs PROVE LegCoherent(f, m)'
  <2>1. LegCoherent(f, m)
    BY DEF IInv, SequenceInv
  <2>2. CASE m # l
    <3>1. \A e \in End : m \in legs'[e] <=> m \in legs[e]
      BY <1>6, <2>2 DEF End
    <3> QED BY <1>6, <2>1, <2>2, <3>1 DEF LegCoherent
  <2>3. CASE m = l /\ f = "client"
    <3>1. WireCoherent(s, <<>>)
      BY DEF WireCoherent
    <3>2. Peer(f) = "exit" /\ l \notin legs'["client"]
      BY <1>2, <1>6, <2>3 DEF Peer
    <3> QED BY <1>2, <1>6, <2>3, <3>1, <3>2 DEF LegCoherent
  <2>4. CASE m = l /\ f = "exit"
    BY <1>2, <1>6, <2>4 DEF LegCoherent, Peer
  <2> QED BY <2>2, <2>3, <2>4 DEF End
<1>9. ASSUME NEW f \in End PROVE SenderCounts(f)'
  <2>1. SenderCounts(f)
    BY DEF IInv, SequenceInv
  <2>2. legs[f] \subseteq Legs /\ NoLeg \notin Legs
    BY DEF IInv, TypeOK
  <2>3. CASE f = "client"
    <3>1. /\ legs'[f] = legs[f] /\ curr'[f] = curr[f] /\ nsent'[f] = nsent[f]
          /\ \A m \in Legs : lastSent'[f][m] = lastSent[f][m]
      BY <1>6, <2>3
    <3> QED BY <2>1, <2>2, <3>1 DEF SenderCounts
  <2>4. CASE f = "exit"
    <3>1. /\ legs'[f] = legs[f] \cup {l} /\ legs[f] # {} /\ l \notin legs[f]
          /\ curr'[f] = curr[f] /\ nsent'[f] = nsent[f] /\ nsent[f] \in Nat
          /\ lastSent'[f][l] = nsent[f]
          /\ \A m \in Legs : m # l => lastSent'[f][m] = lastSent[f][m]
      BY <1>2, <1>4, <1>6, <2>4 DEF n
    <3> QED BY <2>1, <2>2, <3>1 DEF SenderCounts
  <2> QED BY <2>3, <2>4 DEF End
<1>10. \A f \in End : WireCells(f)' /\ WireUnique(f)' /\ QueuedCells(f)'
  <2>1. \A f \in End : WireCells(f)' /\ QueuedCells(f)'
    BY DEF IInv, SequenceInv, WireCells, CellPending, QueuedCells
  <2>2. ASSUME NEW f \in End PROVE WireUnique(f)'
    <3>1. WireUnique(f) /\ wire' = wire
      BY DEF IInv, SequenceInv
    <3> QED BY <3>1 DEF WireUnique
  <2> QED BY <2>1, <2>2
<1>11. InOrder'
  BY DEF IInv, SequenceInv, InOrder
<1>12. IInv'
  BY <1>7, <1>8, <1>9, <1>10, <1>11 DEF IInv, SequenceInv
<1> DEFINE new == Numbers("linked", lastSent["exit"], legs["exit"],
                          delivered["exit"])
<1>13. /\ new \in [phase : Phases, sent : Nat, recv : Nat]
       /\ new.phase = "linked" /\ new.sent = nsent["exit"]
       /\ new.recv = nsent["client"]
  <2>1. MaxSeq(lastSent["exit"], legs["exit"]) = nsent["exit"]
        /\ nsent["exit"] \in Nat
    BY NumbersAreSent DEF SentNumbers, End, IInv, TypeOK
  <2>2. delivered["exit"] = nsent["client"] /\ nsent["client"] \in Nat
    BY <1>3 DEF End, Peer, IInv, TypeOK
  <2> QED BY <2>1, <2>2 DEF Numbers, Phases
<1> HIDE DEF new
<1>14. /\ link' \in [Legs -> [phase : Phases, sent : Nat, recv : Nat]]
       /\ link'[l] = new /\ \A m \in Legs : m # l => link'[m] = link[m]
  BY <1>1, <1>13 DEF new
<1>15. (Unused(l) /\ LinkTells(l) /\ LinkedTells(l))'
  BY <1>2, <1>6, <1>13, <1>14 DEF Unused, LinkTells, LinkedTells, s, n
<1>16. ASSUME NEW m \in Legs, m # l
       PROVE  (Unused(m) /\ LinkTells(m) /\ LinkedTells(m))'
  BY <1>6, <1>14, <1>16, OtherLegs
<1> QED BY <1>3, <1>12, <1>14, <1>15, <1>16 DEF LinkInv

\* conflux_process_linked, when the set was not empty.
LEMMA ProcessLinkedJoins ==
  ASSUME IInv, LinkInv, NEW l \in Legs, link[l].phase = "linked",
         legs["client"] # {}, Join("client", l, link[l]),
         link' = [link EXCEPT ![l].phase = "done"],
         UNCHANGED <<curr, dead, inflight, unacked, wire, delivered, ooo, out,
                     nsent>>
  PROVE  IInv' /\ LinkInv'
<1> USE LegsAssumption, NumbersAssumption, PeerFacts
<1>1. /\ link \in [Legs -> [phase : Phases, sent : Nat, recv : Nat]]
      /\ link[l] \in [phase : Phases, sent : Nat, recv : Nat]
      /\ Unused(l) /\ LinkedTells(l)
  BY DEF LinkInv
<1>2. /\ l \notin legs["client"]
      /\ wire["client"][l] = <<>> /\ wire["exit"][l] = <<>>
      /\ link[l].sent = nsent["exit"] /\ link[l].recv = nsent["client"]
      /\ l \in legs["exit"] => /\ lastSent["exit"][l] = nsent["exit"]
                               /\ lastRecv["exit"][l] = nsent["client"]
  BY <1>1 DEF Unused, LinkedTells
<1>3. \A e \in End : nsent[e] = delivered[Peer(e)]
  BY DEF LinkInv, Pending
<1> DEFINE s == nsent["client"]
           n == nsent["exit"]
<1>4. s \in Nat /\ n \in Nat
  BY DEF IInv, TypeOK, End
<1>5. /\ legs' = [legs EXCEPT !["client"] = @ \cup {l}]
      /\ lastRecv' = [lastRecv EXCEPT !["client"][l] = n]
      /\ lastSent' = [lastSent EXCEPT !["client"][l] = s]
  BY <1>2 DEF Join
<1>6. /\ legs'["exit"] = legs["exit"] /\ legs'["client"] = legs["client"] \cup {l}
      /\ lastRecv'["client"][l] = n /\ lastSent'["client"][l] = s
      /\ \A f \in End, m \in Legs : m # l =>
           lastSent'[f][m] = lastSent[f][m] /\ lastRecv'[f][m] = lastRecv[f][m]
      /\ \A m \in Legs : /\ lastSent'["exit"][m] = lastSent["exit"][m]
                         /\ lastRecv'["exit"][m] = lastRecv["exit"][m]
  BY <1>5 DEF IInv, TypeOK, End
<1>7. TypeOK'
  <2> HIDE DEF s, n
  <2> QED BY <1>4, <1>5 DEF IInv, TypeOK, End
<1>8. ASSUME NEW f \in End, NEW m \in Legs PROVE LegCoherent(f, m)'
  <2>1. LegCoherent(f, m)
    BY DEF IInv, SequenceInv
  <2>2. CASE m # l
    <3>1. \A e \in End : m \in legs'[e] <=> m \in legs[e]
      BY <1>6, <2>2 DEF End
    <3> QED BY <1>6, <2>1, <2>2, <3>1 DEF LegCoherent
  <2>3. \A r \in Nat : WireCoherent(r, <<>>) /\ CountAfter(r, <<>>) = r
    BY DEF WireCoherent, CountAfter
  <2>4. CASE m = l /\ f = "client"
    <3>1. Peer(f) = "exit"
      BY <2>4 DEF Peer
    <3>2. lastRecv'["exit"][l] \in Nat
      BY <1>7 DEF TypeOK, End
    <3> QED BY <1>2, <1>6, <2>3, <2>4, <3>1, <3>2 DEF LegCoherent
  <2>5. CASE m = l /\ f = "exit"
    <3>1. Peer(f) = "client"
      BY <2>5 DEF Peer
    <3> QED BY <1>2, <1>4, <1>6, <2>3, <2>5, <3>1 DEF LegCoherent
  <2> QED BY <2>2, <2>4, <2>5 DEF End
<1>9. ASSUME NEW f \in End PROVE SenderCounts(f)'
  <2>1. SenderCounts(f)
    BY DEF IInv, SequenceInv
  <2>2. legs[f] \subseteq Legs /\ NoLeg \notin Legs
    BY DEF IInv, TypeOK
  <2>3. CASE f = "exit"
    <3>1. /\ legs'[f] = legs[f] /\ curr'[f] = curr[f] /\ nsent'[f] = nsent[f]
          /\ \A m \in Legs : lastSent'[f][m] = lastSent[f][m]
      BY <1>6, <2>3
    <3> QED BY <2>1, <2>2, <3>1 DEF SenderCounts
  <2>4. CASE f = "client"
    <3>1. /\ legs'[f] = legs[f] \cup {l} /\ legs[f] # {} /\ l \notin legs[f]
          /\ curr'[f] = curr[f] /\ nsent'[f] = nsent[f] /\ nsent[f] \in Nat
          /\ lastSent'[f][l] = nsent[f]
          /\ \A m \in Legs : m # l => lastSent'[f][m] = lastSent[f][m]
      BY <1>2, <1>4, <1>6, <2>4
    <3> QED BY <2>1, <2>2, <3>1 DEF SenderCounts
  <2> QED BY <2>3, <2>4 DEF End
<1>10. \A f \in End : WireCells(f)' /\ WireUnique(f)' /\ QueuedCells(f)'
  <2>1. \A f \in End : WireCells(f)' /\ QueuedCells(f)'
    BY DEF IInv, SequenceInv, WireCells, CellPending, QueuedCells
  <2>2. ASSUME NEW f \in End PROVE WireUnique(f)'
    <3>1. WireUnique(f) /\ wire' = wire
      BY DEF IInv, SequenceInv
    <3> QED BY <3>1 DEF WireUnique
  <2> QED BY <2>1, <2>2
<1>11. InOrder'
  BY DEF IInv, SequenceInv, InOrder
<1>12. IInv'
  BY <1>7, <1>8, <1>9, <1>10, <1>11 DEF IInv, SequenceInv
<1>13. /\ link' \in [Legs -> [phase : Phases, sent : Nat, recv : Nat]]
       /\ link'[l].phase = "done" /\ \A m \in Legs : m # l => link'[m] = link[m]
  BY <1>1 DEF Phases
<1>14. (Unused(l) /\ LinkTells(l) /\ LinkedTells(l))'
  BY <1>13 DEF Unused, LinkTells, LinkedTells
<1>15. ASSUME NEW m \in Legs, m # l
       PROVE  (Unused(m) /\ LinkTells(m) /\ LinkedTells(m))'
  BY <1>6, <1>13, <1>15, OtherLegs
<1> QED BY <1>3, <1>12, <1>13, <1>14, <1>15 DEF LinkInv

\* A circuit is refused or closed, alone or with the set of an end.
LEMMA LinkCloses ==
  ASSUME IInv, LinkInv, NEW l \in Legs, NEW ph \in {"refused", "closed"},
         link' = [link EXCEPT ![l].phase = ph], l \in Pending(link),
         \/ UNCHANGED <<legs, curr, dead>>
         \/ \E e \in End : CloseLegs(e, legs[e] \cup {l}),
         UNCHANGED <<lastSent, lastRecv, inflight, unacked, delivered, ooo,
                     wire, nsent, out>>
  PROVE  IInv' /\ LinkInv'
<1>1. IInv'
  <2>1. CASE UNCHANGED <<legs, curr, dead>>
    BY <2>1, NextIInv DEF vars
  <2>2. ASSUME NEW e \in End, CloseLegs(e, legs[e] \cup {l}) PROVE IInv'
    <3>1. legs[e] \cup {l} \in SUBSET Legs
      BY DEF IInv, TypeOK
    <3> QED BY <2>2, <3>1, CloseStep
  <2> QED BY <2>1, <2>2
<1>2. \A f \in End : legs'[f] \subseteq legs[f]
  <2>1. ASSUME NEW e \in End, NEW S, CloseLegs(e, S)
        PROVE  \A f \in End : legs'[f] \subseteq legs[f]
    BY <2>1 DEF CloseLegs, IInv, TypeOK
  <2> QED BY <2>1
<1>3. /\ link \in [Legs -> [phase : Phases, sent : Nat, recv : Nat]]
      /\ link' \in [Legs -> [phase : Phases, sent : Nat, recv : Nat]]
      /\ link'[l].phase = ph /\ \A m \in Legs : m # l => link'[m] = link[m]
  BY DEF LinkInv, Phases
<1>4. (Unused(l) /\ LinkTells(l) /\ LinkedTells(l))'
  BY <1>3 DEF Unused, LinkTells, LinkedTells
<1>5. ASSUME NEW m \in Legs, m # l
      PROVE  (Unused(m) /\ LinkTells(m) /\ LinkedTells(m))'
  BY <1>2, <1>3, <1>5, OtherLegs DEF End
<1>6. \A e \in End : nsent'[e] = delivered'[Peer(e)]
  BY DEF LinkInv
<1> QED BY <1>1, <1>3, <1>4, <1>5, <1>6 DEF LinkInv

\* Every step of the data plane and of linking preserves the invariant.
LEMMA RefillStep == RefillInv /\ [RefillNext]_refillVars => RefillInv'
<1> SUFFICES ASSUME RefillInv, [RefillNext]_refillVars, ~rebuilt', ~busy'
             PROVE  IInv' /\ LinkInv'
  BY DEF RefillInv
<1>1. CASE UNCHANGED refillVars
  <2>1. UNCHANGED vars /\ UNCHANGED <<link, rebuilt, busy>>
    BY <1>1 DEF refillVars
  <2>2. UNCHANGED <<legs, lastSent, lastRecv, wire, nsent, delivered>>
    BY <2>1 DEF vars
  <2>3. IInv /\ LinkInv
    BY <2>1 DEF RefillInv
  <2>4. IInv'
    BY <2>1, <2>3, NextIInv
  <2>5. LinkInv'
    BY <2>1, <2>2, <2>3 DEF LinkInv, Pending, Unused, LinkTells, LinkedTells
  <2> QED BY <2>4, <2>5
<1>2. CASE RefillNext
  <2>1. /\ ~busy
        /\ Pending(link') # {} => \A e \in End : nsent'[e] = delivered'[Peer(e)]
    BY <1>2 DEF RefillNext
  <2>2. ~rebuilt
    BY <1>2 DEF RefillNext, ProcessLink, ProcessLinked, UnlinkedCloses,
       ExitLosesUnlinked
  <2>3. IInv /\ LinkInv
    BY <2>1, <2>2 DEF RefillInv
  <2>4. CASE Next /\ AfterClose
    BY <2>1, <2>3, <2>4, AfterCloseStep
  <2>5. ASSUME NEW l \in Legs, ProcessLink(l) PROVE IInv' /\ LinkInv'
    <3>1. link[l].phase = "launched" /\ UNCHANGED <<inflight, unacked, wire>>
          /\ l \in Pending(link)
      BY <2>5 DEF ProcessLink, Pending
    <3>2. CASE /\ CloseLegs("exit", legs["exit"] \cup {l})
               /\ link' = [link EXCEPT ![l].phase = "refused"]
               /\ UNCHANGED <<lastRecv, lastSent, delivered, ooo, out, nsent>>
      BY <2>3, <3>1, <3>2, LinkCloses DEF End
    <3>3. CASE ~CloseLegs("exit", legs["exit"] \cup {l}) \/
               link' # [link EXCEPT ![l].phase = "refused"] \/
               ~UNCHANGED <<lastRecv, lastSent, delivered, ooo, out, nsent>>
      <4>1. legs["exit"] # {}
        BY <2>5, <3>3 DEF ProcessLink
      <4>2. /\ Join("exit", l, link[l])
            /\ link' = [link EXCEPT ![l] = Numbers("linked", lastSent["exit"],
                                             legs["exit"], delivered["exit"])]
            /\ delivered' = [delivered EXCEPT !["exit"] = delivered["exit"]]
            /\ ooo' = [ooo EXCEPT !["exit"] = ooo["exit"]]
            /\ out' = [out EXCEPT !["exit"] = out["exit"]]
            /\ nsent' = [nsent EXCEPT !["exit"] = nsent["exit"]]
            /\ UNCHANGED <<curr, dead>>
        BY <2>5, <3>3, <4>1 DEF ProcessLink
      <4>3. UNCHANGED <<delivered, ooo, out, nsent>>
        BY <2>3, <4>2 DEF IInv, TypeOK, End
      <4> QED BY <2>3, <3>1, <4>1, <4>2, <4>3, ProcessLinkJoins
    <3> QED BY <3>2, <3>3
  <2>6. ASSUME NEW l \in Legs, ProcessLinked(l) PROVE IInv' /\ LinkInv'
    <3>1. /\ link[l].phase = "linked" /\ l \in Pending(link)
          /\ UNCHANGED <<delivered, ooo, inflight, unacked, wire>>
      BY <2>6 DEF ProcessLinked, Pending
    <3>2. CASE link[l].sent > delivered["client"]
      <4>1. /\ CloseLegs("client", legs["client"] \cup {l})
            /\ link' = [link EXCEPT ![l].phase = "closed"]
            /\ UNCHANGED <<lastRecv, lastSent, out, nsent>>
        BY <2>6, <3>2 DEF ProcessLinked
      <4> QED BY <2>3, <3>1, <4>1, LinkCloses DEF End
    <3>3. CASE ~(link[l].sent > delivered["client"])
      <4>1. legs["client"] # {}
        BY <2>6, <3>3 DEF ProcessLinked
      <4>2. /\ Join("client", l, link[l])
            /\ link' = [link EXCEPT ![l].phase = "done"]
            /\ out' = [out EXCEPT !["client"] = out["client"]]
            /\ nsent' = [nsent EXCEPT !["client"] = nsent["client"]]
            /\ UNCHANGED <<curr, dead>>
        BY <2>6, <3>3, <4>1 DEF ProcessLinked
      <4>3. UNCHANGED <<out, nsent>>
        BY <2>3, <4>2 DEF IInv, TypeOK, End
      <4> QED BY <2>3, <3>1, <4>1, <4>2, <4>3, ProcessLinkedJoins
    <3> QED BY <3>2, <3>3
  <2>7. ASSUME NEW l \in Legs, UnlinkedCloses(l) PROVE IInv' /\ LinkInv'
    <3>1. /\ l \in Pending(link) /\ link' = [link EXCEPT ![l].phase = "closed"]
          /\ UNCHANGED <<legs, curr, dead, lastSent, lastRecv, inflight,
                         unacked, delivered, ooo, wire, nsent, out>>
      BY <2>7 DEF UnlinkedCloses, vars
    <3> QED BY <2>3, <3>1, LinkCloses
  <2>8. ASSUME NEW l \in Legs, ExitLosesUnlinked(l) PROVE IInv' /\ LinkInv'
    <3>1. Next /\ link' = link
      BY <2>8 DEF ExitLosesUnlinked, Next, End
    <3> QED BY <2>1, <2>3, <3>1, DataStep DEF LinkInv
  <2> QED BY <1>2, <2>4, <2>5, <2>6, <2>7, <2>8 DEF RefillNext
<1> QED BY <1>1, <1>2

\* A leg that replaces a lost one while no cell is under way joins the two
\* ends with coherent numbers, whatever leg was lost and whoever closed it:
\* conflux_process_link and conflux_process_linked give it the counts the data
\* plane needs, and the set goes on delivering in order.
THEOREM RefillIsQuiet == RefillSpec => []QuietRefill
<1>1. RefillInit => RefillInv
  <2> SUFFICES ASSUME RefillInit PROVE IInv /\ LinkInv
    BY DEF RefillInv
  <2>1. IInv
    BY InitIInv DEF RefillInit
  <2>2. \A l \in Legs :
          /\ link[l] = [phase |-> IF l \in InitLegs THEN "done" ELSE "idle",
                        sent |-> 0, recv |-> 0]
          /\ legs["client"] = InitLegs /\ legs["exit"] = InitLegs
          /\ wire["client"][l] = <<>> /\ wire["exit"][l] = <<>>
    BY DEF RefillInit, Init, End
  <2>3. link \in [Legs -> [phase : Phases, sent : Nat, recv : Nat]]
    BY DEF RefillInit, Phases
  <2>4. \A l \in Legs : /\ link[l].phase \in {"done", "idle"}
                        /\ link[l].phase = "idle" => l \notin InitLegs
    <3> SUFFICES ASSUME NEW l \in Legs
                 PROVE  /\ link[l].phase \in {"done", "idle"}
                        /\ link[l].phase = "idle" => l \notin InitLegs
      OBVIOUS
    <3>1. link[l].phase = IF l \in InitLegs THEN "done" ELSE "idle"
      <4> DEFINE ph == IF l \in InitLegs THEN "done" ELSE "idle"
      <4>1. link[l] = [phase |-> ph, sent |-> 0, recv |-> 0]
        BY <2>2
      <4> HIDE DEF ph
      <4>2. link[l].phase = ph
        BY <4>1
      <4> QED BY <4>2 DEF ph
    <3>2. CASE l \in InitLegs
      BY <3>1, <3>2
    <3>3. CASE l \notin InitLegs
      BY <3>1, <3>3
    <3> QED BY <3>2, <3>3
  <2>5. Pending(link) = {}
    BY <2>4 DEF Pending
  <2>6. \A l \in Legs : Unused(l) /\ LinkTells(l) /\ LinkedTells(l)
    BY <2>2, <2>4 DEF Unused, LinkTells, LinkedTells
  <2> QED BY <2>1, <2>3, <2>5, <2>6 DEF LinkInv
<1>2. RefillInv => QuietRefill
  <2>1. IInv => InOrder /\ NoStaleCell /\ CurrentLegLeads
    BY InvariantSuffices
  <2> QED BY <2>1 DEF RefillInv, QuietRefill
<1> QED BY <1>1, <1>2, RefillStep, PTL DEF RefillSpec
=============================================================================
