---------------------------- MODULE ConfluxStream ----------------------------
(***************************************************************************)
(* The data plane of one linked conflux set (conflux.c, and the part of    *)
(* relay.c and conflux_pool.c it calls): two ends, the client and the      *)
(* exit, each multiplexing its cells over the legs of the set.             *)
(*                                                                         *)
(* No sequence number travels with a cell.  Each end counts, per leg, the  *)
(* multiplexed cells sent (last_seq_sent) and received (last_seq_recv);    *)
(* a sender that moves to another leg first sends a SWITCH on it whose     *)
(* relative number tells the receiver how far to advance that leg's count. *)
(* Cells that arrive early wait in the receiver's ooo_q.                   *)
(*                                                                         *)
(* Every multiplexed cell carries the ghost number of its place in the     *)
(* sender's order, so that "delivered in order" can be stated.             *)
(***************************************************************************)
EXTENDS Integers, Sequences, FiniteSets

CONSTANTS
  Legs,       \* circuits that can be legs of the set
  InitLegs,   \* the legs linked when the set becomes usable
  NoLeg,      \* the NULL curr_leg
  SendmeInc,  \* cc->sendme_inc: DATA cells acknowledged by one SENDME
  Cwnd,       \* cc->cwnd, in cells
  MaxOOO,     \* conflux_params_get_max_oooq(), in cells of unit cost
  MaxRel,     \* UINT32_MAX: a SWITCH must stay below it
  MaxCells    \* bound: multiplexed cells each end sends

ASSUME LegsAssumption == InitLegs \subseteq Legs /\ NoLeg \notin Legs

End == {"client", "exit"}

ASSUME NumbersAssumption ==
  /\ SendmeInc \in Nat \ {0}
  /\ Cwnd \in Nat
  /\ SendmeInc <= Cwnd
  /\ MaxOOO \in Nat
  /\ MaxRel \in Nat
  /\ MaxCells \in [End -> Nat]

Peer(e) == IF e = "client" THEN "exit" ELSE "client"

VARIABLES
  legs,       \* legs[e]: cfx->legs, the linked circuits at end e
  curr,       \* curr[e]: cfx->curr_leg
  lastSent,   \* lastSent[e][l]: leg->last_seq_sent
  lastRecv,   \* lastRecv[e][l]: leg->last_seq_recv
  inflight,   \* inflight[e][l]: cc->inflight
  unacked,    \* unacked[e][l]: DATA cells received since the last SENDME
  delivered,  \* delivered[e]: cfx->last_seq_delivered
  ooo,        \* ooo[e]: cfx->ooo_q, a set of [seq, cell]
  wire,       \* wire[e][l]: cells on their way from e on leg l, in order
  dead,       \* dead[e][l]: a DESTROY follows the cells of wire[e][l]
  nsent,      \* ghost, nsent[e]: multiplexed cells sent by e
  out         \* ghost, out[e]: cells handed to the streams of e

vars == <<legs, curr, lastSent, lastRecv, inflight, unacked, delivered, ooo,
          wire, dead, nsent, out>>

-----------------------------------------------------------------------------
(* Cells.  "data" and "ctl" (BEGIN, END, CONNECTED...) are multiplexed;    *)
(* "switch" and "sendme" belong to their leg.  abs is a ghost: the         *)
(* sender's last_seq_sent on this leg once the cell is sent.               *)

Multiplexed == {"data", "ctl"}

\* conflux_should_multiplex
ShouldMultiplex(cell) == cell.kind \in Multiplexed

Cell == [kind : Multiplexed \cup {"switch", "sendme"}, val : Nat, abs : Nat]

\* Largest of the counts in f over the legs of S, 0 if there are none.
MaxSeq(f, S) == IF S = {} THEN 0
                ELSE CHOOSE m \in {f[l] : l \in S} : \A l \in S : f[l] <= m

\* Cells appended to a wire that ends in a DESTROY go nowhere.
Push(e, l, cells) ==
  IF dead[e][l] THEN wire[e][l] ELSE wire[e][l] \o cells

-----------------------------------------------------------------------------
(* Closing legs.                                                            *)

\* cfx_del_leg: closing leg l at end e, where it has received up to number
\* rcvd, must tear the whole set down.
FullTeardown(e, l, rcvd) ==
  LET rest == legs[e] \ {l} IN
  \/ inflight[e][l] >= SendmeInc
  \/ /\ rest # {}
     /\ \/ MaxSeq(lastSent[e], rest) < lastSent[e][l]
        \/ MaxSeq(lastRecv[e], rest) < rcvd
  \/ curr[e] = l

\* linked_circuit_closed, conflux_mark_all_for_close: the legs that go when
\* the circuit of leg l is marked for close at end e.
ClosedWith(e, l, rcvd) == IF FullTeardown(e, l, rcvd) THEN legs[e] ELSE {l}

\* Mutant: the circuits are closed but no DESTROY is sent.
CloseLegsQuietly(e, S) ==
  /\ legs' = [legs EXCEPT ![e] = @ \ S]
  /\ curr' = [curr EXCEPT ![e] = IF @ \in S THEN NoLeg ELSE @]
  /\ UNCHANGED dead

\* The circuits of S are marked for close at end e: they leave the set and a
\* DESTROY follows what they still had queued.
CloseLegs(e, S) ==
  /\ legs' = [legs EXCEPT ![e] = @ \ S]
  /\ curr' = [curr EXCEPT ![e] = IF @ \in S THEN NoLeg ELSE @]
  /\ dead' = [dead EXCEPT ![e] = [l \in Legs |-> @[l] \/ l \in S]]

-----------------------------------------------------------------------------
(* Sending.                                                                 *)

\* circuit_ready_to_send: room in the window.  Whether the channel is blocked
\* is left to the choice of the leg.
ReadyToSend(e, l) == inflight[e][l] < Cwnd

\* conflux_pick_first_leg: any leg can be the one of lowest RTT.  It is also
\* picked when the set is only asked for its window.
PickFirstLeg(e, l) ==
  /\ curr[e] = NoLeg /\ l \in legs[e]
  /\ curr' = [curr EXCEPT ![e] = l]
  /\ UNCHANGED <<legs, lastSent, lastRecv, inflight, unacked, delivered, ooo,
                 wire, dead, nsent, out>>

\* The leg a cell goes out on if nothing better is ready.
CurrentLegs(e) == IF curr[e] = NoLeg THEN legs[e] ELSE {curr[e]}

\* conflux_decide_next_circ: each algorithm answers some ready leg or none;
\* only a cell that is not DATA is then sent on the current leg anyway.
CanSendOn(e, kind, base, l) ==
  /\ l \in legs[e]
  /\ ReadyToSend(e, l) \/ (kind = "ctl" /\ l = base)

\* Mutant: the relative number taken after the new leg's count was advanced.
RelativeTooLate(e, base, l) == 0

\* conflux_decide_circ_for_send when the chosen leg is not the current one:
\* the relative number of the SWITCH, and when it cannot be sent.
Relative(e, base, l) == lastSent[e][base] - lastSent[e][l]
SwitchFails(e, base, l) ==
  lastSent[e][l] > lastSent[e][base] \/ Relative(e, base, l) >= MaxRel

\* Mutant: the cell is counted on the leg it was first meant for.
TransmitCountsBase(e, kind, base, l) ==
  LET seq == lastSent[e][base]
      switch == IF l = base THEN <<>>
                ELSE << [kind |-> "switch", val |-> Relative(e, base, l),
                         abs |-> seq] >>
      cell == [kind |-> kind, val |-> nsent[e] + 1, abs |-> seq + 1]
  IN  /\ wire' = [wire EXCEPT ![e][l] = Push(e, l, switch \o << cell >>)]
      /\ lastSent' = [lastSent EXCEPT ![e][base] = seq + 1]
      /\ curr' = [curr EXCEPT ![e] = l]
      /\ nsent' = [nsent EXCEPT ![e] = @ + 1]
      /\ inflight' = [inflight EXCEPT
                        ![e][l] = IF kind = "data" THEN @ + 1 ELSE @]

\* The SWITCH (if any) and the cell put on leg l; conflux_note_cell_sent.
Transmit(e, kind, base, l) ==
  LET seq == lastSent[e][base]
      switch == IF l = base THEN <<>>
                ELSE << [kind |-> "switch", val |-> Relative(e, base, l),
                         abs |-> seq] >>
      cell == [kind |-> kind, val |-> nsent[e] + 1, abs |-> seq + 1]
  IN  /\ wire' = [wire EXCEPT ![e][l] = Push(e, l, switch \o << cell >>)]
      /\ lastSent' = [lastSent EXCEPT ![e][l] = seq + 1]
      /\ curr' = [curr EXCEPT ![e] = l]
      /\ nsent' = [nsent EXCEPT ![e] = @ + 1]
      /\ inflight' = [inflight EXCEPT
                        ![e][l] = IF kind = "data" THEN @ + 1 ELSE @]

\* relay_send_command_from_edge for a multiplexed command on a linked set.
SendCell(e, kind, base, l) ==
  /\ nsent[e] < MaxCells[e]
  /\ base \in CurrentLegs(e)
  /\ CanSendOn(e, kind, base, l)
  /\ IF l # base /\ SwitchFails(e, base, l)
     THEN /\ CloseLegs(e, legs[e])
          /\ UNCHANGED <<lastSent, wire, nsent, inflight>>
     ELSE Transmit(e, kind, base, l) /\ UNCHANGED <<legs, dead>>
  /\ UNCHANGED <<lastRecv, unacked, delivered, ooo, out>>

-----------------------------------------------------------------------------
(* Receiving.                                                               *)

\* The next cell that end e takes from leg l.
Arriving(e, l) == wire[Peer(e)][l]
HasCell(e, l, kinds) ==
  /\ l \in legs[e]
  /\ Arriving(e, l) # <<>>
  /\ Head(Arriving(e, l)).kind \in kinds

\* The entries of q with sequence numbers d+1 .. n leave it one after the
\* other: the head of the heap is always the number wanted next.
Drains(q, d, n) ==
  /\ \A c \in q : c.seq > d
  /\ \A k \in d+1 .. n : \E c \in q : c.seq = k
  /\ \A k \in d+1 .. n-1 : \A c1, c2 \in q :
       c1.seq = k /\ c2.seq = k => c1 = c2

\* Mutant: the queue is not looked at after an in-order cell.
DrainedNever(q, d) == d

\* conflux_dequeue_relay_msg, until it answers NULL: the last number dequeued.
DrainedTo(q, d) ==
  LET stops == {d} \cup {n \in {c.seq : c \in q} : n > d /\ Drains(q, d, n)}
  IN  CHOOSE n \in stops : \A m \in stops : m <= n

\* Which entries are dequeued, given the last number dequeued.
Dequeued(q, d, n) == [k \in 1 .. n - d |-> CHOOSE c \in q : c.seq = d + k]

\* Mutant: the SENDME is due one cell late.
AcknowledgeLate(e, l, kind) ==
  LET due == kind = "data" /\ unacked[e][l] = SendmeInc IN
  /\ unacked' = [unacked EXCEPT ![e][l] =
                   IF due THEN 0 ELSE IF kind = "data" THEN @ + 1 ELSE @]
  /\ wire' = [wire EXCEPT
                ![Peer(e)][l] = Tail(@),
                ![e][l] = IF due
                          THEN Push(e, l, << [kind |-> "sendme", val |-> 0,
                                              abs |-> lastSent[e][l]] >>)
                          ELSE @]

\* sendme_circuit_data_received and sendme_circuit_consider_sending: every
\* SendmeInc-th DATA cell of a leg is acknowledged at once, in order or not.
Acknowledge(e, l, kind) ==
  LET due == kind = "data" /\ unacked[e][l] + 1 = SendmeInc IN
  /\ unacked' = [unacked EXCEPT ![e][l] =
                   IF due THEN 0 ELSE IF kind = "data" THEN @ + 1 ELSE @]
  /\ wire' = [wire EXCEPT
                ![Peer(e)][l] = Tail(@),
                ![e][l] = IF due
                          THEN Push(e, l, << [kind |-> "sendme", val |-> 0,
                                              abs |-> lastSent[e][l]] >>)
                          ELSE @]

\* conflux_process_relay_msg and the dequeue loop of
\* connection_edge_process_relay_cell.  Handling one of the cells may fail or
\* close the circuit: the loop then stops where it is.
ReceiveCell(e, l) ==
  /\ HasCell(e, l, Multiplexed)
  /\ LET cell == Head(Arriving(e, l))
         seq == lastRecv[e][l] + 1
     IN
     /\ Acknowledge(e, l, cell.kind)
     /\ lastRecv' = [lastRecv EXCEPT ![e][l] = seq]
     /\ \/ /\ seq = delivered[e] + 1                  \* the cell is next
           /\ \E last \in seq .. DrainedTo(ooo[e], seq) :
                LET more == Dequeued(ooo[e], seq, last) IN
                /\ delivered' = [delivered EXCEPT ![e] = last]
                /\ out' = [out EXCEPT ![e] = @ \o << cell.val >> \o
                             [k \in 1 .. last - seq |-> more[k].cell]]
                /\ ooo' = [ooo EXCEPT
                             ![e] = @ \ {more[k] : k \in 1 .. last - seq}]
                /\ \/ /\ last = DrainedTo(ooo[e], seq)
                      /\ UNCHANGED <<legs, curr, dead>>
                   \/ CloseLegs(e, ClosedWith(e, l, seq))
        \/ /\ seq > delivered[e] + 1                  \* early: it waits
           /\ Cardinality(ooo[e]) < MaxOOO
           /\ ooo' = [ooo EXCEPT
                        ![e] = @ \cup {[seq |-> seq, cell |-> cell.val]}]
           /\ UNCHANGED <<legs, curr, dead, delivered, out>>
        \/ /\ \/ seq <= delivered[e]                  \* already delivered
              \/ /\ seq > delivered[e] + 1            \* no room to wait
                 /\ Cardinality(ooo[e]) >= MaxOOO
           /\ CloseLegs(e, ClosedWith(e, l, seq))
           /\ UNCHANGED <<ooo, delivered, out>>
  /\ UNCHANGED <<lastSent, inflight, nsent>>

\* Take the cell at the head of leg l and nothing else.
Consume(e, l) == wire' = [wire EXCEPT ![Peer(e)][l] = Tail(@)]

\* conflux_process_switch_command
ReceiveSwitch(e, l) ==
  /\ HasCell(e, l, {"switch"})
  /\ lastRecv' = [lastRecv EXCEPT ![e][l] = @ + Head(Arriving(e, l)).val]
  /\ Consume(e, l)
  /\ UNCHANGED <<legs, curr, lastSent, inflight, unacked, delivered, ooo,
                 dead, nsent, out>>

\* Mutant: a SENDME takes one cell off the flight.
ReceiveSendmeByOne(e, l) ==
  /\ HasCell(e, l, {"sendme"})
  /\ inflight' = [inflight EXCEPT ![e][l] = @ - 1]
  /\ Consume(e, l)
  /\ UNCHANGED <<legs, curr, lastSent, lastRecv, unacked, delivered, ooo,
                 dead, nsent, out>>

\* The circuit-level SENDME: congestion control takes sendme_inc cells off
\* the flight.
ReceiveSendme(e, l) ==
  /\ HasCell(e, l, {"sendme"})
  /\ inflight' = [inflight EXCEPT ![e][l] = @ - SendmeInc]
  /\ Consume(e, l)
  /\ UNCHANGED <<legs, curr, lastSent, lastRecv, unacked, delivered, ooo,
                 dead, nsent, out>>

-----------------------------------------------------------------------------
(* Circuits end.                                                            *)

\* The circuit of leg l is marked for close at end e: by its owner's choice
\* (the health monitor, a timeout, the OOM handler), or by a DESTROY.
MarkForClose(e, l) ==
  /\ l \in legs[e]
  /\ CloseLegs(e, ClosedWith(e, l, lastRecv[e][l]))
  /\ UNCHANGED <<lastSent, lastRecv, inflight, unacked, delivered, ooo, wire,
                 nsent, out>>

ReceiveDestroy(e, l) ==
  /\ dead[Peer(e)][l] /\ Arriving(e, l) = <<>>
  /\ MarkForClose(e, l)

\* A relay on the path of leg l fails: each end will see a DESTROY.
RelayFails(l) ==
  /\ \E e \in End : ~dead[e][l] /\ l \in legs[e]
  /\ dead' = [e \in End |-> [dead[e] EXCEPT ![l] = TRUE]]
  /\ UNCHANGED <<legs, curr, lastSent, lastRecv, inflight, unacked, delivered,
                 ooo, wire, nsent, out>>

\* A DESTROY overtakes cells that were queued before it: every hop clears the
\* queue of a circuit it destroys.
DropTail(e, l) ==
  /\ dead[e][l] /\ wire[e][l] # <<>>
  /\ wire' = [wire EXCEPT ![e][l] = SubSeq(@, 1, Len(@) - 1)]
  /\ UNCHANGED <<legs, curr, lastSent, lastRecv, inflight, unacked, delivered,
                 ooo, dead, nsent, out>>

-----------------------------------------------------------------------------
Init ==
  /\ legs = [e \in End |-> InitLegs]
  /\ curr = [e \in End |-> NoLeg]
  /\ lastSent = [e \in End |-> [l \in Legs |-> 0]]
  /\ lastRecv = [e \in End |-> [l \in Legs |-> 0]]
  /\ inflight = [e \in End |-> [l \in Legs |-> 0]]
  /\ unacked = [e \in End |-> [l \in Legs |-> 0]]
  /\ delivered = [e \in End |-> 0]
  /\ ooo = [e \in End |-> {}]
  /\ wire = [e \in End |-> [l \in Legs |-> <<>>]]
  /\ dead = [e \in End |-> [l \in Legs |-> FALSE]]
  /\ nsent = [e \in End |-> 0]
  /\ out = [e \in End |-> <<>>]

Receive(e, l) ==
  \/ ReceiveCell(e, l)
  \/ ReceiveSwitch(e, l)
  \/ ReceiveSendme(e, l)
  \/ ReceiveDestroy(e, l)

Next ==
  \/ \E e \in End, kind \in Multiplexed, base, l \in Legs :
       SendCell(e, kind, base, l)
  \/ \E e \in End, l \in Legs :
       \/ PickFirstLeg(e, l) \/ Receive(e, l)
       \/ MarkForClose(e, l) \/ DropTail(e, l)
  \/ \E l \in Legs : RelayFails(l)

\* Channels deliver what they carry as long as the circuit lives.
Fairness == \A e \in End, l \in Legs : WF_vars(Receive(e, l))

Spec == Init /\ [][Next]_vars
FairSpec == Spec /\ Fairness

-----------------------------------------------------------------------------
(* Properties.                                                              *)

TypeOK ==
  /\ legs \in [End -> SUBSET Legs]
  /\ curr \in [End -> Legs \cup {NoLeg}]
  /\ lastSent \in [End -> [Legs -> Nat]]
  /\ lastRecv \in [End -> [Legs -> Nat]]
  /\ inflight \in [End -> [Legs -> Int]]
  /\ unacked \in [End -> [Legs -> 0 .. SendmeInc - 1]]
  /\ delivered \in [End -> Nat]
  /\ ooo \in [End -> SUBSET [seq : Nat, cell : Nat]]
  /\ wire \in [End -> [Legs -> Seq(Cell)]]
  /\ dead \in [End -> [Legs -> BOOLEAN]]
  /\ nsent \in [End -> Nat]
  /\ out \in [End -> Seq(Nat)]

\* The streams of each end have been handed exactly the first
\* last_seq_delivered cells the other end sent, each once and in the order it
\* sent them, whatever legs they came by and whatever legs were lost.
InOrder ==
  \A e \in End : /\ Len(out[e]) = delivered[e]
                 /\ \A i \in 1 .. Len(out[e]) : out[e][i] = i

\* No cell reaches an end with a number it has already delivered: the branch
\* of conflux_process_relay_msg that closes the circuit for it is never taken
\* between two correct ends.
NoStaleCell ==
  \A e \in End, l \in Legs :
    HasCell(e, l, Multiplexed) => lastRecv[e][l] + 1 > delivered[e]

\* The current leg has the highest last_seq_sent, so the relative number of a
\* SWITCH is never negative and conflux_decide_circ_for_send never closes a
\* set for incoherent numbers.
CurrentLegLeads ==
  \A e \in End : curr[e] # NoLeg =>
    \A l \in legs[e] : lastSent[e][l] <= lastSent[e][curr[e]]

\* How many cells of a kind wire w carries.
Carried(w, kind) == Cardinality({i \in 1 .. Len(w) : w[i].kind = kind})

\* cc->inflight counts every DATA cell that is not yet acknowledged: those on
\* the wire, those the other end has counted towards its next SENDME, and
\* those of the SENDMEs on their way back.  It never underflows.
FlightBalance ==
  \A e \in End, l \in legs["client"] \cap legs["exit"] :
    ~dead[e][l] /\ ~dead[Peer(e)][l] =>
      inflight[e][l] = Carried(wire[e][l], "data") + unacked[Peer(e)][l]
                       + SendmeInc * Carried(wire[Peer(e)][l], "sendme")

\* While no circuit has been lost, every cell that is sent is delivered.
AllDelivered ==
  \A e \in End : \A n \in 1 .. MaxCells[e] :
    nsent[e] >= n ~> \/ delivered[Peer(e)] >= n
                     \/ \E f \in End, l \in Legs : dead[f][l]

\* A set that is gone at one end goes at the other too: neither end is left
\* waiting on a set whose peer has torn it down.
TeardownSpreads ==
  \A e \in End : legs[e] = {} ~> legs[Peer(e)] = {}

\* To its streams the set is the reliable ordered channel of ConfluxService:
\* every step hands over the next cells in order, or nothing.
Service == INSTANCE ConfluxService WITH sent <- nsent, got <- out
ImplementsService == Service!Spec

-----------------------------------------------------------------------------
(* The invariant behind InOrder.  The sequence number a cell is given by   *)
(* its receiver is the count of its leg plus what the cells ahead of it    *)
(* on the leg add; the ghost abs of every cell says that number.           *)

\* How far a cell moves its receiver's count.
Advance(cell) == IF ShouldMultiplex(cell) THEN 1
                 ELSE IF cell.kind = "switch" THEN cell.val ELSE 0

\* A receiver that has counted r will have counted this much when it comes to
\* cell i of wire w, and when it has taken all of w.
CountBefore(r, w, i) == IF i = 1 THEN r ELSE w[i - 1].abs
CountAfter(r, w) == IF w = <<>> THEN r ELSE w[Len(w)].abs

WireCoherent(r, w) ==
  \A i \in 1 .. Len(w) : w[i].abs = CountBefore(r, w, i) + Advance(w[i])

\* Both ends agree on every leg they have: what the receiver has counted, plus
\* what is on the wire, is what the sender has counted.
LegCoherent(e, l) ==
  l \in legs[Peer(e)] =>
    /\ WireCoherent(lastRecv[Peer(e)][l], wire[e][l])
    /\ l \in legs[e] /\ ~dead[e][l] =>
         lastSent[e][l] = CountAfter(lastRecv[Peer(e)][l], wire[e][l])

\* The count of the current leg is the number of cells sent on the set.
SenderCounts(e) ==
  /\ \A l \in Legs : lastSent[e][l] <= nsent[e]
  /\ curr[e] # NoLeg => curr[e] \in legs[e] /\ lastSent[e][curr[e]] = nsent[e]
  /\ curr[e] = NoLeg => legs[e] = {} \/ nsent[e] = 0

\* A cell on the wire is numbered by its place in the sender's order and is
\* not delivered or queued yet.
CellPending(e, c) ==
  /\ c.val = c.abs
  /\ c.val > delivered[Peer(e)] /\ c.val <= nsent[e]
  /\ \A w \in ooo[Peer(e)] : w.seq # c.val

WireCells(e) ==
  \A l \in Legs : \A i \in 1 .. Len(wire[e][l]) :
    ShouldMultiplex(wire[e][l][i]) => CellPending(e, wire[e][l][i])

\* No cell is on the wires twice.
WireUnique(e) ==
  \A l, m \in Legs :
    \A i \in 1 .. Len(wire[e][l]), j \in 1 .. Len(wire[e][m]) :
      /\ ShouldMultiplex(wire[e][l][i]) /\ ShouldMultiplex(wire[e][m][j])
      /\ wire[e][l][i].val = wire[e][m][j].val
      => l = m /\ i = j

\* A cell in the ooo_q waits under its own number, which is still to come.
QueuedCells(e) ==
  /\ delivered[e] <= nsent[Peer(e)]
  /\ \A c \in ooo[e] : /\ c.seq = c.cell
                        /\ c.seq > delivered[e] /\ c.seq <= nsent[Peer(e)]

\* The two ends' sequence numbers are coherent in every reachable state: the
\* inductive invariant from which InOrder, NoStaleCell and CurrentLegLeads
\* follow.
SequenceInv ==
  /\ \A e \in End, l \in Legs : LegCoherent(e, l)
  /\ \A e \in End : /\ SenderCounts(e) /\ WireCells(e) /\ WireUnique(e)
                    /\ QueuedCells(e)
  /\ InOrder

-----------------------------------------------------------------------------
\* What a comment, an assertion or a name in the source says and the code does
\* not keep (README, section "Departures"): TLC refutes each of these.

\* A circuit that closes with data in flight takes the set with it (what the
\* comment in cfx_del_leg says): once both ends have seen every close and
\* still hold the same legs, no cell is missing for good; each one sent is
\* delivered, waits in the ooo_q, or is on a leg both ends still have.
LossTearsDown ==
  LET common == legs["client"] \cap legs["exit"] IN
  (legs["client"] = legs["exit"] /\ common # {}) =>
    \A e \in End : \A n \in 1 .. nsent[e] :
      \/ n <= delivered[Peer(e)]
      \/ \E c \in ooo[Peer(e)] : c.cell = n
      \/ \E l \in common : \/ dead[e][l] \/ dead[Peer(e)][l]
                            \/ \E i \in 1 .. Len(wire[e][l]) :
                                 /\ ShouldMultiplex(wire[e][l][i])
                                 /\ wire[e][l][i].val = n
=============================================================================
