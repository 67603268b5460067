----------------------------- MODULE StreamFlow -----------------------------
(***************************************************************************)
(* Flow control of one stream on a congestion-controlled circuit: how the  *)
(* sending edge is made to stop and to resume reading from its application *)
(* (congestion window, circuit queue, XOFF, bandwidth), and how the        *)
(* receiving edge decides to send XOFF and XON                             *)
(* (core/or/congestion_control_flow.c, relay.c, core/mainloop/).           *)
(*                                                                         *)
(* The unit of data is one cell.  The sender is a client, which validates  *)
(* the XOFFs and XONs it gets.  The windows of congestion control and the  *)
(* circuit queue are shared by the circuit's only stream.                  *)
(***************************************************************************)
EXTENDS Integers, Sequences, FiniteSetsExt, SequencesExt

CONSTANTS
  Total,        \* cells the application has to send
  Window,       \* the congestion window, in cells
  SendmeInc,    \* cells acknowledged by one SENDME
  High, Low,    \* cell_queue_highwatermark, cell_queue_lowwatermark
  Limit,        \* xoff_exit = xoff_client
  XonRate,      \* xon_rate_bytes
  Burst,        \* MAX_EXPECTED_CELL_BURST
  ReadSizes,    \* how many cells one read or one write may move
  WriteSizes,
  Rates,        \* the drain rates a measurement may give
  MaxRate,      \* INT32_MAX, the largest rate
  CountScale,   \* XON_COUNT_SCALE_AT = XOFF_COUNT_SCALE_AT
  TotalScale    \* TOTAL_XMIT_SCALE_AT

FlowAssumption ==
  /\ {Total, Window, SendmeInc, High, Low, Limit, XonRate, Burst, MaxRate}
       \subseteq Nat
  /\ 0 < SendmeInc /\ SendmeInc <= Window /\ Low < High
  /\ 0 < Limit /\ 0 < XonRate /\ Rates \subseteq 1 .. MaxRate
  /\ ReadSizes \cup WriteSizes \subseteq Nat \ {0}
  /\ 1 \in ReadSizes /\ 1 \in WriteSizes

VARIABLES
  app,     \* cells the sending application has written and tor not read
  snd,     \* the sending edge_connection_t and its circuit
  net,     \* data cells between the two edges
  rcv,     \* the receiving edge_connection_t
  back,    \* the cells on their way back to the sender, oldest first
  valid,   \* every XOFF and XON so far was accepted as valid
  calm     \* outbuf has been within Limit since the grace period began

flowVars == <<app, snd, net, rcv, back, valid, calm>>

FlowInit ==
  /\ app = Total
  /\ snd = [inbuf |-> 0, reading |-> TRUE, xoff |-> FALSE, bw |-> FALSE,
            window |-> Window, queue |-> 0, blocked |-> FALSE,
            xmit |-> 0, xoffs |-> 0, xons |-> 0]
  /\ net = 0
  /\ rcv = [outbuf |-> 0, xoffSent |-> FALSE, grace |-> FALSE,
            start |-> FALSE, drained |-> 0, ewma |-> 0, last |-> 0,
            unacked |-> 0]
  /\ back = <<>>
  /\ valid = TRUE
  /\ calm = TRUE

-----------------------------------------------------------------------------
(* The sender's side.  s is a value of snd.                                 *)

Stopped(s) == [s EXCEPT !.reading = FALSE]

\* append_cell_to_circuit_queue, for n cells: a queue that is or becomes too
\* long stops the stream, unless an XOFF has already taken over its reading.
Appended(s, n) ==
  LET blocked == s.blocked \/ (n > 0 /\ s.queue + n >= High)
  IN  [s EXCEPT !.queue = @ + n, !.blocked = blocked,
                !.reading = @ /\ (n = 0 \/ s.xoff \/ ~blocked)]

Halved(s) == [s EXCEPT !.xmit = @ \div 2, !.xoffs = @ \div 2,
                       !.xons = @ \div 2]

\* flow_control_note_sent_data
NoteSent(s) ==
  [(IF s.xmit >= TotalScale - 1 THEN Halved(s) ELSE s) EXCEPT !.xmit = @ + 1]

\* Its counters after n cells
Noted(s, n) == FoldLeft(LAMBDA r, i : NoteSent(r), s, [i \in 1 .. n |-> i])

\* The n cells that leave the inbuf, fill the window and join the queue
Packaged(s, n) ==
  LET c == Noted(s, n)
  IN  Appended([s EXCEPT !.inbuf = @ - n, !.window = @ - n, !.xmit = c.xmit,
                         !.xoffs = c.xoffs, !.xons = c.xons], n)

\* connection_edge_package_raw_inbuf: cells until the buffer, the window or
\* max runs out; after an XOFF one cell and no more.
Package(s, max) ==
  LET n == Max({0, Min({s.inbuf, s.window, max}
                         \cup (IF s.xoff THEN {1} ELSE {}))})
      t == Packaged(s, n)
  IN  IF max > 0 /\ (t.window <= 0 \/ (s.xoff /\ n > 0)) THEN Stopped(t) ELSE t

\* connection_start_reading, with the inbuf processed at once
StartReading(s) ==
  CASE s.xoff -> s
    [] ~s.xoff /\ s.inbuf = 0 -> [s EXCEPT !.reading = TRUE]
    [] OTHER -> Package([s EXCEPT !.reading = TRUE], Total)

\* circuit_resume_edge_reading
Resumed(s) ==
  LET t == StartReading(s)
      u == Package(t, Min({t.window, High - t.queue}))
  IN  CASE s.blocked -> s
        [] ~s.blocked /\ t.inbuf = 0 -> t
        [] OTHER -> IF u.window <= 0 THEN Stopped(u) ELSE u

-----------------------------------------------------------------------------
(* The receiver's side.  r is a value of rcv.                               *)

\* n_count_ewma with xon_ewma_cnt = 2
DrainEwma(curr, prev) == IF prev = 0 THEN curr ELSE (2 * curr + prev) \div 3

\* stream_drain_rate_changed with xon_change_pct = 25
RateChanged(r) ==
  /\ r.last # 0
  /\ \/ r.ewma > (125 * r.last) \div 100
     \/ r.ewma < (75 * r.last) \div 100

\* flow_control_decide_xon up to the decision, after n cells were written
Drained(r, n, rate) ==
  LET begins == ~r.start /\ r.outbuf > 0
      s == [r EXCEPT !.start = @ \/ begins,
                     !.drained = IF begins THEN 0 ELSE @ + n]
  IN  IF s.start /\ s.drained > XonRate
        THEN [s EXCEPT !.ewma = DrainEwma(rate, @), !.drained = 0, !.start = FALSE]
        ELSE s

\* Slip: an XON needs the advisory rate to have changed
WantsXonOnChange(r) == r.outbuf = 0 /\ RateChanged(r)

\* The two reasons for an XON
WantsXon(r) == IF r.xoffSent THEN r.outbuf = 0 ELSE RateChanged(r)

\* circuit_send_stream_xon
SentXon(r) == [r EXCEPT !.last = r.ewma, !.xoffSent = FALSE]

\* flow_control_decide_xon after the decision
Settled(r) ==
  LET doubles == r.drained >= XonRate /\ r.last # 0
      d == IF doubles THEN [r EXCEPT !.ewma = Min({MaxRate, 2 * @}),
                                     !.drained = 0]
                      ELSE r
  IN  IF r.outbuf = 0 THEN [d EXCEPT !.start = FALSE] ELSE r

\* flow_control_decide_xon: the new state and the cells sent
DecideXon(r, n, rate) ==
  LET d == Drained(r, n, rate)
  IN  IF WantsXon(d)
        THEN [rcv |-> Settled(SentXon(d)),
              sent |-> <<[cmd |-> "xon", rate |-> d.ewma]>>]
        ELSE [rcv |-> Settled(d), sent |-> <<>>]

Xoff == [cmd |-> "xoff", rate |-> 0]
SendmeCell == [cmd |-> "sendme", rate |-> 0]

\* The buffer is over its limit and the grace period is over.
SendsXoff(r, elapsed) ==
  r.outbuf > Limit /\ ~r.xoffSent /\ r.grace /\ elapsed

\* Slip: a buffer within the limit does not end the grace period
GraceKept(r, elapsed) ==
  CASE r.outbuf <= Limit \/ r.xoffSent -> r.grace
    [] OTHER                           -> ~(r.grace /\ elapsed)

\* xoff_grace_period_start_usec after flow_control_decide_xoff
Grace(r, elapsed) ==
  CASE r.outbuf <= Limit               -> FALSE
    [] r.outbuf > Limit /\ r.xoffSent -> r.grace
    [] OTHER                           -> ~(r.grace /\ elapsed)

\* flow_control_decide_xoff: it looks at the buffer before the cell is added
DecideXoff(r, elapsed, rate) ==
  LET xoff == SendsXoff(r, elapsed)
      t == [r EXCEPT !.grace = Grace(r, elapsed),
                     !.xoffSent = @ \/ xoff,
                     !.ewma = IF xoff THEN 0 ELSE @]
      x == IF r.outbuf > Burst THEN DecideXon(t, 0, rate)
                               ELSE [rcv |-> t, sent |-> <<>>]
  IN  [x EXCEPT !.sent = (IF xoff THEN <<Xoff>> ELSE <<>>) \o @]

-----------------------------------------------------------------------------
\* connection_handle_read_impl: n cells are read; the read bucket may run
\* out (connection_read_bw_exhausted) before they are packaged.
Read(n, exhausted) ==
  LET s == [snd EXCEPT !.inbuf = @ + n,
                       !.bw = @ \/ exhausted,
                       !.reading = ~exhausted]
  IN  /\ snd.reading
      /\ n <= app
      /\ app' = app - n
      /\ snd' = Package(s, Total)
      /\ UNCHANGED <<net, rcv, back, valid, calm>>

\* reenable_blocked_connections_cb
Reenable ==
  /\ snd.bw
  /\ snd' = [(IF snd.xoff THEN snd ELSE StartReading(snd)) EXCEPT !.bw = FALSE]
  /\ UNCHANGED <<app, net, rcv, back, valid, calm>>

\* set_block_state_for_streams, to unblock
Unblocked(s) ==
  LET t == [s EXCEPT !.blocked = FALSE]
  IN  IF s.xoff \/ s.reading THEN t ELSE StartReading(t)

\* channel_flush_from_first_active_circuit, one cell
Flush ==
  LET s == [snd EXCEPT !.queue = @ - 1]
  IN  /\ snd.queue > 0
      /\ snd' = IF s.blocked /\ s.queue <= Low THEN Unblocked(s) ELSE s
      /\ net' = net + 1
      /\ UNCHANGED <<app, rcv, back, valid, calm>>

\* A DATA cell reaches the other edge: sendme_circuit_consider_sending,
\* flow_control_decide_xoff, then the data goes to the outbuf.
Deliver(elapsed, rate) ==
  LET acks == rcv.unacked + 1 = SendmeInc
      x == DecideXoff(rcv, elapsed, rate)
      begins == x.rcv.grace /\ ~rcv.grace
  IN  /\ net > 0
      /\ net' = net - 1
      /\ rcv' = [x.rcv EXCEPT !.outbuf = @ + 1,
                              !.unacked = IF acks THEN 0 ELSE @ + 1]
      /\ back' = back \o (IF acks THEN <<SendmeCell>> ELSE <<>>) \o x.sent
      /\ calm' = IF begins THEN FALSE ELSE calm
      /\ UNCHANGED <<app, snd, valid>>

\* connection_handle_write_impl on the receiving edge
Write(n, rate) ==
  LET x == DecideXon([rcv EXCEPT !.outbuf = @ - n], n, rate)
  IN  /\ n <= rcv.outbuf
      /\ rcv' = x.rcv
      /\ back' = back \o x.sent
      /\ calm' = (calm \/ x.rcv.outbuf <= Limit)
      /\ UNCHANGED <<app, snd, net, valid>>

-----------------------------------------------------------------------------
Scaled(s, count) == IF count = CountScale THEN Halved(s) ELSE s

\* process_sendme_cell, circuit level
GetSendme ==
  /\ snd' = Resumed([snd EXCEPT !.window = @ + SendmeInc])
  /\ UNCHANGED valid

\* circuit_process_stream_xoff
GetXoff ==
  LET s == [Scaled(snd, snd.xoffs) EXCEPT !.xoffs = @ + 1]
  IN  IF snd.xoff
        THEN valid' = FALSE /\ UNCHANGED snd
        ELSE /\ valid' = (valid /\ s.xmit >= Limit * s.xoffs)
             /\ snd' = [Stopped(s) EXCEPT !.xoff = TRUE]

\* circuit_process_stream_xon
GetXon ==
  LET s == [Scaled(snd, snd.xons) EXCEPT !.xons = @ + 1]
  IN  /\ valid' = (valid /\ s.xmit >= Min({Limit, XonRate}) * s.xons)
      /\ snd' = IF s.xoff THEN StartReading([s EXCEPT !.xoff = FALSE]) ELSE s

\* A cell reaches the sending edge.
GetBack ==
  /\ back # <<>>
  /\ back' = Tail(back)
  /\ CASE Head(back).cmd = "sendme" -> GetSendme
       [] Head(back).cmd = "xoff"   -> GetXoff
       [] OTHER                     -> GetXon
  /\ UNCHANGED <<app, net, rcv, calm>>

Done == app + snd.inbuf + snd.queue + net + rcv.outbuf = 0 /\ back = <<>>

FlowNext ==
  \/ \E n \in ReadSizes, b \in BOOLEAN : Read(n, b)
  \/ Reenable
  \/ Flush
  \/ \E b \in BOOLEAN, r \in Rates : Deliver(b, r)
  \/ \E n \in WriteSizes, r \in Rates : Write(n, r)
  \/ GetBack

FlowSpec == FlowInit /\ [][FlowNext]_flowVars

-----------------------------------------------------------------------------
OnItsWay(cmd) == \E i \in DOMAIN back : back[i].cmd = cmd

\* An edge stops reading, or leaves read data unpackaged, only for a cause
\* that is still there, and every cause has something under way that will
\* end it: a SENDME, a queue to flush, a buffer to drain or an XON.
PausedForCause ==
  /\ snd.inbuf > 0 => snd.window <= 0 \/ snd.xoff \/ snd.blocked
  /\ snd.reading \/ snd.window <= 0 \/ snd.xoff \/ snd.blocked \/ snd.bw
  /\ snd.window <= 0 => snd.queue + net > 0 \/ OnItsWay("sendme")
  /\ snd.blocked => snd.queue > Low
  /\ snd.xoff => (rcv.xoffSent /\ rcv.outbuf > 0) \/ OnItsWay("xon")

XoffWaits == rcv'.xoffSent /\ ~rcv.xoffSent => ~calm

\* An XOFF is sent only when the buffer has stayed over its limit since the
\* grace period began: no flush in between brought it back within the limit.
XoffNeedsGrace == [][XoffWaits]_flowVars

\* The client never takes an XOFF or an XON of a correct exit for one too
\* many, or for a second XOFF in a row.
HonestIsValid == valid

\* Some step of FlowNext is possible (a read or a write of one cell always is).
CanMove == \/ (snd.reading /\ app > 0) \/ snd.bw
           \/ snd.queue > 0 \/ net > 0 \/ rcv.outbuf > 0 \/ back # <<>>

\* Pauses end.  PausedForCause: an edge stops reading, or leaves read data
\* unpackaged, only for a cause that is still there, and every cause has
\* something under way that will end it.  So a transfer comes to rest only when
\* all the application wrote has arrived.
PausesEnd == PausedForCause /\ (Done \/ CanMove)

-----------------------------------------------------------------------------
\* What a comment, an assertion or a name in the source says and the code does
\* not keep (README, section "Departures"): TLC refutes each of these.

\* An XON always carries a drain rate.
XonCarriesRate == \A i \in DOMAIN back : back[i].cmd = "xon" => back[i].rate > 0
=============================================================================
