---------------------------- MODULE ChannelSched ----------------------------
(***************************************************************************)
(* The cell scheduler and the life of the channels it serves               *)
(* (core/or/scheduler.c, scheduler_kist.c, scheduler_vanilla.c, channel.c, *)
(* channeltls.c, connection_or.c).                                         *)
(*                                                                         *)
(* A channel is in one of four scheduler states; the pending ones are in a *)
(* heap, and one event runs the scheduler while the heap is not empty.     *)
(* Everything runs in the main thread, but a run of the scheduler calls    *)
(* code that queues cells, makes other channels pending and closes         *)
(* channels, so a run is several steps here, which nothing else            *)
(* interrupts.  KIST runs without kernel information (KISTLite).           *)
(***************************************************************************)
EXTENDS Integers, FiniteSets

CONSTANTS
  Chan,       \* the channels
  None,       \* no channel
  HighMark, LowMark,  \* or_conn_highwatermark, or_conn_lowwatermark, in cells
  Batch,      \* an outbuf over this is written at the next channel's turn
  MaxCells    \* how many cells are queued in all

SchedAssumption ==
  /\ None \notin Chan
  /\ {HighMark, LowMark, Batch, MaxCells} \subseteq Nat
  /\ 0 < LowMark /\ LowMark < HighMark

VARIABLES
  life,     \* channel_t.state
  conn,     \* channel_tls_t.conn is not NULL
  guard,    \* what the guard code has been told of a connection
  q,        \* scheduler_state of each channel, channels_pending, run_sched_ev
  cells,    \* cells in the circuitmux
  outbuf,   \* cells in the connection's outbuf
  sock,     \* KIST's socket_table: the cells a channel may still write, or -1
  kist,     \* the_scheduler is KISTLite, not vanilla
  run,      \* the progress of a run
  left      \* cells still to be queued

schedVars == <<life, conn, guard, q, cells, outbuf, sock, kist, run, left>>

NoEntry == -1
NoRun == [pc |-> "off", cur |-> None, prev |-> None, table |-> {}, readd |-> {}]

SchedInit ==
  /\ life = [c \in Chan |-> "opening"]
  /\ conn = [c \in Chan |-> TRUE]
  /\ guard = [c \in Chan |-> "waits"]
  /\ q = [sched |-> [c \in Chan |-> "idle"], heap |-> {}, ev |-> FALSE]
  /\ cells = [c \in Chan |-> 0]
  /\ outbuf = [c \in Chan |-> 0]
  /\ sock = [c \in Chan |-> NoEntry]
  /\ kist \in BOOLEAN
  /\ run = NoRun
  /\ left = MaxCells

-----------------------------------------------------------------------------
(* The scheduler's interface.  s is a value of q.                           *)

Scheduled(s) == [s EXCEPT !.ev = @ \/ s.heap # {}]

MadePending(s, c) ==
  Scheduled([s EXCEPT !.sched[c] = "pending", !.heap = @ \cup {c}])

\* scheduler_channel_has_waiting_cells, for each channel of D
HaveCells(s, D) ==
  LET woken == {d \in D : s.sched[d] = "waitCells"}
      next(c) == CASE c \in woken                      -> "pending"
                   [] c \in D /\ s.sched[c] = "idle"   -> "waitWrite"
                   [] OTHER                           -> s.sched[c]
  IN  [s EXCEPT !.sched = [c \in Chan |-> next(c)],
                !.heap = @ \cup woken, !.ev = @ \/ woken # {}]

HasCells(s, c) == HaveCells(s, {c})

\* scheduler_channel_wants_writes
WantsWrites(s, c) ==
  CASE s.sched[c] = "waitWrite" -> MadePending(s, c)
    [] s.sched[c] = "idle"      -> [s EXCEPT !.sched[c] = "waitCells"]
    [] OTHER                    -> s

\* Slip: the heap is left alone unless the channel is in state pending
ReleasedIfPending(s, c) ==
  IF s.sched[c] = "pending" THEN [s EXCEPT !.sched[c] = "idle"] ELSE s

\* scheduler_release_channel (and kist_on_channel_free_fn: see Freed)
Released(s, c) == [s EXCEPT !.heap = @ \ {c}, !.sched[c] = "idle"]

Freed(c) == [sock EXCEPT ![c] = NoEntry]

Writeable(c) == IF outbuf[c] < HighMark THEN HighMark - outbuf[c] ELSE 0

\* KIST's socket_can_write; a channel without an entry may write.
CanWrite(c) == sock[c] # 0

-----------------------------------------------------------------------------
(* Channels, outside a run.                                                 *)

\* A circuit may be on the channel: channel_closed has not unlinked it.
HasCircuits(c) == life[c] \in {"open", "closing"}

\* append_cell_to_circuit_queue
QueueCell(c) ==
  /\ run.pc = "off" /\ left > 0
  /\ HasCircuits(c)
  /\ cells' = [cells EXCEPT ![c] = @ + 1]
  /\ left' = left - 1
  /\ q' = HasCells(q, c)
  /\ UNCHANGED <<life, conn, guard, outbuf, sock, kist, run>>

\* A handshake message is flushed: connection_or_flushed_some
Handshake(c) ==
  /\ run.pc = "off"
  /\ life[c] = "opening"
  /\ q' = WantsWrites(q, c)
  /\ UNCHANGED <<life, conn, guard, cells, outbuf, sock, kist, run, left>>

\* channel_tls_handle_state_change_on_orconn: circuit_n_chan_done sends the
\* CREATE cells of the n circuits that wait for the channel.
Open(c, n) ==
  /\ run.pc = "off"
  /\ life[c] = "opening"
  /\ n <= left
  /\ life' = [life EXCEPT ![c] = "open"]
  /\ guard' = [guard EXCEPT ![c] = "open"]
  /\ cells' = [cells EXCEPT ![c] = @ + n]
  /\ left' = left - n
  /\ LET s == IF n > 0 THEN HasCells(q, c) ELSE q
     IN  q' = IF Writeable(c) > 0 THEN WantsWrites(s, c) ELSE s
  /\ UNCHANGED <<conn, outbuf, sock, kist, run>>

\* channel_mark_for_close and channel_close_from_lower_layer
Close(c) ==
  /\ run.pc = "off"
  /\ life[c] \in {"opening", "open"}
  /\ life' = [life EXCEPT ![c] = "closing"]
  /\ q' = Released(q, c)
  /\ sock' = Freed(c)
  /\ UNCHANGED <<conn, guard, cells, outbuf, kist, run, left>>

\* connection_or_client_learned_peer_id finds the wrong identity
WrongIdentity(c) ==
  /\ run.pc = "off"
  /\ life[c] = "opening"
  /\ life' = [life EXCEPT ![c] = "closing"]
  /\ guard' = [guard EXCEPT ![c] = "told"]
  /\ q' = Released(q, c)
  /\ sock' = Freed(c)
  /\ UNCHANGED <<conn, cells, outbuf, kist, run, left>>

\* connection_or_about_to_close: channel_closed, then the pointers between
\* connection and channel are cut, then the guard code is called with the
\* channel of the connection.
ConnGone(c) ==
  /\ run.pc = "off"
  /\ life[c] = "closing" /\ conn[c]
  /\ life' = [life EXCEPT ![c] = "finished"]
  /\ q' = Released(q, c)
  /\ sock' = Freed(c)
  /\ cells' = [cells EXCEPT ![c] = 0]
  /\ outbuf' = [outbuf EXCEPT ![c] = 0]
  /\ conn' = [conn EXCEPT ![c] = FALSE]
  /\ guard' = [guard EXCEPT ![c] = IF @ = "waits" THEN "untold" ELSE @]
  /\ UNCHANGED <<kist, run, left>>

\* channel_run_cleanup, channel_free_
Cleanup(c) ==
  /\ run.pc = "off"
  /\ life[c] = "finished"
  /\ life' = [life EXCEPT ![c] = "freed"]
  /\ q' = Released(q, c)
  /\ sock' = Freed(c)
  /\ UNCHANGED <<conn, guard, cells, outbuf, kist, run, left>>

-----------------------------------------------------------------------------
\* connection_handle_write on a channel's connection: k cells go to the
\* kernel (connection_or_flushed_some), or the write fails and the channel is
\* closed (connection_or_notify_error).
KernelWrite(c, k, ok) ==
  /\ k <= outbuf[c] /\ (ok \/ outbuf[c] > 0)
  /\ IF ok
       THEN /\ outbuf' = [outbuf EXCEPT ![c] = @ - k]
            /\ q' = IF k > 0 /\ outbuf[c] - k < LowMark THEN WantsWrites(q, c)
                                                    ELSE q
            /\ UNCHANGED <<life, sock>>
       ELSE /\ life' = [life EXCEPT ![c] = "closing"]
            /\ q' = IF life[c] = "closing" THEN q ELSE Released(q, c)
            /\ sock' = IF life[c] = "closing" THEN sock ELSE Freed(c)
            /\ UNCHANGED outbuf

\* The socket becomes writeable.
SocketEvent(c, k, ok) ==
  /\ run.pc = "off"
  /\ conn[c] /\ outbuf[c] > 0 /\ k > 0
  /\ KernelWrite(c, k, ok)
  /\ UNCHANGED <<conn, guard, cells, kist, run, left>>

\* set_scheduler: a new consensus or configuration changes the scheduler.
Switch ==
  /\ run.pc = "off"
  /\ kist' = ~kist
  /\ sock' = IF kist THEN [c \in Chan |-> NoEntry] ELSE sock
  /\ UNCHANGED <<life, conn, guard, q, cells, outbuf, run, left>>

-----------------------------------------------------------------------------
(* A run: scheduler_evt_callback.                                           *)

Begin ==
  /\ run.pc = "off" /\ q.ev
  /\ q' = [q EXCEPT !.ev = FALSE]
  /\ run' = [run EXCEPT !.pc = "pick"]
  /\ sock' = [c \in Chan |-> IF kist /\ c \in q.heap THEN Writeable(c)
                                                    ELSE sock[c]]
  /\ UNCHANGED <<life, conn, guard, cells, outbuf, kist, left>>

\* KIST: the next channel is popped; the one before may be written out.
Pick(c) ==
  /\ run.pc = "pick" /\ kist
  /\ c \in q.heap
  /\ q' = [q EXCEPT !.heap = @ \ {c}]
  /\ LET out == run.prev \notin {None, c} /\ outbuf[run.prev] > Batch
         pc == CASE out -> "write" [] ~out /\ CanWrite(c) -> "flush"
                 [] OTHER -> "decide"
     IN  run' = [run EXCEPT
                   !.pc = pc, !.cur = c,
                   !.prev = IF out THEN @ ELSE c,
                   !.table = (@ \cup {c}) \ (IF out THEN {run.prev} ELSE {})]
  /\ UNCHANGED <<life, conn, guard, cells, outbuf, sock, kist, left>>

\* channel_write_to_kernel of the channel before
WritePrev(k, ok) ==
  /\ run.pc = "write"
  /\ KernelWrite(run.prev, k, ok)
  /\ run' = [run EXCEPT !.pc = IF CanWrite(run.cur) THEN "flush" ELSE "decide",
                        !.prev = run.cur]
  /\ UNCHANGED <<conn, guard, cells, kist, left>>

\* A cell of channel c is flushed, if it has one, which may unblock streams
\* (set_circuit_blocked_on_chan): they read and package at once, and the legs
\* of their conflux set bring a cell to each channel of D, c perhaps included.
\* n is the number of cells flushed.
Flushed(c, n, D) ==
  /\ n = IF life[c] = "open" /\ cells[c] > 0 THEN 1 ELSE 0
  /\ D # {} => n = 1
  /\ Cardinality(D) <= left /\ \A d \in D : HasCircuits(d)
  /\ cells' = [x \in Chan |-> cells[x] - (IF x = c THEN n ELSE 0)
                                       + (IF x \in D THEN 1 ELSE 0)]
  /\ left' = left - Cardinality(D)
  /\ outbuf' = [outbuf EXCEPT ![c] = @ + n]

\* KIST: channel_flush_some_cells(chan, 1).  A channel that came into the heap
\* during the run may have no entry in the table: nothing limits it.
FlushOne(n, D) ==
  LET c == run.cur
  IN  /\ run.pc = "flush"
      /\ Flushed(c, n, D)
      /\ IF n = 1
           THEN /\ q' = HaveCells(q, D)
                /\ run' = [run EXCEPT !.pc = "decide"]
                /\ sock' = [sock EXCEPT ![c] = IF @ > 0 THEN @ - 1 ELSE @]
           ELSE /\ q' = [q EXCEPT !.sched[c] = IF life[c] = "open"
                                                 THEN "waitCells" ELSE "idle"]
                /\ run' = [run EXCEPT !.pc = "pick"]
                /\ UNCHANGED sock
      /\ UNCHANGED <<life, conn, guard, kist>>

\* The write of a cell fails: channel_mark_for_close from within, and with it
\* fails the write of all other cells.  vanilla overwrites the state.
FlushFails ==
  LET c == run.cur
      s == Released(q, c)
  IN  /\ run.pc \in {"flush", "serve"}
      /\ life[c] = "open" /\ cells[c] > 0
      /\ run.pc = "serve" => Writeable(c) > 0
      /\ cells' = [cells EXCEPT ![c] = 0]
      /\ life' = [life EXCEPT ![c] = "closing"]
      /\ q' = IF run.pc = "flush" THEN s ELSE [s EXCEPT !.sched[c] = "waitCells"]
      /\ sock' = Freed(c)
      /\ run' = [run EXCEPT !.pc = "pick"]
      /\ UNCHANGED <<conn, guard, outbuf, kist, left>>

\* Slip: a channel that hit its limit with cells left is not remembered
DecideDrops ==
  LET c == run.cur
      more == cells[c] > 0 /\ CanWrite(c)
  IN  /\ run.pc = "decide"
      /\ q' = [q EXCEPT !.sched[c] = IF cells[c] = 0 THEN "waitCells" ELSE @,
                        !.heap = IF more THEN @ \cup {c} ELSE @]
      /\ run' = [run EXCEPT !.pc = "pick"]
      /\ UNCHANGED <<life, conn, guard, cells, outbuf, sock, kist, left>>

\* The four cases at the end of KIST's loop
Decide ==
  LET c == run.cur
      later == cells[c] > 0 /\ ~CanWrite(c)
  IN  /\ run.pc = "decide"
      /\ q' = CASE cells[c] = 0 -> [q EXCEPT !.sched[c] = "waitCells"]
                [] cells[c] > 0 /\ CanWrite(c) ->
                     [q EXCEPT !.sched[c] = "pending", !.heap = @ \cup {c}]
                [] OTHER -> q
      /\ run' = [run EXCEPT !.pc = "pick",
                            !.readd = IF later THEN @ \cup {c} ELSE @]
      /\ UNCHANGED <<life, conn, guard, cells, outbuf, sock, kist, left>>

\* vanilla_scheduler_run: the next channel is popped.
VanillaPick(c) ==
  /\ run.pc = "pick" /\ ~kist
  /\ c \in q.heap
  /\ q' = [q EXCEPT !.heap = @ \ {c},
                    !.sched[c] = IF Writeable(c) = 0 THEN "waitWrite" ELSE @]
  /\ run' = [run EXCEPT !.pc = IF Writeable(c) = 0 THEN "pick" ELSE "serve",
                        !.cur = c]
  /\ UNCHANGED <<life, conn, guard, cells, outbuf, sock, kist, left>>

\* It is flushed while it has cells and the outbuf takes more: flushed grows as
\* the outbuf does, so flushed < n_cells as long as it is writeable.
VanillaFlush(n, D) ==
  LET c == run.cur
  IN  /\ run.pc = "serve" /\ Writeable(c) > 0
      /\ Flushed(c, n, D)
      /\ IF n = 1
           THEN q' = HaveCells(q, D) /\ UNCHANGED run
           ELSE /\ q' = [q EXCEPT !.sched[c] = "waitCells"]
                /\ run' = [run EXCEPT !.pc = "pick"]
      /\ UNCHANGED <<life, conn, guard, sock, kist>>

\* The outbuf is full.
VanillaDecide ==
  LET c == run.cur
  IN  /\ run.pc = "serve" /\ Writeable(c) = 0
      /\ q' = [q EXCEPT !.sched[c] = IF cells[c] > 0 THEN "waitWrite" ELSE "idle"]
      /\ run' = [run EXCEPT !.pc = "pick"]
      /\ UNCHANGED <<life, conn, guard, cells, outbuf, sock, kist, left>>

Served == run.pc = "rest" \/ (run.pc = "pick" /\ q.heap = {})

\* KIST: the outbufs of the channels served go to the kernel.
WriteRest(c, k, ok) ==
  /\ Served
  /\ c \in run.table
  /\ KernelWrite(c, k, ok)
  /\ run' = [run EXCEPT !.pc = "rest", !.table = @ \ {c}]
  /\ UNCHANGED <<conn, guard, cells, kist, left>>

\* The channels that hit their limit are pending again, and the event is
\* scheduled while there is work.
End ==
  /\ Served
  /\ run.table = {}
  /\ q' = Scheduled([q EXCEPT
             !.heap = @ \cup run.readd,
             !.sched = [c \in Chan |-> IF c \in run.readd THEN "pending"
                                                         ELSE @[c]]])
  /\ run' = NoRun
  /\ UNCHANGED <<life, conn, guard, cells, outbuf, sock, kist, left>>

-----------------------------------------------------------------------------
RunStep ==
  \/ Begin
  \/ \E c \in Chan : Pick(c)
  \/ \E k \in 0 .. MaxCells, ok \in BOOLEAN : WritePrev(k, ok)
  \/ \E n \in {0, 1}, D \in SUBSET Chan : FlushOne(n, D)
  \/ FlushFails
  \/ Decide
  \/ \E c \in Chan : VanillaPick(c)
  \/ \E n \in {0, 1}, D \in SUBSET Chan : VanillaFlush(n, D)
  \/ VanillaDecide
  \/ \E c \in Chan, k \in 0 .. MaxCells, ok \in BOOLEAN : WriteRest(c, k, ok)
  \/ End

Socket(c) == \E k \in 1 .. MaxCells, ok \in BOOLEAN : SocketEvent(c, k, ok)

SchedNext ==
  \/ RunStep
  \/ \E c \in Chan :
       \/ QueueCell(c)
       \/ Handshake(c)
       \/ \E n \in 0 .. MaxCells : Open(c, n)
       \/ Close(c)
       \/ WrongIdentity(c)
       \/ ConnGone(c)
       \/ Cleanup(c)
       \/ Socket(c)
  \/ Switch

SchedSpec == SchedInit /\ [][SchedNext]_schedVars

\* The event loop runs every event that stays due, and it serves a writeable
\* socket also when it runs the scheduler all the time.
FairSpec ==
  /\ SchedSpec
  /\ WF_schedVars(RunStep)
  /\ \A c \in Chan : SF_schedVars(Socket(c))

-----------------------------------------------------------------------------
Waits(c) == life[c] = "open" /\ cells[c] > 0

\* Between two runs no open channel that has cells is forgotten: it is in
\* the heap and a run is due, or its outbuf is full enough for the flush that
\* will announce it.
NoneForgotten ==
  \A c \in Chan :
    run.pc = "off" /\ Waits(c)
      => \/ q.sched[c] = "pending" /\ c \in q.heap /\ q.ev
         \/ q.sched[c] = "waitWrite" /\ outbuf[c] >= LowMark

\* The scheduler never meets a channel that has lost its connection or has
\* been freed, though a channel that fails during a run is made pending again
\* after it was released.
HeapIsLive ==
  \A c \in q.heap \cup run.readd \cup run.table : conn[c] /\ life[c] # "freed"

\* Between two runs the heap holds exactly the channels that think they are
\* in it.
HeapIsPending ==
  run.pc = "off" => q.heap = {c \in Chan : q.sched[c] = "pending"}

\* The scheduler's heap is right.  It never holds, nor does a run set aside, a
\* channel that has lost its connection or has been freed
\* (scheduler_release_channel); between two runs channels_pending holds exactly
\* the channels whose scheduler_state says so; and no open channel that has
\* cells is forgotten.
HeapIsSound == HeapIsLive /\ HeapIsPending /\ NoneForgotten

-----------------------------------------------------------------------------
\* What a comment, an assertion or a name in the source says and the code does
\* not keep (README, section "Departures"): TLC refutes each of these.

\* A channel that closes without having opened is reported to the guard code.
GuardIsTold == \A c \in Chan : guard[c] # "untold"
=============================================================================
