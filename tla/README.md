# TorJet: models, checks and proofs

TorJet is a Windows launcher (`scripts/start-tor.cs`, `scripts/TorJetUi.cs`)
around a modified tor (`tor-src/`). What it changes in tor, and what it is
built on, is *conflux*: several circuits (*legs*) to one exit are linked into a
*set*, streams are attached to the set, and their cells are spread over the
legs and put back in order at the other end. This directory models conflux, the
launcher, and the parts of tor that conflux and the launcher lean on (guards,
stream attachment, flow and congestion control, the cell scheduler, pluggable
transports, the thread pool); it checks the models with TLC and proves the
central results with TLAPS.

## 1. Inventory

Paths are relative to `src/`; `or/` stands for `tor-src/src/core/or/`.

| Part | State | Operations | Talks to |
|---|---|---|---|
| Data plane (`or/conflux.c`, `or/conflux_cell.c`, parts of `or/relay.c`, `or/sendme.c`) | per set: legs, `curr_leg`, `last_seq_delivered`, `ooo_q`; per leg: `last_seq_sent`, `last_seq_recv`, RTT; per circuit: `inflight`, `cwnd` | decide a leg, send SWITCH, send, receive, queue, dequeue, SENDME | the same code at the other end, over circuits; circuit close |
| Linking and replacement, pool (`or/conflux_pool.c`) | unlinked and linked pools, LINK/LINKED numbers, launch budget, the `conflux_t` objects | launch, LINK, LINKED, finalize, close, refill, rebuild, tear down, free | the exit's pool; circuit building and freeing |
| Set selection (`or/conflux_pool.c`, `conflux_get_circ_for_conn`) | RTTs and stream counts of linked sets, a static counter | filter, pick, attach | stream attachment |
| Leg scheduling (`or/conflux.c`, `conflux_decide_circ_*`) | RTT, window | prefer a leg | data plane |
| Congestion control (`or/congestion_control_*.c`, `or/sendme.c`) | `cwnd`, `inflight`, RTT and BDP estimates, digests, timestamps | note a cell, process a SENDME | data plane, channels |
| Stream flow control (`or/congestion_control_flow.c`, edges in `core/mainloop/`) | XOFF/XON state, drain rate, counters, buffers | read, package, XOFF, XON, resume | congestion control, circuit queue, bandwidth |
| Cell scheduler and channels (`or/scheduler*.c`, `or/channel*.c`, `or/connection_or.c`) | scheduler state per channel, heap, event, outbufs | has cells, wants writes, run, close, free | circuitmux, sockets |
| Stream attachment and isolation (`or/circuituse.c`, `or/connection_edge.c`) | pending lists, isolation records, NEWNYM epoch | attach, launch, retry, expire, close | circuits, conflux sets |
| Entry guards (`feature/client/entrynodes.c`) | sample, filtered, confirmed and primary lists, flags, state file | select, succeed, fail, cancel, upgrade, load | circuits, consensus |
| Pluggable transports (`feature/client/transports.c`) | managed proxies, registry, count of unconfigured ones | launch, configure, die, restart, reread | child processes, bridges |
| Thread pool (`lib/evloop/workqueue.c`) | queues, locks, generations, alert | queue, cancel, work, reply, update, free | worker threads |
| Launcher: health monitor (`CircuitWatchLoop`) | strikes per circuit | rank legs by RTT, close the slowest, top sets up | control port |
| Launcher: session, watchdog, keep-alive | tor process, stop flags, live ports | start, probe, restart, stop | threads of one process; tor |
| Launcher: transport race (`AutoRace`) | three tor processes, their logs | start, stall restart, adopt the winner | session |
| Launcher: system proxy | registry, backup file | set, restore | session |
| Front end (`TorJetUi.cs`) | state, busy flags, posted delegates | connect, disconnect, tick | launcher |
| Parameters, control commands | options | read, set, `CONFLUX ADD`/`QUERY`/`SET` | all of the above |

What is hard in it:

* *Order without numbers.* A cell carries no sequence number. Each end counts
  the cells of each leg; a SWITCH tells the receiver how far to advance a leg's
  count. One wrong base shifts everything that follows.
* *Concurrency.* Both ends send, switch and close at the same time; worker
  threads, watchdogs and pingers share flags; delegates run after the state
  they were posted for has changed.
* *Loss and crashes.* A circuit can die at any hop with cells on it, a proxy
  process at any point of its configuration, a launcher between two writes to
  the registry, a tor after it has won a race; a state file is older than what
  it describes.
* *Stale values.* The numbers a LINK carries are read at launch and used when
  the circuit is linked; the legs the monitor closes come from an earlier
  query; the log a racer is judged by outlives the racer.
* *Recursion.* Closing a circuit calls into the pool, which closes and
  launches circuits, which may fail and call back.
* *Several mechanisms for one effect.* A stream is stopped by its window, by
  the circuit queue, by XOFF and by bandwidth, and must be resumed by the last.
* *Limits.* The out-of-order queue, windows, counters that are halved, the
  32-bit field of a SWITCH, percentages of few items.

`PROJECT.json` lists these hazards at their lines with the properties that
would catch them.

## 2. Modules

| Module | Models |
|---|---|
| `ConfluxService` | What a set promises its streams: in each direction a reliable ordered flow that may stop. |
| `ConfluxStream` | The data plane and leg teardown of one linked set, both ends. It implements `ConfluxService`. |
| `ConfluxRefill` | `ConfluxStream` with legs being replaced and sets rebuilt. |
| `ConfluxPool` | Who owns what in the pools of one nonce, on a client or an exit. |
| `ConfluxSelect` | The pool of linked sets as stream attachment sees it. |
| `ConfluxSchedule` | The leg the next cell goes on. |
| `CongestionControl` | The window, digests and timestamps of one circuit. |
| `StreamFlow` | Flow control of one stream. |
| `ChannelSched` | The cell scheduler and the life of channels. |
| `StreamIsolation` | Streams that wait for, join and leave circuits and sets. |
| `EntryGuards` | One guard selection and the circuits that use it. |
| `TransportProxies` | Managed proxies of a client. |
| `WorkQueue` | The thread pool. |
| `CircuitWatch`, `TorSession`, `AutoRace`, `SystemProxy`, `UiSession` | The launcher. |
| `Lists` | Lists as `smartlist_t` keeps them: the elements that pass a test, the first of them. |
| `ConfluxProofs` | Theorems about `ConfluxStream` and `ConfluxRefill`. |
| `ConfluxPoolProofs`, `StreamIsolationProofs`, `TransportProxiesProofs` | Theorems about the module they are named after. |
| `FlowControlProofs` | Theorems about `CongestionControl` and `StreamFlow`. |
| `EventLoopProofs` | Theorems about `WorkQueue` and `ChannelSched`. |
| `LauncherProofs` | Theorems about `SystemProxy`, `TorSession` and `AutoRace`. |
| `SelectionProofs` | Theorems about `EntryGuards`, `ConfluxSelect` and `CircuitWatch`. |
| `MCConfluxStream`, `MCConfluxRefill`, `MCTorSession` | Instances of one module. |
| `MCCircuits`, `MCGuards`, `MCLauncher`, `MCTransfer`, `MCStreams`, `MCPaths`, `MCWork` | Instances of several modules that are checked in one run. |

An MC module of the last kind extends the components whose properties are
proved, so that the run checks the very definitions the theorems state
(`MCCircuits` extends `ConfluxPool`, `ConfluxSelect` and `CircuitWatch`;
`MCGuards` `EntryGuards`; `MCLauncher` `SystemProxy`, `TorSession` and
`AutoRace`; `MCTransfer` `CongestionControl` and `ChannelSched`; `MCStreams`
`StreamIsolation` and `StreamFlow`; `MCPaths` `TransportProxies`; `MCWork`
`WorkQueue`); their constants are in the configuration. It declares the
variables of the other components, makes one or more instances of each with the
constants of a small case, and has a variable `part` that is chosen in `MCInit`
and never changes: only the chosen part takes steps, so the run explores the
disjoint union of the parts. Liveness is written `[]<>(part = ... => ...)` so
that TLC needs no tableau.

### ConfluxStream

State: `legs`, `curr`, `lastSent`, `lastRecv`, `inflight`, `delivered` and
`ooo` are the fields of `conflux_t`, `conflux_leg_t` and `congestion_control_t`
named in the declarations, for the two ends `"client"` and `"exit"`; `unacked`
is the receiver's distance to its next SENDME; `wire[e][l]` holds the cells on
their way from `e` on leg `l`, and `dead[e][l]` says that a DESTROY follows
them. `nsent`, `out` and the cell fields `val` (for SWITCHes: the relative
number it really carries) and `abs` are ghosts.

Actions: `SendCell` is `relay_send_command_from_edge` with
`conflux_decide_circ_for_send` and `conflux_note_cell_sent`: the base leg is
the current one or, at first, the one `conflux_pick_first_leg` finds; a SWITCH
goes ahead of the cell when another leg is chosen; incoherent or oversized
differences close the set. `PickFirstLeg` is the same choice made when the set
is only asked for its window. `ReceiveCell` is `conflux_process_relay_msg` and
the dequeue loop of `connection_edge_process_relay_cell`, in one step because
nothing runs in between, with every way it can end: in order, queued, queue
full, already delivered, and a handled cell closing the circuit in mid-loop.
`Acknowledge` is the SENDME, sent before the cell is looked at.
`ReceiveSwitch`, `ReceiveSendme`, `ReceiveDestroy` and `MarkForClose` are the
other handlers; closing a leg uses the whole of `cfx_del_leg`
(`FullTeardown`). `RelayFails` and `DropTail` are the network: a failing hop
destroys the circuit both ways, and a DESTROY may overtake queued cells.

Abstractions. The scheduling algorithms answer some leg that is ready, or none
(`CanSendOn`): any preference among ready legs is one of the model's choices.
The window is a constant. Every queued cell costs one unit. Cell handlers are
"succeeds" or "closes the circuit". A SWITCH whose cell is then dropped by
`circuit_package_relay_cell` is not modelled.

### ConfluxRefill

Adds `link[l]`, the LINK or LINKED of a circuit being linked. `RefillNext` is a
step of `ConfluxStream` followed, in the same step, by what the end of
`linked_circuit_closed` does (`AfterClose`: refill a set that survives, rebuild
one that lost its only leg, abandon circuits being linked on a teardown; the
launch may be refused or fail), or the handling of LINK at the exit and of
LINKED at the client, or the end of an unlinked circuit. The exit links when
the LINK arrives, as `conflux_process_link` does; LINKED_ACK only records an
RTT. One circuit is linked at a time; the limit on legs per set is not reached.

### ConfluxPool

One nonce. `circ[c]` has a circuit's state, its pending nonce and its `conflux`
pointer; `unl` is the entry of the unlinked pool, `lpool` of the linked pool,
`obj[o]` the `conflux_t` objects, each allocated once. The recursion of
`circuit_mark_for_close` into the pool and back is the stack `stk` of calls
still to be made: `Calls` runs the next one, and no event happens until the
stack is empty. What the cells contain, and the streams of a set, are left out.

### ConfluxSelect, ConfluxSchedule

`pool` is `client_linked_pool` in the order the map is walked (a new set may
come anywhere in it), `rtts[s]` the RTTs of its legs, `open` and `total` the
stream counts, `counter` the static counter. `AttachStream` is
`conflux_get_circ_for_conn` and the attachment; `DropSlow` is what the loop with
`SMARTLIST_DEL_CURRENT` leaves, which moves the last element into each hole,
written in closed form; `Sorted` leaves ties in any order, as the sort may.
`FailoverPick` judges each answer by the sets the stream may use (`AnsweredWell`),
the answer "none" included. `ConfluxSchedule` has the loops of
`conflux_decide_circ_minrtt` and `_lowrtt` as folds over the legs, next to a
reference definition of the fastest leg, while windows fill and drain.

### CongestionControl, StreamFlow

`CongestionControl` is TOR VEGAS on one circuit in one direction: the sender
notes digests and timestamps for the cells it expects to be acknowledged, the
receiver acknowledges every `sendme_inc` cells, and each SENDME moves the BDP
estimate and the window. Parameters are scaled down and keep their order;
unsigned counters wrap at `Wrap`. `StreamFlow` is one stream above it: `snd` is
the reading edge with its four causes to pause, `rcv` the writing edge that
measures its drain rate and decides XOFF and XON, `back` the SENDMEs, XOFFs and
XONs on their way. Data is counted in cells; the window is fixed.

### ChannelSched

`q` holds the scheduler state of each channel, the heap and the event;
`life`, `conn`, `guard` the channel and its connection. A run of the scheduler
is several steps (`RunStep`) that nothing else interrupts, because it calls code
that queues cells and closes channels. `Flushed` is one cell leaving the
circuitmux, under either scheduler: it may unblock streams, which package at once
and bring a cell to any set `D` of channels that still have circuits, the legs
of their conflux set (`set_block_state_for_streams`). A channel that so comes
into the heap in the middle of a KIST run may have no entry in the socket table;
`socket_can_write` then lets it write without limit. Vanilla serves its channel
cell by cell (`VanillaPick`, `VanillaFlush`, `VanillaDecide`). A write that fails
closes the channel from within (`FlushFails`). Vanilla, KISTLite, and a switch
between them. An unblocking brings at most one cell to each channel.

### StreamIsolation, EntryGuards, TransportProxies, WorkQueue

`StreamIsolation`: a *carrier* is a plain circuit or a conflux set, its legs
hold the isolation records of origin circuits; a walk over the pending list is
taken stream by stream with nothing in between. `EntryGuards`: times are
abstracted to what is compared with them (`due`, `late`, `recent`); every
handler ends, as in the code, with the updates it calls. `TransportProxies`:
`mp` is the list of managed proxies, `reg` the transport registry, `n` the
counter; `fault` names an assertion that failed. A proxy may announce any
transport of its program (`Offers`), asked for or not, as
`parse_method_line_helper` takes any name; what the environment of its process
asked for (`asked`) and what it announced (`trans`) are kept apart. `WorkQueue`: one step of a
thread is what it does between two lock operations; `woken` are the threads a
condition signal has released; a work or update function that does not return
`WQ_RPL_REPLY` ends its thread (`Results`).

### The launcher

`SystemProxy`: each `SetValue` is a step and a crash may come between any two;
the backup file and the values saved in memory are separate. What the code
swallows may happen: `SaveProxyBackup` fails, `SetValue` throws
(`WriteFails`), the file cannot be deleted. `Start` is the console launcher, which
reads the backup, or the window, which does not. The ghost `lost` records the
three ways in which the settings are lost for good (`Loses`, `Start`).
`TorSession`: the main thread by the places it may be in, watchdog and
keep-alive threads that outlive their session, stop flags without a lock. A race
is in it by its processes: started, restarted, marked dead while their tor runs
on (`MarkDead`, the fallback torrc cannot be built), won, aborted, or ended
because all count as dead, which kills none (`RaceDied`).
`AutoRace`: the polling loop by its cursor, the racers' control ports and logs.
`UiSession`: the UI thread with its queue of delegates, workers, the stopper.
A race is won with the winner alive or dead (`RaceWon`, `WinnerDied`).
`CircuitWatch`: one pass, its list, and what tor does with a leg that is closed
(`Fates`).

## 3. Runs

| Run | Result | Shows |
|---|---|---|
| `stream` | pass | `TypeOK`, `InOrder`, `NoStaleCell`, `CurrentLegLeads`, `FlightBalance`, `SequenceInv`, `ImplementsService` |
| `stream_live` | pass | `AllDelivered`, `TeardownSpreads` |
| `refill` | pass | `QuietRefill` |
| `circuits` | pass | `FailoverPick`, `TurnsAreFair` (`ConfluxSelect`), `Ownership`, `PoolInStep` (`ConfluxPool`), `ListsFairly` (`CircuitWatch`) |
| `guards` | pass | `PrimaryIsBest`, `PendingIsTried`, `FlagsAgree`, `UpgradeInOrder` |
| `launcher` | pass | `SettingsKept` (`SystemProxy`), `NothingLeft`, `HungIsKilled` (`TorSession`), `OnlyWinnerLives`, `RaceEnds` (`AutoRace`), `ButtonRevives` (`UiSession`) |
| `transfer` | pass | `SendmesMatch`, `WindowStaysOpen` (`CongestionControl`), `DataFlows` (`ConfluxSchedule`), `HeapIsSound`, `CellsLeave` (`ChannelSched`), `CallsReturn` (`ConfluxPool`) |
| `streams` | pass | `IsolationKept`, `ListedOnce` (`StreamIsolation`), `PausesEnd`, `XoffsAreDue` (`StreamFlow`) |
| `paths` | pass | `ProxiesAgree`, `ProxiesSettle` (`TransportProxies`), `Settles` (`StreamIsolation`) |
| `work` | pass | `FreedIsUnused`, `WorkGetsDone` |
| `rebuild` | violated | `RebuiltSetWorks` |
| `session_restart` | violated | `FreshTor` |

The comment above each property in its module says what it means and which code
it is about.

*Bounds.* `stream`: two legs and cells both ways, a SENDME every two cells, a
window of two, a queue of one, and `MaxRel` = 2 for the 32-bit limit, so that a
full window, a full queue, early cells, crossing SENDMEs, a switch back and a
switch that does not fit all happen. `stream_live` is one-way, with three cells
and room for two early ones, so that a hole of two can be filled. `refill`: two
legs and a spare; states in which a set was rebuilt or a cell was under way
during linking, of which `QuietRefill` says nothing, are explored with one cell
only (`Explored`). `rebuild`: the same legs, with a request and its answers, under
`AnsweringSpec`: the exit sends only after a request has been delivered in its
set (`ExitAnswers`), so that the cell the client refuses is one a correct exit
would send. `circuits`: three sets, so that 70% of them is two and a
filter can drop the middle one; five circuits of one nonce, enough for a set of
two to lose a leg, refill, lose both and be rebuilt; three legs under the
monitor with two strikes. `guards`: three guards and two circuits, one primary
guard, so that a confirmed guard outside the list competes with one inside it;
the three instances share the budget between a full sample, restrictions, and
changes with restarts. `launcher`: one launcher, console or window at each
start, and two edits by the user; three attempts, two generations of threads,
one of which outlives its session; a session of two racers, or of two races of
one; two racers in the race itself; two connects and two restarts
in the window. `transfer`: a window of at most seven cells and an increment of
two, so that slow start ends and both the floor and the ceiling are met; three
legs, two channels and five cells with watermarks at two and three; four
circuits. `streams`: eleven cells, enough for two XOFFs with an XON between
them; three streams over two circuits, interchangeable (`Swap`). `paths`: two proxies, three
transports, two deaths and three reads of the configuration. `work`: two
workers, three items of two priorities, one update. In the part with liveness
(`WorkGetsDone`) nothing fails, as cpuworker.c's update never does; in the other
part work and updates may fail and the pool is freed.
Deadlock is not checked where these bounds let the system run out of things to
do.

*Constants that leave a behaviour out.* Some instances exclude a case in which
the property is known not to hold; section 5 has each of them: `SystemProxy`
with one launcher at a time (of either kind), `ConfluxSchedule` without a stalled clock (`Stalls`), `TransportProxies`
without lines after the end of the configuration (`Rude`) and without two
proxies that may announce, or be asked for, one transport (`OffersApart`), `WorkQueue` with workers that have begun before the
pool is freed (`Prompt`), `StreamFlow` with counters that are not halved while
an XOFF is under way, `CongestionControl` with the order of the default
parameters, `StreamIsolation` with plain circuits only in the `streams` run
(in `paths` it has a set of two legs, for `Settles`).

*Fairness.* `stream_live`: weak fairness of receiving on each leg; tor's event
loop serves every channel that has data, and TCP delivers in order. Nothing is
assumed of sending, switching or closing. `launcher`: the threads of the
process and the message loop are scheduled; in the race, a tor that runs gets
on, which is what the code counts on ("there is NO timeout"); nothing is assumed
of the user, nor that a tor does not hang or die. `transfer`: SENDMEs,
LINKED_ACKs and unblocked channels come; strong fairness of sending, because an
application with data tries again whenever it may; a scheduler run that has
begun ends, and the event loop serves the socket of channel 1 also when the
scheduler is due all the time (strong); a call that was made runs to its end.
`paths`: the launch timer fires and a proxy answers; walks run, time passes, and
the timer that expires streams fires between walks. Nothing is assumed of
circuits or exits. `work`: a thread that again and again may take the lock gets
it (strong fairness of each thread), as the mutexes of the platforms give in
practice. `streams`, and the window in `transfer`, need none: that nothing rests
unfinished is stated as an invariant (`PausesEnd`, `WindowStaysOpen`).

*What the violated runs say.* `rebuild`: a set rebuilt after its only leg was
closed keeps the client's `last_seq_delivered`; the exit has dropped its set and
starts from 0. In the trace one answer is delivered, the last leg closes, the
exit links the new leg afresh (the ghost `anew`), a request reaches it, and its
first answer has number 1 at the client, which counts that as delivered and
closes the circuit.
`session_restart`: `torProc` still names the process the watchdog killed when
the next attempt begins, so a session with one transport skips the start,
serves a dead tor and ends as if tor had exited. With races (`Race`) `torProc` is
cleared and the property holds.

## 4. Proofs

Eight modules hold proofs that TLAPS checks. Each theorem is about the
specification of a component for every value of its constants that the named
assumptions allow; the property is the one a run of section 3 checks on a small
instance.

| Module | Theorem | Shows | Assumes |
|---|---|---|---|
| `ConfluxProofs` | `TypeCorrect` | `Spec => []TypeOK` | `LegsAssumption`, `NumbersAssumption` |
| | `SequenceCoherent` | `Spec => []SequenceInv` | the same |
| | `DeliveredInOrder` | `Spec => []InOrder` | the same |
| | `NeverStale` | `Spec => []NoStaleCell` | the same |
| | `SwitchNeverNegative` | `Spec => []CurrentLegLeads` | the same |
| | `FlightIsRight` | `Spec => []FlightBalance` | the same |
| | `Refinement` | `Spec => ImplementsService` | the same |
| | `RefillIsQuiet` | `RefillSpec => []QuietRefill` | the same |
| `ConfluxPoolProofs` | `EveryObjectIsOwned` | `Spec => []Ownership` | `PoolAssumption` |
| | `PoolsFollowCircuits` | `Spec => []PoolInStep` | the same |
| `FlowControlProofs` | `SendmesAreExpected` | `Spec => []SendmesMatch` | `CongestionControlAssumption`, `DefaultOrder` |
| | `WindowNeverShuts` | `Spec => []WindowStaysOpen` | the same |
| | `PausesAlwaysEnd` | `FlowSpec => []PausesEnd` | `FlowAssumption` |
| | `GraceAlwaysNeeded` | `FlowSpec => []XoffNeedsGrace`, the second half of `XoffsAreDue` | the same |
| `StreamIsolationProofs` | `IsolationIsKept` | `Spec => []IsolationKept` | `StreamIsolationAssumption`, `OneLeg` |
| | `WaitingIsListed` | `Spec => []ListedOnce` | the same |
| `TransportProxiesProofs` | `ProxiesInStep` | `Spec => []ProxiesAgree` | `PoliteAndApart` |
| `EventLoopProofs` | `FreedUnused` | `Spec => []FreedIsUnused` | `WorkAssumption` |
| | `HeapSound` | `SchedSpec => []HeapIsSound` | `SchedAssumption` |
| `LauncherProofs` | `SettingsSurvive` | `Spec => []SettingsKept` | `OneLauncher` |
| | `NoneLeft` | `SessionSpec => []NothingLeft` | `SessionAssumption` |
| | `RaceServesFresh` | `SessionSpec => []FreshTor` when `Race` | the same |
| | `WinnerAlone` | `RaceSpec => OnlyWinnerLives` | nothing |
| `SelectionProofs` | `FlagsAlwaysAgree` | `Spec => []FlagsAgree` | `GuardAssumption` |
| | `PrimaryAlwaysBest` | `Spec => []PrimaryIsBest` | the same |
| | `PendingAlwaysTried` | `Spec => []PendingIsTried` | the same |
| | `UpgradesAlwaysInOrder` | `Spec => UpgradeInOrder` | the same |
| | `PicksAlwaysInBounds` | `SelectSpec => FailoverPick` | `SelectAssumption` |
| | `TurnsAlwaysFair` | `SelectSpec => []TurnsAreFair` | the same |
| | `AlwaysListsFairly` | `WatchSpec => ListsFairly` | `WatchAssumption` |

### The assumptions

`LegsAssumption`, `NumbersAssumption`, `PoolAssumption`, `WorkAssumption`,
`CongestionControlAssumption`, `StreamIsolationAssumption`, `FlowAssumption`,
`SchedAssumption`, `SessionAssumption`, `GuardAssumption`, `SelectAssumption`
and `WatchAssumption` only say what kind of values the constants are: numbers,
and limits that are positive or in the order of the code's own (a SENDME
increment within the window, a low mark below the high one). The others name the
case that is proved; TLC evaluates them, or the constants they are about, in the
runs, and section 5 has what happens outside of them.

* `DefaultOrder`: an increment is at least two cells and no more than the
  smallest window, gamma and the slow-start limit; the windows are ordered, and
  the largest fits the counters. The ranges of
  `congestion_control_new_consensus_params` and of the vegas parameters enforce a
  part of it (windows of at least 31 cells, percentages); for the rest it is a
  condition on the consensus, which the defaults keep: `cc_sendme_inc` may be 1
  to 254.
* `OneLeg`: a carrier of streams has one leg, that is, a plain circuit or a set
  without a second leg. With two legs isolation does not survive the loss of the
  first (section 5, `Respected`).
* `PoliteAndApart`: no proxy sends a line after its configuration (`~Rude`), and
  what a proxy may announce, asked for or not, no other may announce and no torrc
  asks of another (`OffersApart`).
* `OneLauncher`: one launcher at a time, console or window, started as often as
  one likes. Nothing is assumed of crashes, backups or registry writes; the ways
  they lose the settings are part of the property (`lost`).

### The arguments

*ConfluxStream.* `InOrder` is not inductive: it says nothing of cells under way.
`SequenceInv` adds what makes it so. `LegCoherent`: on every leg, the receiver's
count plus what the cells on the wire will add is the sender's count (the ghost
`abs` of each cell is that running count). `SenderCounts`: the current leg's
count is the number of cells sent on the set, and no leg is ahead of it.
`WireCells`, `WireUnique`, `QueuedCells`: a cell on the wire or in the queue is
numbered by its place in the sender's order, is not delivered yet and exists
once. So the number a receiver gives a cell is its place in the order, and
`last_seq_delivered + 1` is the cell the streams want. `Invariance` proves
`TypeOK /\ SequenceInv` inductive with one step per action; the other theorems
follow from it, and `Refinement` maps `nsent` and `out` to the abstract channel.
`FlightInv` balances each leg by itself; what a wire carries is the cardinality
of the positions that hold a cell of a kind, and lemmas say what appending and
taking off a cell add to it.

*ConfluxRefill.* While nothing was rebuilt and no cell was under way when a leg
was linked, `IInv` of the data plane holds together with `LinkInv`: a LINK or
LINKED under way carries the counts of the end that wrote it, and while one is
under way neither end has sent a cell the other has not got. So a new leg enters
`IInv` with coherent counts. What an end puts into the LINK
(`conflux_get_max_seq_sent`) is shown to be the number of cells it has sent.

*ConfluxPool.* `PoolInv` says who holds which object (`Safe`) at every point of
a recursive close, not only between calls: it relates circuits, the two pools
and the stack of calls still to be made (`StackShape`), since in the middle of a
teardown a set is in a state that only the calls to come put right.

*CongestionControl.* Numbers of cells are taken modulo `Ids`, so the invariant
says that for some natural `b`, the last cell answered, all of them are counted
from `b` without the modulus (`Numbered`); `Kept` and `Received` bound what the
sender has noted and the receiver has answered by `inflight`. An answer then
names the oldest digest kept. The floor and ceiling of the window are proved for
every branch of the vegas algorithm.

*StreamIsolation.* `Fits` says what the record of a carrier is worth: a field it
does not call mixed has, in every stream that ever used the carrier, the value
recorded. So the test of the record alone is the test against all of them.
`Opens`: marks that are not real belong to the circuit that is being opened.
`Listed` splits the waiting streams between the pending list and the rest of the
walk; lemmas about lists without repetition cover appending, taking off the head
and `smartlist_remove`.

*StreamFlow.* `PausesEnd` needs to know what is under way. `Balance`: the window,
the cells queued or on the network, those the receiver has not answered and the
SENDMEs on their way, times the increment, add up to the initial window.
`LastWord`: the last XOFF or XON on its way, or the sender's flag when there is
none, is what the receiver last said. `Owed`: an XOFF stands only while there is
something to drain, so that a flush will send the XON. `GraceIsStale`: a grace
period that outlived a calm has a buffer within the limit.

*ChannelSched.* `HeapInv` holds in the middle of a run as well, where the heap is
not the set of pending channels: `Serving` says what is known of the channel
being served, `Others` that except for it and the channels set aside the heap is
the set of pending ones, `Announced` that an open channel with cells is pending
or will be announced by a flush, `Unopened` that one that has not opened has had
nothing to write.

*TransportProxies, WorkQueue, SystemProxy.* `ProxyInv` ties each proxy's
process, transports and configuration together (`Sound`, `Told`). `LockInv`
says which thread holds `control_lock` and that the last one out is who frees;
`QueueInv` that an entry is in one place. For `SystemProxy` each stage of a
switch (`Holds`), by the registry writes still to come, says where the user's
settings are: in the registry, in memory or, unless saving it failed, in the
backup file; it holds as long as nothing was lost.

*TorSession, AutoRace.* `WhoMayRun` says, by the place of the main thread, which
processes may be running: in the menu only racers marked dead, during a race its
racers, then `torProc`; a late watchdog can end a process and never start one.
`GivenBack` does the same for the system proxy. `RaceInv` says that a race that
is over has left at most the winner, or racers that could not be restarted.

*EntryGuards.* `Sound` is about the guards alone: the sample has no repetition,
confirmed and filtered guards are in it, the usable ones are the filtered ones
not known to be down, the primary flags are the primary list, and a primary list
that counts as up to date is in order. Every function of entrynodes.c that the
model has is shown to keep it, or to restore it after a change of the filter, so
that a handler keeps it as the composition of the functions it calls. The
circuits add that a guard a circuit uses is sampled or gone, and that a circuit
that waits for better guards has a confirmed one; the state file, that what was
saved loads into sound lists.

*ConfluxSelect.* `KeepsFastest` says of each filter that what it leaves, unless
that is nothing, holds a fastest candidate, and nobody twice; `RttMaxIs` that
none at or above the limit is left when there was a choice. `RoundInv`: while
the candidates stay the same, the picks are the list read at consecutive values
of the counter, modulo its length. `KeepaliveInv`: the totals of the sets differ
by at most one and the higher ones come first, and the keep-alives since a set's
last one went to different sets ahead of it, which bounds their number.

*CircuitWatch.* `StrikesEarned`: only a measured leg has strikes, and no more
than passes in a row in which it was among the slowest. That a fastest leg is
left off the list follows from the size of the slow part, which is smaller than
the pool.

*Lists.* What a list becomes is written without recursion, as a function on
positions (`Only`, `Upto`, `DropSlow`, `PrimaryScan`): the elements kept, each at
the rank its position has among those kept. Lemmas on ranks and cardinalities
then take the place of induction over the list, and a least position or a
smallest RTT comes from the well-foundedness of `<` on the naturals. The runs
check the same definitions.

### Only model-checked

* All liveness, and what uses ENABLED: `AllDelivered`, `TeardownSpreads`,
  `DataFlows`, `CellsLeave`, `CallsReturn`, `HungIsKilled`, `RaceEnds`,
  `ButtonRevives`, `ProxiesSettle`, `Settles`, `WorkGetsDone`. The installed
  provers handle neither fairness nor ENABLED. What keeps these systems from
  getting stuck is proved where it is a safety property: `PausesEnd`,
  `WindowStaysOpen`, `HeapIsSound`, `PendingIsTried`.
* `XoffsAreDue`, as a whole: its half `XoffNeedsGrace` is proved; the other half,
  `HonestIsValid`, holds only as long as no counter is halved while an XOFF is
  under way (section 5), that is, for transfers below a bound which the
  instance has and the specification has not.
* `ConfluxSchedule` and `UiSession`: the runs check liveness only (`DataFlows`,
  `ButtonRevives`), so no theorem is about them.

## 5. Departures

Statements of the source (a comment, an assertion, the manual, the README) that
the code does not keep in every state. Each is a property at the end of its
module, or one checked in section 3 under other constants; none is part of a
run, and each was refuted by TLC with the constants given here (those not
mentioned are as in the run of section 3 that uses the module).

### Conflux

* `LossTearsDown` (`ConfluxStream`, queue of three). conflux_pool.c:571: "If the
  circuit still has inflight data, teardown". Line 575 asks for
  `inflight >= sendme_inc`: a leg that is neither current nor highest and dies
  with fewer cells in flight is only removed, and the other end then waits for
  a number that never comes.
* `RefillInOrder` (`ConfluxRefill`, the client uploads while a leg is linked).
  README.md:204 says "tor launches a replacement leg for every closed leg", and
  that streams migrate to it. `cfx_add_leg` (conflux_pool.c:510) gives the leg
  the numbers of the moment its LINK or LINKED was written; after cells sent
  since, the first SWITCH onto it lands on a wrong number. Line 505 says itself
  that "switching to this leg is likely to break".
* `NeverStranded` (`ConfluxSelect`, two sets, RTT limit on).
  conflux_pool.c:1623: "never empty the list: if every set is slow we still have
  to attach somewhere". The loop deletes every slow candidate; only a list of one
  is spared.
* `KeepaliveSpread` (`ConfluxSelect`, two sets, one linked afresh, eight
  streams). README.md:225: "the spread stays balanced even while sets are being
  rebuilt". The pick at conflux_pool.c:1521 compares `total_streams`, 0 in a new
  set, which so takes every keep-alive until it has caught up.
* `NoEmptySet` (`ConfluxPool`, four circuits, `Events = {"add"}`).
  conflux_pool.c:1146 says a failed `conflux_launch_leg` "teardowns the entire
  unlinked set if any". The error path at line 1167 only returns; the empty set
  is counted by `conflux_predict_new` and keeps a linked set from being rebuilt.
* `PoolNotTorn` (`ConfluxPool`, six circuits, `MaxLegs = 4`, `MaxLaunch = 6`,
  `"add"`). conflux_pool.c:690: "we must close all linked and unlinked circuits
  associated with a set". Closing one of two unlinked legs relaunches it (line
  1707), and the new legs link an object with `in_full_teardown` set, which is
  never refilled and which `conflux_mark_all_for_close` stops at.
* `LinkedIsFinal` (`ConfluxPool`, five circuits, no events).
  conflux_pool.c:1663: a pending circuit's close "deletes the leg from the set,
  attempt to finalize it and relaunch a new leg". Nothing finalizes: when the
  launches are used up, the legs that did link wait for ever.
* `ExcessIsClosed` (`ConfluxPool`, five circuits, `"add"`). conflux_pool.c:2277:
  "On error, we close the circuit". `ERR_LINK_CIRC_INVALID_LEG` (line 2290) only
  leaves the switch; the rejected leg stays in the set and is acknowledged.
* `SetIsPooled` (`ConfluxPool`, `Client = FALSE`, three circuits).
  conflux_pool.c:1939: "Remove from pool in case it is still lingering there".
  `linked_pool_del` removes whatever the nonce maps to: a set that linked between
  the close and the free of the old last circuit is dropped with its legs.
* `DataFlows` (`ConfluxSchedule`, two legs, `"lowrtt"`, `Stalls = TRUE`).
  conflux_pool.c:875: "Avoid using this leg until a timestamp comes in".
  Timestamps come with SENDMEs, which answer data: a set whose legs were all
  measured by a stalled clock never sends.

### Congestion and flow control

* `CwndFloor` (`CongestionControl`, `gamma = 1`).
  congestion_control_vegas.c:581: "cwnd can never fall below 1 increment". The
  floor is applied in steady state only; slow start ends with `bdp + gamma` (line
  475), and `cc_vegas_gamma_exit` may be 0.
* `Expected` (`CongestionControl`, `inc = 1`). congestion_control_common.c:557:
  "Return true iff the next cell we send will result in the other endpoint"
  sending a SENDME. With `cc_sendme_inc` 1 the answer is false for a cell sent
  with nothing in flight, and the SENDME closes the circuit.
* `BlockedShrinks` (`CongestionControl`, `Rtts = {1, 2}`).
  congestion_control_st.h:145: "Is the local channel blocked on us? That's a
  congestion signal". In slow start the signal sets the window to `bdp + gamma`,
  which may be more than it was.
* `HonestIsValid` (`StreamFlow`, 48 cells, `TotalScale = 46`).
  congestion_control_flow.c:306: "we also check to make sure that we have not
  received more XOFFs" than the bytes sent can have caused. Halving the counters
  while an XOFF is under way loses half of the bytes that caused it. With the
  default limits this takes a reader so slow that it causes an XOFF for about
  every 500 cells.
* `XonCarriesRate` (`StreamFlow`). congestion_control_flow.c:634 wants to avoid
  "sending a drain rate of 0 in an XON". A single write that empties the buffer
  after an XOFF sends one (line 243), which the peer takes for no limit.

### Channels, streams, guards, transports, threads

* `GuardIsTold` (`ChannelSched`). connection_or.c:776: "Tell the new guard API
  about the channel failure". The function has set `or_conn->chan` to NULL ten
  lines earlier, so the call does nothing; the guard is blamed only when the
  circuits are freed.
* `Respected` (`StreamIsolation`, two streams with different credentials, one
  set of two legs). conflux_pool.c:1594: "Make sure the connection conforms with
  the exit policy and isolation". The values are written to the first leg only,
  and `conflux_sync_circ_fields` (conflux_util.c:302) copies neither values nor
  mixed flags: when the first leg closes, what isolated the stream is forgotten.
* `Mutual` (`StreamIsolation`, one stream of a port without `IsolateSOCKSAuth`
  and two with it). doc/man/tor.1.txt:1553: "Don't share circuits with streams
  for which different" credentials were given. connection_edge.c:4857 checks the
  flags of the arriving stream only.
* `CancelIsSafe` (`EntryGuards`, as the next two, with three guards, two
  circuits and `MaxChanges = 2`). entrynodes.c:2637: "It is safe to call this
  function if success or" failure has been declared. The free of a finished
  circuit clears `is_pending` of a guard another circuit is trying (line 2651).
* `PicksWithFullList`. entrynodes.c:99: "When we are about to pick a guard, make
  sure that the primary list is" full. A guard that becomes reachable again does
  not clear `primary_guards_up_to_date`.
* `NoJump`. entrynodes.c:63: "we won't use its circuit unless all" circuits
  through better guards have failed. Confirmed guards are tried in sampled order
  and compared by `confirmed_idx` (line 2495).
* `Unblocked` (`TransportProxies`, an outgoing proxy set or removed, one HUP).
  transports.c:562: "flag it as an infant proxy so that it gets launched on next
  tick". No tick calls `pt_configure_remaining_proxies`; the proxy waits for the
  next death or configuration read.
* `ProcessAssertion` (`TransportProxies`, two deaths). transports.c:700:
  "tor_assert(mp->process)". A proxy in the second before its launch has none
  when another one's exit callback visits it.
* `LaunchAssertion` (`TransportProxies`, outgoing proxy changed, one HUP, one
  death). transports.c:575: "tor_assert(mp->process == NULL)".
  `proxy_prepare_for_restart` of a running proxy keeps `mp->process`.
* `CountIsRight` (`TransportProxies`, `Rude = TRUE`). transports.c:404: "Assert
  that the unconfigured_proxies_n value correctly matches the number" of them. A
  completed proxy that sends a protocol line is destroyed and subtracted though
  it was not counted (line 881).
* `OfferedIsRegistered` (`TransportProxies`, two plugin lines with one transport).
  transports.c:541: "destroy all its registered transports". They are found by
  name, so the other proxy's registration goes.
* `RegisteredIsServed` (`TransportProxies`, a transport that moves from one
  proxy's line to the other's between two reads of the configuration).
  transports.c:1687: "check if the managed proxy used to support it before the
  SIGHUP". The loop unmarks the registration of that name whichever proxy made
  it, so that it may outlive its proxy.
* `StopWaits` (`WorkQueue`, `Prompt = TRUE`: the pool may be freed before a
  worker has begun). workqueue.c:305: "clean up won't begin before all threads
  have exited". Nothing waits for a worker to take `control_lock`.
* `StopEnds` (`WorkQueue`, `Prompt = FALSE`). workqueue.c:672: the main thread
  waits "until all worker threads have exited". A worker that was busy when
  `exit` was set and signalled goes to sleep without looking at it again (line
  363), and keeps `control_lock`.

### Launcher

* `NeverLost` (`SystemProxy`). start-tor.cs:352: "so a crash mid-session cannot
  lose them". It can in three ways: after a crash, or a failed `SetValue`, between
  two registry writes the registry is not recognised as TorJet's and the file is
  ignored; a crash after `SaveProxyBackup` failed (line 365) leaves no file; and
  `RunGui` never loads the file, so that its `Cleanup` writes empty settings and
  deletes it.
* `RecoverOnlyAfterCrash` (`SystemProxy`, two launchers). start-tor.cs:4521: "if
  a previous run crashed while the TorJet system proxy was still enabled". A
  second launcher started next to a session restores the proxy under it.
* `DiedIsDead` (`TorSession`, `Race = TRUE`). start-tor.cs:4009: "all three racers
  died". A racer whose fallback torrc cannot be built counts as dead while its tor
  runs (line 3710); the race then ends without killing it, and so does `Cleanup`,
  `torProc` being null. The next attempt's `StopPreviousRun` ends it.
* `ProbeAfterGrace` (`TorSession`, also the next). start-tor.cs:3572: "once the
  post-bootstrap grace window has passed". A watchdog that slept through the stop
  probes the next session's tor at once.
* `OneKeepAlive`. start-tor.cs:3122: "1 request/s". `StopKeepAlive` waits 2 s for
  a thread that may be 5 s in a request; clearing the flag revives it.
* `ProxyFollows` (`TorSession`, `Race = TRUE`, two ports). start-tor.cs:211:
  "every subsystem (control port, keep-alive, watchdog, speed test, system proxy,
  log) re-points here". After a watchdog restart the proxy keeps the old port.
* `WinnerReached100` (`AutoRace`). start-tor.cs:2501: "a stale "100%" from an older
  run can never be misread". The racers' logs are not deleted.
* `SkipsForLiveTor` (`UiSession`). TorJetUi.cs:1485: "live race winner - already
  at 100%". A failed start leaves a dead process in `torProc`.
* `StopIsFinal` (`UiSession`). TorJetUi.cs:1463: "don't bring the session up, let
  Disconnect drive the state back to Idle". Outside a race nothing is checked
  after the stop.
* `ConnectingEnds` (`UiSession`, `Race = TRUE`, three connects).
  TorJetUi.cs:1586: "a newer session already took over". When that one has failed
  meanwhile, each leaves the state to the other.
* `BestNeverClosed` (`CircuitWatch`, two sets, `"teardown"` among the fates).
  start-tor.cs:2227: "the single best leg in the pool is never closed". tor tears
  the set down when the closed leg is its current one, with the best leg in it.
* `StuckIsClosed` (`CircuitWatch`, one close per pass). start-tor.cs:2268: "Legs
  stuck UNLINKED for --watch-unlinked-strikes passes are closed as dead weight".
  Weak legs come first and may fill every pass.

## 6. Not modelled

`tor-src/` is the whole of tor: of some 340,000 lines, most belong to directory
authorities, relays, onion services, cryptography, parsers, configuration and
platform code, which TorJet takes unchanged and neither conflux nor the launcher
depends on except through their results. They are sequential, or I/O, or
computations with nothing for a model checker to interleave, and a map that
covered a large share of them would have to name lines no definition translates.
The models stay with the parts TorJet changed and the ones a connection goes
through.

Left out of the parts that are modelled:

* conflux: cell formats; the cost in bytes of the queue and its out-of-memory
  handler; several nonces at once (they share only the limits counted by
  `conflux_predict_new`); reading the consensus parameters, whose results are
  constants of the models;
* path bias accounting, circuit build timeouts, and the way a path is chosen;
* onion-service streams and circuits, and controller-made circuits;
* the KIST scheduler's kernel queries (its Lite form is modelled);
* guard sample ageing by calendar date and bridge descriptors;
* a transport announced twice by one proxy, and
  the settings of Windows edited between two writes of one change;
* in the health monitor, a close the control port refuses and a restart of tor
  under its static dictionaries;
* the launcher's update check, speed test, tray icon, settings file and log view;
* `torrc` and option handling, the control protocol's syntax.
